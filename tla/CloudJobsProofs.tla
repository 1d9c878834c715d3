-------------------------- MODULE CloudJobsProofs ---------------------------
EXTENDS CloudJobs, FiniteSetTheorems, TLAPS

(***************************************************************************)
(* Records: what the updates of a row, a message, a call and a task yield. *)
(***************************************************************************)

\* A row whose status, expiry or lease is set is a row; nothing else changes.
LEMMA RowSet ==
    ASSUME NEW rows \in [Jobs -> Row], NEW j \in Jobs,
           NEW s \in Statuses
    PROVE  /\ [rows EXCEPT ![j].status = s] \in [Jobs -> Row]
           /\ [rows EXCEPT ![j].status = s, ![j].leased = FALSE] \in [Jobs -> Row]
           /\ [rows EXCEPT ![j].status = s, ![j].expired = TRUE] \in [Jobs -> Row]
           /\ [rows EXCEPT ![j].expired = TRUE] \in [Jobs -> Row]
           /\ [rows EXCEPT ![j].leased = TRUE] \in [Jobs -> Row]
           /\ [rows EXCEPT ![j].leased = FALSE] \in [Jobs -> Row]
BY DEF Row

\* A retried row is a row.
LEMMA RowRetried ==
    ASSUME NEW rows \in [Jobs -> Row], NEW j \in Jobs, NEW s \in Statuses
    PROVE  [rows EXCEPT ![j].status = s, ![j].generation = @ + 1] \in [Jobs -> Row]
<1>1. rows[j].generation + 1 \in Nat
  BY DEF Row
<1>2. [rows[j] EXCEPT !.status = s, !.generation = @ + 1] \in Row
  BY <1>1 DEF Row
<1> QED BY <1>2

\* A claimed row is a row.
LEMMA RowClaimed ==
    ASSUME NEW rows \in [Jobs -> Row], NEW j \in Jobs, NEW r \in Nat
    PROVE  [rows EXCEPT ![j].status = "processing", ![j].attempts = @ + 1,
                        ![j].run = r, ![j].leased = TRUE] \in [Jobs -> Row]
<1>1. rows[j].attempts + 1 \in Nat
  BY DEF Row
<1>2. [rows[j] EXCEPT !.status = "processing", !.attempts = @ + 1, !.run = r, !.leased = TRUE] \in Row
  BY <1>1 DEF Row, Statuses
<1> QED BY <1>2

\* A message delivered, hidden, shown, posted or deleted leaves a queue.
LEMMA MailSet ==
    ASSUME NEW box \in [Messages -> Mail \cup {NoMail}], NEW m \in Messages
    PROVE  /\ box[m] # NoMail => [box EXCEPT ![m].hidden = TRUE] \in [Messages -> Mail \cup {NoMail}]
           /\ box[m] # NoMail => [box EXCEPT ![m].hidden = FALSE] \in [Messages -> Mail \cup {NoMail}]
           /\ box[m] # NoMail => \A w \in Workers :
                 [box EXCEPT ![m].hidden = TRUE, ![m].receipt = w] \in [Messages -> Mail \cup {NoMail}]
           /\ [box EXCEPT ![m] = NoMail] \in [Messages -> Mail \cup {NoMail}]
<1>1. CASE box[m] # NoMail
  <2>1. box[m] \in Mail
    BY <1>1
  <2>2. [box[m] EXCEPT !.hidden = TRUE] \in Mail /\ [box[m] EXCEPT !.hidden = FALSE] \in Mail
    BY <2>1 DEF Mail
  <2>3. \A w \in Workers : [box[m] EXCEPT !.hidden = TRUE, !.receipt = w] \in Mail
    BY <2>1 DEF Mail
  <2> QED BY <2>2, <2>3
<1>2. CASE box[m] = NoMail
  BY <1>2
<1> QED BY <1>1, <1>2

\* A message carries a job, a generation and an action.
LEMMA MailFields ==
    ASSUME NEW box \in [Messages -> Mail \cup {NoMail}], NEW m \in Messages, box[m] # NoMail
    PROVE  /\ box[m].job \in Jobs
           /\ box[m].generation \in Nat
           /\ box[m].action \in {"convert", "delete"}
<1>1. box[m] \in Mail
  OBVIOUS
<1> QED BY <1>1 DEF Mail

\* A new message is one.
LEMMA MailPosted ==
    ASSUME NEW j \in Jobs, NEW g \in Nat, NEW a \in {"convert", "delete"}
    PROVE  /\ [job |-> j, generation |-> g, action |-> a, hidden |-> FALSE, receipt |-> None] \in Mail
           /\ [job |-> j, generation |-> g, action |-> a, hidden |-> FALSE, receipt |-> None] # NoMail
<1> DEFINE new == [job |-> j, generation |-> g, action |-> a, hidden |-> FALSE, receipt |-> None]
<1>1. new \in Mail
  BY DEF Mail
<1>2. new.job = j /\ NoMail.job = None
  BY DEF NoMail
<1>3. j # None
  BY NoneAssumption
<1> QED BY <1>1, <1>2, <1>3


(***************************************************************************)
(* Types.  A request or a worker that is under way knows its job.          *)
(***************************************************************************)
Pointers ==
    /\ \A c \in Callers : call[c].at # "idle" => call[c].job \in Jobs
    /\ \A w \in Workers : pc[w] \in Working => task[w].msg \in Messages /\ task[w].job \in Jobs

Typed == TypeOK /\ Pointers

\* Initially they are.
LEMMA TypedInit == Init => Typed
BY LimitAssumption, NoneAssumption
   DEF Init, Typed, TypeOK, Pointers, Row, NoRow, Statuses, Call, Resting, Task, NoTask,
       Places, Working

\* Every step keeps the types.
LEMMA TypedStep == Typed /\ [Next]_vars => Typed'
<1> SUFFICES ASSUME Typed, [Next]_vars PROVE Typed'
  OBVIOUS
<1> USE LimitAssumption, NoneAssumption
       DEF Typed, TypeOK, Pointers, Places, Working, catalogue, workers
<1>1. ASSUME NEW c \in Callers, NEW j \in Jobs, Create(c, j) PROVE Typed'
  <2>1. row' \in [Jobs -> Row]
    BY <1>1, RowSet DEF Create, Statuses
  <2>2. row[j].generation \in Nat
    BY <1>1 DEF Row
  <2>3. call' \in [Callers -> Call] /\ call'[c].job \in Jobs
    BY <1>1, <2>2 DEF Create, Serves, Call
  <2> QED BY <1>1, <2>1, <2>2, <2>3 DEF Create, Serves, HasAllowance
<1>2. ASSUME NEW c \in Callers, NEW j \in Jobs, CompleteUpload(c, j) PROVE Typed'
  <2>1. row' = row \/ row' = [row EXCEPT ![j].status = "dispatching"]
    BY <1>2 DEF CompleteUpload
  <2>2. [row EXCEPT ![j].status = "dispatching"] \in [Jobs -> Row]
    BY <1>2, RowSet DEF Statuses
  <2>3. row' \in [Jobs -> Row]
    BY <2>2, <2>1
  <2>4. row[j].generation \in Nat
    BY <1>2 DEF Row
  <2>5. call' \in [Callers -> Call] /\ call'[c].job \in Jobs
    BY <1>2, <2>4 DEF CompleteUpload, Serves, Call
  <2>6. blobs' \in [Jobs -> SUBSET Files]
    BY <1>2 DEF CompleteUpload, Files
  <2> QED BY <1>2, <2>1, <2>2, <2>3, <2>4, <2>5, <2>6 DEF CompleteUpload, Serves
<1>3. ASSUME NEW c \in Callers, NEW j \in Jobs, Retry(c, j) PROVE Typed'
  <2>1. row' \in [Jobs -> Row]
    BY <1>3, RowRetried DEF Retry, Statuses
  <2>2. row[j].generation \in Nat
    BY <1>3 DEF Row
  <2>3. call' \in [Callers -> Call] /\ call'[c].job \in Jobs
    BY <1>3, <2>2 DEF Retry, Serves, Call
  <2> QED BY <1>3, <2>1, <2>2, <2>3 DEF Retry, Serves, HasAllowance
<1>4. ASSUME NEW c \in Callers, NEW j \in Jobs, Repair(c, j) PROVE Typed'
  <2>1. row[j].generation \in Nat
    BY <1>4 DEF Row
  <2>2. call' \in [Callers -> Call] /\ call'[c].job \in Jobs
    BY <1>4, <2>1 DEF Repair, Serves, Call
  <2> QED BY <1>4, <2>1, <2>2 DEF Repair, Serves
<1>5. ASSUME NEW c \in Callers, NEW j \in Jobs, Delete(c, j) PROVE Typed'
  <2>1. row' \in [Jobs -> Row]
    BY <1>5, RowSet DEF Delete, Statuses
  <2>2. row[j].generation \in Nat
    BY <1>5 DEF Row
  <2>3. call' \in [Callers -> Call] /\ call'[c].job \in Jobs
    BY <1>5, <2>2 DEF Delete, Serves, Call
  <2> QED BY <1>5, <2>1, <2>2, <2>3 DEF Delete, Serves
<1>6. ASSUME NEW c \in Callers, Place(c) PROVE Typed'
  <2>1. call[c].job \in Jobs /\ call[c].generation \in Nat
    BY <1>6 DEF Place, Call
  <2>2. call' \in [Callers -> Call] /\ (call'[c].at # "idle" => call'[c].job \in Jobs)
    BY <1>6, <2>1 DEF Place, Returns, Call, Resting
  <2>3. blobs' \in [Jobs -> SUBSET Files]
    BY <1>6, <2>1 DEF Place, Files
  <2> QED BY <1>6, <2>1, <2>2, <2>3 DEF Place, Returns
<1>7. ASSUME NEW c \in Callers, Dispatch(c) PROVE Typed'
  <2>1. call[c].job \in Jobs
    BY <1>7 DEF Dispatch
  <2>2. row[call[c].job].generation \in Nat
    BY <2>1 DEF Row
  <2>3. call' \in [Callers -> Call] /\ (call'[c].at # "idle" => call'[c].job \in Jobs)
    BY <1>7, <2>2, <2>1 DEF Dispatch, Serves, Returns, Call, Resting
  <2> QED BY <1>7, <2>1, <2>2, <2>3 DEF Dispatch, Serves, Returns
<1>8. ASSUME NEW c \in Callers, Send(c) PROVE Typed'
  <2>1. call[c].job \in Jobs /\ call[c].generation \in Nat
    BY <1>8 DEF Send, Call
  <2>2. [job |-> call[c].job, generation |-> call[c].generation, action |-> "convert",
            hidden |-> FALSE, receipt |-> None] \in Mail
    BY <2>1, MailPosted
  <2>3. mail' \in [Messages -> Mail \cup {NoMail}]
    BY <1>8, <2>2 DEF Send, Posts
  <2>4. call' \in [Callers -> Call] /\ (call'[c].at # "idle" => call'[c].job \in Jobs)
    BY <1>8, <2>1 DEF Send, Posts, Goes, Call, Resting
  <2> QED BY <1>8, <2>1, <2>2, <2>3, <2>4 DEF Send, Posts, Goes
<1>9. ASSUME NEW c \in Callers, Mark(c) PROVE Typed'
  <2>1. call[c].job \in Jobs /\ call[c].generation \in Nat
    BY <1>9 DEF Mark, Call
  <2>2. row' \in [Jobs -> Row]
    BY <1>9, <2>1, RowSet DEF Mark, StillAsRead, Statuses
  <2>3. call' \in [Callers -> Call] /\ (call'[c].at # "idle" => call'[c].job \in Jobs)
    BY <1>9, <2>1 DEF Mark, StillAsRead, Returns, Call, Resting
  <2> QED BY <1>9, <2>1, <2>2, <2>3 DEF Mark, StillAsRead, Returns
<1>10. ASSUME NEW c \in Callers, Tell(c) PROVE Typed'
  <2>1. call[c].job \in Jobs /\ call[c].generation \in Nat
    BY <1>10 DEF Tell, Call
  <2>2. [job |-> call[c].job, generation |-> call[c].generation, action |-> "delete",
            hidden |-> FALSE, receipt |-> None] \in Mail
    BY <2>1, MailPosted
  <2>3. mail' \in [Messages -> Mail \cup {NoMail}]
    BY <1>10, <2>2 DEF Tell, Posts
  <2>4. call' \in [Callers -> Call] /\ (call'[c].at # "idle" => call'[c].job \in Jobs)
    BY <1>10, <2>1 DEF Tell, Posts, Returns, Call, Resting
  <2> QED BY <1>10, <2>1, <2>2, <2>3, <2>4 DEF Tell, Posts, Returns
<1>11. ASSUME NEW c \in Callers, CallFails(c) PROVE Typed'
  <2>1. call' \in [Callers -> Call] /\ (call'[c].at # "idle" => call'[c].job \in Jobs)
    BY <1>11 DEF CallFails, Returns, Call, Resting
  <2> QED BY <1>11, <2>1 DEF CallFails, Returns
<1>12. ASSUME NEW w \in Workers, NEW m \in Messages, Receive(w, m) PROVE Typed'
  <2>1. mail[m] # NoMail
    BY <1>12 DEF Receive, Waiting
  <2>2. mail' \in [Messages -> Mail \cup {NoMail}]
    BY <1>12, <2>1, MailSet DEF Receive
  <2>3. task' \in [Workers -> Task] /\ task'[w].msg = m /\ task'[w].job \in Jobs
    BY <1>12, <2>1, MailFields DEF Receive, Task
  <2> QED BY <1>12, <2>1, <2>2, <2>3 DEF Receive, Destination, Waiting, Moves
<1>13. ASSUME NEW w \in Workers, Start(w) PROVE Typed'
  <2> QED BY <1>13 DEF Start, Moves
<1>14. ASSUME NEW w \in Workers, ReceiveNothing(w) PROVE Typed'
  <2> QED BY <1>14 DEF ReceiveNothing, Moves
<1>15. ASSUME NEW w \in Workers, ClaimUnwanted(w) PROVE Typed'
  <2> QED BY <1>15 DEF ClaimUnwanted, Wanted, Moves
<1>16. ASSUME NEW w \in Workers, ClaimTaken(w) PROVE Typed'
  <2> QED BY <1>16 DEF ClaimTaken, Wanted, Moves
<1>17. ASSUME NEW w \in Workers, ClaimSpent(w) PROVE Typed'
  <2>1. task[w].job \in Jobs /\ task[w].msg \in Messages
    BY <1>17 DEF ClaimSpent
  <2>2. row' \in [Jobs -> Row]
    BY <1>17, <2>1, RowSet DEF ClaimSpent, Wanted, Moves, Statuses
  <2> QED BY <1>17, <2>1, <2>2 DEF ClaimSpent, Wanted, Moves
<1>18. ASSUME NEW w \in Workers, Claim(w) PROVE Typed'
  <2>1. task[w].job \in Jobs /\ task[w].msg \in Messages
    BY <1>18 DEF Claim
  <2>2. NextRun(task[w].job) \in Nat
    BY <1>18, <2>1 DEF NextRun, Row
  <2>3. row' = [row EXCEPT ![task[w].job].status = "processing", ![task[w].job].attempts = @ + 1,
                             ![task[w].job].run = NextRun(task[w].job), ![task[w].job].leased = TRUE]
    BY <1>18 DEF Claim
  <2>4. [row EXCEPT ![task[w].job].status = "processing", ![task[w].job].attempts = @ + 1,
                      ![task[w].job].run = NextRun(task[w].job), ![task[w].job].leased = TRUE] \in [Jobs -> Row]
    BY <2>1, <2>2, RowClaimed
  <2>5. row' \in [Jobs -> Row]
    BY <2>3, <2>4
  <2>6. task' = [task EXCEPT ![w].run = NextRun(task[w].job)]
    BY <1>18 DEF Claim
  <2>7. task' \in [Workers -> Task] /\ task'[w].msg = task[w].msg /\ task'[w].job = task[w].job
    BY <2>2, <2>6 DEF Task
  <2> QED BY <1>18, <2>1, <2>2, <2>3, <2>4, <2>5, <2>6, <2>7 DEF Claim, Wanted, Spent, NextRun, Moves
<1>19. ASSUME NEW w \in Workers, Check(w) PROVE Typed'
  <2> QED BY <1>19 DEF Check, Refused, Accepted, Owns, Moves
<1>20. ASSUME NEW w \in Workers, Renew(w) PROVE Typed'
  <2> QED BY <1>20 DEF Renew, Moves
<1>21. ASSUME NEW w \in Workers, Extend(w) PROVE Typed'
  <2>1. task[w].job \in Jobs /\ task[w].msg \in Messages
    BY <1>21 DEF Extend
  <2>2. mail' = mail \/ (Holds(w) /\ mail' = [mail EXCEPT ![task[w].msg].hidden = TRUE])
    BY <1>21 DEF Extend
  <2>3. Holds(w) => [mail EXCEPT ![task[w].msg].hidden = TRUE] \in [Messages -> Mail \cup {NoMail}]
    BY <2>1, MailSet DEF Holds
  <2>4. mail' \in [Messages -> Mail \cup {NoMail}]
    BY <2>3, <2>2
  <2> QED BY <1>21, <2>1, <2>2, <2>3, <2>4 DEF Extend, Holds, Moves
<1>22. ASSUME NEW w \in Workers, Prolong(w) PROVE Typed'
  <2>1. task[w].job \in Jobs /\ task[w].msg \in Messages
    BY <1>22 DEF Prolong
  <2>2. row' = row \/ row' = [row EXCEPT ![task[w].job].leased = TRUE]
    BY <1>22 DEF Prolong
  <2>3. [row EXCEPT ![task[w].job].leased = TRUE] \in [Jobs -> Row]
    BY <2>1, RowSet DEF Statuses
  <2>4. row' \in [Jobs -> Row]
    BY <2>3, <2>2
  <2> QED BY <1>22, <2>1, <2>2, <2>3, <2>4 DEF Prolong, Refused, Accepted, Owns, Moves
<1>23. ASSUME NEW w \in Workers, StoreCheckpoint(w) PROVE Typed'
  <2>1. task[w].job \in Jobs /\ task[w].msg \in Messages
    BY <1>23 DEF StoreCheckpoint
  <2>2. blobs' \in [Jobs -> SUBSET Files]
    BY <1>23, <2>1 DEF StoreCheckpoint, Files
  <2> QED BY <1>23, <2>1, <2>2 DEF StoreCheckpoint, Moves
<1>24. ASSUME NEW w \in Workers, StoreResults(w) PROVE Typed'
  <2>1. task[w].job \in Jobs /\ task[w].msg \in Messages
    BY <1>24 DEF StoreResults
  <2>2. blobs' \in [Jobs -> SUBSET Files]
    BY <1>24, <2>1 DEF StoreResults, Files
  <2> QED BY <1>24, <2>1, <2>2 DEF StoreResults, Moves
<1>25. ASSUME NEW w \in Workers, Complete(w) PROVE Typed'
  <2>1. task[w].job \in Jobs /\ task[w].msg \in Messages
    BY <1>25 DEF Complete
  <2>2. row' = row \/ row' = [row EXCEPT ![task[w].job].status = "completed", ![task[w].job].leased = FALSE]
    BY <1>25 DEF Complete
  <2>3. [row EXCEPT ![task[w].job].status = "completed", ![task[w].job].leased = FALSE] \in [Jobs -> Row]
    BY <2>1, RowSet DEF Statuses
  <2>4. row' \in [Jobs -> Row]
    BY <2>3, <2>2
  <2> QED BY <1>25, <2>1, <2>2, <2>3, <2>4 DEF Complete, Refused, Accepted, Owns, Moves
<1>26. ASSUME NEW w \in Workers, ConversionFails(w) PROVE Typed'
  <2> QED BY <1>26 DEF ConversionFails, Moves
<1>27. ASSUME NEW w \in Workers, ReportFailure(w) PROVE Typed'
  <2>1. task[w].job \in Jobs /\ task[w].msg \in Messages
    BY <1>27 DEF ReportFailure
  <2>2. row' = row \/ row' = [row EXCEPT ![task[w].job].status = "failed", ![task[w].job].leased = FALSE]
    BY <1>27 DEF ReportFailure
  <2>3. [row EXCEPT ![task[w].job].status = "failed", ![task[w].job].leased = FALSE] \in [Jobs -> Row]
    BY <2>1, RowSet DEF Statuses
  <2>4. row' \in [Jobs -> Row]
    BY <2>3, <2>2
  <2> QED BY <1>27, <2>1, <2>2, <2>3, <2>4 DEF ReportFailure, Accepted, Owns, Moves
<1>28. ASSUME NEW w \in Workers, Purge(w) PROVE Typed'
  <2>1. task[w].job \in Jobs /\ task[w].msg \in Messages
    BY <1>28 DEF Purge
  <2>2. blobs' \in [Jobs -> SUBSET Files]
    BY <1>28, <2>1 DEF Purge, Files
  <2> QED BY <1>28, <2>1, <2>2 DEF Purge, Moves
<1>29. ASSUME NEW w \in Workers, Ack(w) PROVE Typed'
  <2>1. task[w].job \in Jobs /\ task[w].msg \in Messages
    BY <1>29 DEF Ack
  <2>2. mail' = mail \/ (Holds(w) /\ mail' = [mail EXCEPT ![task[w].msg] = NoMail])
    BY <1>29 DEF Ack
  <2>3. Holds(w) => [mail EXCEPT ![task[w].msg] = NoMail] \in [Messages -> Mail \cup {NoMail}]
    BY <2>1, MailSet DEF Holds
  <2>4. mail' \in [Messages -> Mail \cup {NoMail}]
    BY <2>3, <2>2
  <2> QED BY <1>29, <2>1, <2>2, <2>3, <2>4 DEF Ack, Holds, Moves
<1>30. ASSUME NEW w \in Workers, Release(w) PROVE Typed'
  <2>1. task' \in [Workers -> Task]
    BY <1>30 DEF Release, Task, NoTask
  <2> QED BY <1>30, <2>1 DEF Release, Moves
<1>31. ASSUME NEW w \in Workers, Abandon(w) PROVE Typed'
  <2> QED BY <1>31 DEF Abandon, Moves
<1>32. ASSUME NEW w \in Workers, Die(w) PROVE Typed'
  <2>1. task' \in [Workers -> Task]
    BY <1>32 DEF Die, Task, NoTask
  <2> QED BY <1>32, <2>1 DEF Die, Moves
<1>33. ASSUME NEW j \in Jobs, Expire(j) PROVE Typed'
  <2>1. row' \in [Jobs -> Row]
    BY <1>33, RowSet DEF Expire, Statuses
  <2> QED BY <1>33, <2>1 DEF Expire
<1>34. ASSUME NEW j \in Jobs, LeaseLapse(j) PROVE Typed'
  <2>1. row' \in [Jobs -> Row]
    BY <1>34, RowSet DEF LeaseLapse, Statuses
  <2> QED BY <1>34, <2>1 DEF LeaseLapse
<1>35. ASSUME NEW m \in Messages, Reappear(m) PROVE Typed'
  <2>1. mail' \in [Messages -> Mail \cup {NoMail}]
    BY <1>35, MailSet DEF Reappear
  <2> QED BY <1>35, <2>1 DEF Reappear
<1>36. ASSUME SlotLapse PROVE Typed'
  <2> QED BY <1>36 DEF SlotLapse
<1>37. CASE UNCHANGED vars
  BY <1>37 DEF vars
<1> QED
  BY <1>1, <1>2, <1>3, <1>4, <1>5, <1>6, <1>7, <1>8, <1>9, <1>10, <1>11, <1>12,
     <1>13, <1>14, <1>15, <1>16, <1>17, <1>18, <1>19, <1>20, <1>21, <1>22, <1>23, <1>24,
     <1>25, <1>26, <1>27, <1>28, <1>29, <1>30, <1>31, <1>32, <1>33, <1>34, <1>35, <1>36,
     <1>37
     DEF Next, CallStep, WorkerStep, TimeStep

(***************************************************************************)
(* What the steps do to the catalogue's rows.                              *)
(***************************************************************************)
RowBecomes(j, s, e, g, a, r) ==
    /\ \A i \in Jobs \ {j} : row'[i] = row[i]
    /\ row'[j].status = s
    /\ row'[j].expired = e
    /\ row'[j].generation = g
    /\ row'[j].attempts = a
    /\ row'[j].run = r

\* The row changes at most in what no invariant asks: its lease.
RowKept(j) ==
    RowBecomes(j, row[j].status, row[j].expired, row[j].generation, row[j].attempts, row[j].run)

\* Only the status changes.
StatusBecomes(j, s) ==
    RowBecomes(j, s, row[j].expired, row[j].generation, row[j].attempts, row[j].run)

\* The effect of every API call on its row.
LEMMA CallRows ==
    ASSUME Typed, NEW c \in Callers, NEW j \in Jobs
    PROVE  /\ Create(c, j) => StatusBecomes(j, "uploading")
           /\ CompleteUpload(c, j) => row' = row \/ StatusBecomes(j, "dispatching")
           /\ Retry(c, j) => RowBecomes(j, "dispatching", row[j].expired, row[j].generation + 1,
                                        row[j].attempts, row[j].run)
           /\ Delete(c, j) => RowBecomes(j, "deleted", TRUE, row[j].generation,
                                         row[j].attempts, row[j].run)
           /\ Mark(c) => row' = row \/ (StillAsRead(c) /\ StatusBecomes(call[c].job, "queued"))
<1> USE DEF Typed, TypeOK, Row, StatusBecomes, RowBecomes
<1>1. Create(c, j) => StatusBecomes(j, "uploading")
  BY DEF Create
<1>2. CompleteUpload(c, j) => row' = row \/ StatusBecomes(j, "dispatching")
  BY DEF CompleteUpload
<1>3. Retry(c, j) => RowBecomes(j, "dispatching", row[j].expired, row[j].generation + 1,
                                row[j].attempts, row[j].run)
  BY DEF Retry
<1>4. Delete(c, j) => RowBecomes(j, "deleted", TRUE, row[j].generation, row[j].attempts, row[j].run)
  BY DEF Delete
<1>5. Mark(c) => row' = row \/ (StillAsRead(c) /\ StatusBecomes(call[c].job, "queued"))
  <2>1. Mark(c) => call[c].job \in Jobs
    BY DEF Mark, Pointers
  <2>2. Mark(c) => row' = row \/ (StillAsRead(c) /\ row' = [row EXCEPT ![call[c].job].status = "queued"])
    BY DEF Mark
  <2> QED BY <2>1, <2>2
<1> QED BY <1>1, <1>2, <1>3, <1>4, <1>5

\* The effect of every step of a worker on the row of its job.
LEMMA WorkerRows ==
    ASSUME Typed, NEW w \in Workers
    PROVE  LET j == task[w].job IN
           /\ ClaimSpent(w) => StatusBecomes(j, "failed")
           /\ Claim(w) => RowBecomes(j, "processing", row[j].expired, row[j].generation,
                                     row[j].attempts + 1, row[j].attempts + 1)
           /\ Prolong(w) => row' = row \/ RowKept(j)
           /\ Complete(w) => row' = row \/ (Accepted(w) /\ StatusBecomes(j, "completed"))
           /\ ReportFailure(w) => row' = row \/ (Accepted(w) /\ StatusBecomes(j, "failed"))
<1> DEFINE j == task[w].job
<1> USE DEF Typed, TypeOK, Row, StatusBecomes, RowKept, RowBecomes
<1>0. pc[w] \in Working => j \in Jobs
  BY DEF Pointers
<1>1. ClaimSpent(w) => StatusBecomes(j, "failed")
  BY <1>0 DEF ClaimSpent, Working
<1>2. Claim(w) => RowBecomes(j, "processing", row[j].expired, row[j].generation,
                             row[j].attempts + 1, row[j].attempts + 1)
  BY <1>0 DEF Claim, NextRun, Working
<1>3. Prolong(w) => row' = row \/ RowKept(j)
  <2>1. Prolong(w) => row' = row \/ row' = [row EXCEPT ![j].leased = TRUE]
    BY DEF Prolong
  <2> QED BY <2>1, <1>0 DEF Prolong, Working
<1>4. Complete(w) => row' = row \/ (Accepted(w) /\ StatusBecomes(j, "completed"))
  <2>1. Complete(w) => row' = row \/ (Accepted(w) /\
            row' = [row EXCEPT ![j].status = "completed", ![j].leased = FALSE])
    BY DEF Complete
  <2> QED BY <2>1, <1>0 DEF Complete, Working
<1>5. ReportFailure(w) => row' = row \/ (Accepted(w) /\ StatusBecomes(j, "failed"))
  <2>1. ReportFailure(w) => row' = row \/ (Accepted(w) /\
            row' = [row EXCEPT ![j].status = "failed", ![j].leased = FALSE])
    BY DEF ReportFailure
  <2> QED BY <2>1, <1>0 DEF ReportFailure, Working
<1> QED BY <1>1, <1>2, <1>3, <1>4, <1>5

\* The effect of time.
LEMMA TimeRows ==
    ASSUME Typed, NEW j \in Jobs
    PROVE  /\ Expire(j) => RowBecomes(j, row[j].status, TRUE, row[j].generation,
                                      row[j].attempts, row[j].run)
           /\ LeaseLapse(j) => RowKept(j)
BY DEF Typed, TypeOK, Row, RowKept, RowBecomes, Expire, LeaseLapse

\* Where the row of a job is after a step.
RowAt(j, s, e, g, a, r) ==
    /\ row'[j].status = s
    /\ row'[j].expired = e
    /\ row'[j].generation = g
    /\ row'[j].attempts = a
    /\ row'[j].run = r

\* What a step may do to the row of a job, and which step it is.
RowMove(j) ==
    \/ RowAt(j, row[j].status, row[j].expired, row[j].generation, row[j].attempts, row[j].run)
    \/ /\ RowAt(j, row[j].status, TRUE, row[j].generation, row[j].attempts, row[j].run)
       /\ Visible(j)
    \/ /\ RowAt(j, "deleted", TRUE, row[j].generation, row[j].attempts, row[j].run)
       /\ Visible(j)
       /\ \E c \in Callers : Delete(c, j)
    \/ /\ RowAt(j, "uploading", row[j].expired, row[j].generation, row[j].attempts, row[j].run)
       /\ \E c \in Callers : Create(c, j)
    \/ /\ RowAt(j, "dispatching", row[j].expired, row[j].generation, row[j].attempts, row[j].run)
       /\ row[j].status = "uploading"
       /\ \E c \in Callers : CompleteUpload(c, j)
    \/ /\ RowAt(j, "dispatching", row[j].expired, row[j].generation + 1, row[j].attempts, row[j].run)
       /\ \E c \in Callers : Retry(c, j)
    \/ /\ RowAt(j, "queued", row[j].expired, row[j].generation, row[j].attempts, row[j].run)
       /\ \E c \in Callers : Mark(c) /\ StillAsRead(c) /\ call[c].job = j
    \/ /\ RowAt(j, "processing", row[j].expired, row[j].generation, row[j].attempts + 1,
                row[j].attempts + 1)
       /\ \E w \in Workers : Claim(w) /\ task[w].job = j
    \/ /\ RowAt(j, "completed", row[j].expired, row[j].generation, row[j].attempts, row[j].run)
       /\ \E w \in Workers : Complete(w) /\ Accepted(w) /\ task[w].job = j
    \/ /\ RowAt(j, "failed", row[j].expired, row[j].generation, row[j].attempts, row[j].run)
       /\ \E w \in Workers : (ClaimSpent(w) \/ (ReportFailure(w) /\ Accepted(w))) /\ task[w].job = j

\* Every step moves every row in one of these ways.
LEMMA RowSteps == Typed /\ [Next]_vars => \A j \in Jobs : RowMove(j)
<1> SUFFICES ASSUME Typed, [Next]_vars, NEW j \in Jobs PROVE RowMove(j)
  OBVIOUS
<1> USE DEF RowMove, RowAt
<1>1. ASSUME row'[j] = row[j] PROVE RowMove(j)
  BY <1>1
<1>2. ASSUME NEW i \in Jobs, \A k \in Jobs \ {i} : row'[k] = row[k], i # j PROVE RowMove(j)
  BY <1>1, <1>2
<1>3. ASSUME NEW i \in Jobs, RowKept(i) PROVE RowMove(j)
  BY <1>2, <1>3 DEF RowKept, RowBecomes
<1>4. ASSUME NEW c \in Callers, CallStep(c) PROVE RowMove(j)
  <2>1. ASSUME NEW i \in Jobs, Create(c, i) PROVE RowMove(j)
    <3>1. StatusBecomes(i, "uploading")
      BY <2>1, CallRows
    <3> QED BY <1>2, <2>1, <3>1 DEF StatusBecomes, RowBecomes
  <2>2. ASSUME NEW i \in Jobs, CompleteUpload(c, i) PROVE RowMove(j)
    <3>1. CASE row' = row
      BY <1>1, <3>1
    <3>2. CASE row[i].status = "uploading" /\ StatusBecomes(i, "dispatching")
      BY <1>2, <2>2, <3>2 DEF StatusBecomes, RowBecomes
    <3>3. row[i].status # "uploading" => row' = row
      BY <2>2 DEF CompleteUpload
    <3>4. row' = row \/ StatusBecomes(i, "dispatching")
      BY <2>2, CallRows
    <3> QED BY <3>1, <3>2, <3>3, <3>4
  <2>3. ASSUME NEW i \in Jobs, Retry(c, i) PROVE RowMove(j)
    <3>1. RowBecomes(i, "dispatching", row[i].expired, row[i].generation + 1,
                     row[i].attempts, row[i].run)
      BY <2>3, CallRows
    <3> QED BY <1>2, <2>3, <3>1 DEF RowBecomes
  <2>4. ASSUME NEW i \in Jobs, Delete(c, i) PROVE RowMove(j)
    <3>1. RowBecomes(i, "deleted", TRUE, row[i].generation, row[i].attempts, row[i].run)
      BY <2>4, CallRows
    <3>2. Visible(i)
      BY <2>4 DEF Delete
    <3> QED BY <1>2, <2>4, <3>1, <3>2 DEF RowBecomes
  <2>5. CASE Mark(c)
    <3>1. call[c].job \in Jobs
      BY <2>5 DEF Mark, Typed, Pointers
    <3>2. CASE row' = row
      BY <1>1, <3>2
    <3>3. CASE StillAsRead(c) /\ StatusBecomes(call[c].job, "queued")
      BY <1>2, <2>5, <3>1, <3>3 DEF StatusBecomes, RowBecomes
    <3> QED BY <2>5, <3>1, <3>2, <3>3, CallRows
  <2>6. CASE \/ \E i \in Jobs : Repair(c, i)
             \/ Place(c) \/ Dispatch(c) \/ Send(c) \/ Tell(c) \/ CallFails(c)
    <3>1. row' = row
      BY <2>6 DEF Repair, Place, Dispatch, Send, Tell, CallFails, catalogue
    <3> QED BY <1>1, <3>1
  <2> QED BY <1>4, <2>1, <2>2, <2>3, <2>4, <2>5, <2>6 DEF CallStep
<1>5. ASSUME NEW w \in Workers, WorkerStep(w) PROVE RowMove(j)
  <2> DEFINE i == task[w].job
  <2>0. pc[w] \in Working => i \in Jobs
    BY DEF Typed, Pointers
  <2>1. CASE ClaimSpent(w)
    <3>1. i \in Jobs /\ StatusBecomes(i, "failed")
      BY <2>0, <2>1, WorkerRows DEF ClaimSpent, Working
    <3> QED BY <1>2, <2>1, <3>1 DEF StatusBecomes, RowBecomes
  <2>2. CASE Claim(w)
    <3>1. i \in Jobs
      BY <2>0, <2>2 DEF Claim, Working
    <3>2. RowBecomes(i, "processing", row[i].expired, row[i].generation,
                     row[i].attempts + 1, row[i].attempts + 1)
      BY <2>2, WorkerRows
    <3> QED BY <1>2, <2>2, <3>1, <3>2 DEF RowBecomes
  <2>3. CASE Prolong(w)
    <3>1. i \in Jobs /\ (row' = row \/ RowKept(i))
      BY <2>0, <2>3, WorkerRows DEF Prolong, Working
    <3> QED BY <1>1, <1>3, <3>1
  <2>4. CASE Complete(w)
    <3>1. i \in Jobs /\ (row' = row \/ (Accepted(w) /\ StatusBecomes(i, "completed")))
      BY <2>0, <2>4, WorkerRows DEF Complete, Working
    <3> QED BY <1>1, <1>2, <2>4, <3>1 DEF StatusBecomes, RowBecomes
  <2>5. CASE ReportFailure(w)
    <3>1. i \in Jobs /\ (row' = row \/ (Accepted(w) /\ StatusBecomes(i, "failed")))
      BY <2>0, <2>5, WorkerRows DEF ReportFailure, Working
    <3> QED BY <1>1, <1>2, <2>5, <3>1 DEF StatusBecomes, RowBecomes
  <2>6. CASE ~(ClaimSpent(w) \/ Claim(w) \/ Prolong(w) \/ Complete(w) \/ ReportFailure(w))
    <3>1. row' = row
      BY <1>5, <2>6 DEF WorkerStep, Start, Receive, ReceiveNothing, ClaimUnwanted, ClaimTaken,
         Check, Renew, Extend, StoreCheckpoint, StoreResults, ConversionFails, Purge, Ack,
         Release, Abandon, Die, catalogue
    <3> QED BY <1>1, <3>1
  <2> QED BY <2>1, <2>2, <2>3, <2>4, <2>5, <2>6
<1>6. CASE TimeStep
  <2>1. ASSUME NEW i \in Jobs, Expire(i) PROVE RowMove(j)
    <3>1. RowBecomes(i, row[i].status, TRUE, row[i].generation, row[i].attempts, row[i].run)
      BY <2>1, TimeRows
    <3>2. Visible(i)
      BY <2>1 DEF Expire
    <3> QED BY <1>2, <3>1, <3>2 DEF RowBecomes
  <2>2. ASSUME NEW i \in Jobs, LeaseLapse(i) PROVE RowMove(j)
    BY <1>3, <2>2, TimeRows
  <2>3. CASE SlotLapse \/ \E m \in Messages : Reappear(m)
    <3>1. row' = row
      BY <2>3 DEF SlotLapse, Reappear, catalogue
    <3> QED BY <1>1, <3>1
  <2> QED BY <1>6, <2>1, <2>2, <2>3 DEF TimeStep
<1>7. CASE UNCHANGED vars
  BY <1>1, <1>7 DEF vars
<1> QED BY <1>4, <1>5, <1>6, <1>7 DEF Next

(***************************************************************************)
(* Rows only move on.  What was asked of a worker and is settled is not    *)
(* asked again in the same generation; what is out of sight stays so.      *)
(***************************************************************************)
Begun(j) == row[j].status \notin {"none", "uploading"}

Asked(j, g) == Visible(j) /\ row[j].generation = g /\ row[j].status \in Claimable

Grow ==
    \A j \in Jobs :
        /\ row[j].generation <= row'[j].generation
        /\ row[j].attempts <= row'[j].attempts
        /\ Begun(j) => Begun(j)'
        /\ Begun(j) /\ ~Visible(j) => ~Visible(j)'
        /\ \A g \in Nat : Begun(j) /\ g <= row[j].generation /\ ~Asked(j, g) => ~Asked(j, g)'

\* Every step lets rows move on.
LEMMA RowsGrow == Typed /\ [Next]_vars => Grow
<1> SUFFICES ASSUME Typed, [Next]_vars, NEW j \in Jobs
             PROVE  /\ row[j].generation <= row'[j].generation
                    /\ row[j].attempts <= row'[j].attempts
                    /\ Begun(j) => Begun(j)'
                    /\ Begun(j) /\ ~Visible(j) => ~Visible(j)'
                    /\ \A g \in Nat : Begun(j) /\ g <= row[j].generation /\ ~Asked(j, g) => ~Asked(j, g)'
  BY DEF Grow
<1>1. RowMove(j)
  BY RowSteps
<1>2. row[j].generation \in Nat /\ row[j].attempts \in Nat
  BY DEF Typed, TypeOK, Row
<1>3. /\ (\E c \in Callers : Create(c, j)) => row[j].status = "none"
      /\ (\E c \in Callers : Retry(c, j)) => Visible(j) /\ row[j].status = "failed"
      /\ (\E c \in Callers : Mark(c) /\ StillAsRead(c) /\ call[c].job = j) => row[j].status = "dispatching"
      /\ (\E w \in Workers : Claim(w) /\ task[w].job = j) => row[j].status \in Claimable /\ Visible(j)
      /\ (\E w \in Workers : Complete(w) /\ Accepted(w) /\ task[w].job = j) => Visible(j)
      /\ (\E w \in Workers : (ClaimSpent(w) \/ (ReportFailure(w) /\ Accepted(w))) /\ task[w].job = j)
            => Visible(j)
  BY DEF Create, Retry, StillAsRead, Claim, ClaimSpent, Wanted, Accepted
<1>4. /\ row[j].generation <= row'[j].generation
      /\ row[j].attempts <= row'[j].attempts
  BY <1>1, <1>2 DEF RowMove, RowAt
<1>5. Begun(j) => Begun(j)'
  BY <1>1, <1>3 DEF RowMove, RowAt, Begun
<1>6. Begun(j) /\ ~Visible(j) => ~Visible(j)'
  BY <1>1, <1>3 DEF RowMove, RowAt, Begun, Visible
<1>7. ASSUME NEW g \in Nat, Begun(j), g <= row[j].generation, ~Asked(j, g) PROVE ~Asked(j, g)'
  BY <1>1, <1>2, <1>3, <1>7 DEF RowMove, RowAt, Begun, Visible, Asked, Claimable
<1> QED BY <1>4, <1>5, <1>6, <1>7

(***************************************************************************)
(* What the steps do to the queue and to the workers' tasks.               *)
(***************************************************************************)
SameMail(m) ==
    /\ mail'[m] # NoMail
    /\ mail'[m].job = mail[m].job
    /\ mail'[m].generation = mail[m].generation
    /\ mail'[m].action = mail[m].action

NewMail(m, c, action) ==
    /\ mail[m] = NoMail
    /\ mail'[m] = [job |-> call[c].job, generation |-> call[c].generation,
                   action |-> action, hidden |-> FALSE, receipt |-> None]

\* A message stays as it is but for who received it, is deleted by the worker
\* that holds it, or is new.
MailStep ==
    \A m \in Messages :
        \/ mail'[m] = mail[m]
        \/ mail[m] # NoMail /\ SameMail(m) /\ mail'[m].receipt = mail[m].receipt
        \/ \E w \in Workers : Receive(w, m) /\ SameMail(m) /\ mail'[m].receipt = w
        \/ \E w \in Workers : Ack(w) /\ Holds(w) /\ task[w].msg = m /\ mail'[m] = NoMail
        \/ \E c \in Callers : Send(c) /\ NewMail(m, c, "convert")
        \/ \E c \in Callers : Tell(c) /\ NewMail(m, c, "delete")

\* Every step changes the queue in one of these ways.
LEMMA MailSteps == Typed /\ [Next]_vars => MailStep
<1> SUFFICES ASSUME Typed, [Next]_vars, NEW m \in Messages
             PROVE  \/ mail'[m] = mail[m]
                    \/ mail[m] # NoMail /\ SameMail(m) /\ mail'[m].receipt = mail[m].receipt
                    \/ \E w \in Workers : Receive(w, m) /\ SameMail(m) /\ mail'[m].receipt = w
                    \/ \E w \in Workers : Ack(w) /\ Holds(w) /\ task[w].msg = m /\ mail'[m] = NoMail
                    \/ \E c \in Callers : Send(c) /\ NewMail(m, c, "convert")
                    \/ \E c \in Callers : Tell(c) /\ NewMail(m, c, "delete")
  BY DEF MailStep
<1>0. mail \in [Messages -> Mail \cup {NoMail}]
  BY DEF Typed, TypeOK
<1>1. \A n \in Messages : mail[n] # NoMail => /\ [mail[n] EXCEPT !.hidden = TRUE] \in Mail
                                              /\ [mail[n] EXCEPT !.hidden = FALSE] \in Mail
  <2>1. \A r \in Mail : [r EXCEPT !.hidden = TRUE] \in Mail /\ [r EXCEPT !.hidden = FALSE] \in Mail
    BY DEF Mail
  <2> QED BY <1>0, <2>1
<1>2. NoMail \notin Mail
  <2>1. \A r \in Mail : r.job \in Jobs
    BY DEF Mail
  <2>2. NoMail.job = None
    BY DEF NoMail
  <2> QED BY <2>1, <2>2, NoneAssumption
<1>3. \A r \in Mail : /\ [r EXCEPT !.hidden = TRUE].job = r.job
                      /\ [r EXCEPT !.hidden = TRUE].generation = r.generation
                      /\ [r EXCEPT !.hidden = TRUE].action = r.action
                      /\ [r EXCEPT !.hidden = TRUE].receipt = r.receipt
                      /\ [r EXCEPT !.hidden = FALSE].job = r.job
                      /\ [r EXCEPT !.hidden = FALSE].generation = r.generation
                      /\ [r EXCEPT !.hidden = FALSE].action = r.action
                      /\ [r EXCEPT !.hidden = FALSE].receipt = r.receipt
  BY DEF Mail
<1>4. ASSUME NEW w \in Workers, NEW n \in Messages, Receive(w, n)
      PROVE  (n = m /\ SameMail(m) /\ mail'[m].receipt = w) \/ mail'[m] = mail[m]
  <2>1. mail[n] \in Mail /\ mail' = [mail EXCEPT ![n].hidden = TRUE, ![n].receipt = w]
    BY <1>0, <1>4 DEF Receive, Waiting
  <2>2. CASE n = m
    <3>1. mail'[m] = [mail[m] EXCEPT !.hidden = TRUE, !.receipt = w]
      BY <1>0, <2>1, <2>2
    <3>2. \A r \in Mail : LET n1 == [r EXCEPT !.hidden = TRUE, !.receipt = w] IN
             n1 \in Mail /\ n1.job = r.job /\ n1.generation = r.generation
             /\ n1.action = r.action /\ n1.receipt = w
      BY DEF Mail
    <3>3. /\ mail'[m] \in Mail
          /\ mail'[m].job = mail[m].job
          /\ mail'[m].generation = mail[m].generation
          /\ mail'[m].action = mail[m].action
          /\ mail'[m].receipt = w
      BY <2>1, <2>2, <3>1, <3>2
    <3> QED BY <1>2, <2>2, <3>3 DEF SameMail
  <2>3. CASE n # m
    BY <1>0, <2>1, <2>3
  <2> QED BY <2>2, <2>3
<1>5. ASSUME NEW n \in Messages, mail[n] # NoMail,
             \/ mail' = [mail EXCEPT ![n].hidden = TRUE]
             \/ mail' = [mail EXCEPT ![n].hidden = FALSE]
      PROVE  \/ mail[m] # NoMail /\ SameMail(m) /\ mail'[m].receipt = mail[m].receipt
             \/ mail'[m] = mail[m]
  <2>1. CASE n = m
    <3>1. mail[m] \in Mail
      BY <1>0, <1>5, <2>1
    <3>2. mail'[m] = [mail[m] EXCEPT !.hidden = TRUE] \/ mail'[m] = [mail[m] EXCEPT !.hidden = FALSE]
      BY <1>0, <1>5, <2>1
    <3>3. /\ mail'[m] \in Mail
          /\ mail'[m].job = mail[m].job
          /\ mail'[m].generation = mail[m].generation
          /\ mail'[m].action = mail[m].action
          /\ mail'[m].receipt = mail[m].receipt
      <4>1. CASE mail'[m] = [mail[m] EXCEPT !.hidden = TRUE]
        BY <1>1, <1>3, <1>5, <2>1, <3>1, <4>1
      <4>2. CASE mail'[m] = [mail[m] EXCEPT !.hidden = FALSE]
        BY <1>1, <1>3, <1>5, <2>1, <3>1, <4>2
      <4> QED BY <3>2, <4>1, <4>2
    <3> QED BY <1>2, <1>5, <2>1, <3>3 DEF SameMail
  <2>2. CASE n # m
    BY <1>0, <1>5, <2>2
  <2> QED BY <2>1, <2>2
<1>6. ASSUME NEW w \in Workers, WorkerStep(w), ~\E n \in Messages : Receive(w, n)
      PROVE  \/ mail'[m] = mail[m]
             \/ mail[m] # NoMail /\ SameMail(m) /\ mail'[m].receipt = mail[m].receipt
             \/ Ack(w) /\ Holds(w) /\ task[w].msg = m /\ mail'[m] = NoMail
  <2>1. CASE Extend(w)
    <3>1. task[w].msg \in Messages
      BY <2>1 DEF Extend, Working, Typed, Pointers
    <3>2. mail' = mail \/ (mail[task[w].msg] # NoMail /\ mail' = [mail EXCEPT ![task[w].msg].hidden = TRUE])
      BY <2>1 DEF Extend, Holds
    <3> QED BY <1>5, <3>1, <3>2
  <2>2. CASE Ack(w)
    <3>1. task[w].msg \in Messages
      BY <2>2 DEF Ack, Working, Typed, Pointers
    <3>2. mail' = mail \/ (Holds(w) /\ mail' = [mail EXCEPT ![task[w].msg] = NoMail])
      BY <2>2 DEF Ack
    <3> QED BY <1>0, <2>2, <3>1, <3>2
  <2>3. CASE ~(Extend(w) \/ Ack(w))
    <3>1. mail' = mail
      BY <1>6, <2>3 DEF WorkerStep, Start, ReceiveNothing, ClaimUnwanted, ClaimTaken, ClaimSpent,
         Claim, Check, Renew, Prolong, StoreCheckpoint, StoreResults, Complete, ConversionFails,
         ReportFailure, Purge, Release, Abandon, Die
    <3> QED BY <3>1
  <2> QED BY <2>1, <2>2, <2>3
<1>7. ASSUME NEW c \in Callers, CallStep(c)
      PROVE  \/ mail'[m] = mail[m]
             \/ Send(c) /\ NewMail(m, c, "convert")
             \/ Tell(c) /\ NewMail(m, c, "delete")
  <2>1. CASE Send(c)
    BY <1>0, <2>1 DEF Send, Posts, NewMail
  <2>2. CASE Tell(c)
    BY <1>0, <2>2 DEF Tell, Posts, NewMail
  <2>3. CASE ~(Send(c) \/ Tell(c))
    <3>1. mail' = mail
      BY <1>7, <2>3 DEF CallStep, Create, CompleteUpload, Retry, Repair, Delete, Place, Dispatch,
         Mark, CallFails
    <3> QED BY <3>1
  <2> QED BY <2>1, <2>2, <2>3
<1>8. CASE TimeStep
  <2>1. ASSUME NEW n \in Messages, Reappear(n)
        PROVE  \/ mail[m] # NoMail /\ SameMail(m) /\ mail'[m].receipt = mail[m].receipt
               \/ mail'[m] = mail[m]
    <3>1. mail[n] # NoMail /\ mail' = [mail EXCEPT ![n].hidden = FALSE]
      BY <2>1 DEF Reappear
    <3> QED BY <1>5, <3>1
  <2>2. CASE SlotLapse \/ \E j \in Jobs : Expire(j) \/ LeaseLapse(j)
    <3>1. mail' = mail
      BY <2>2 DEF SlotLapse, Expire, LeaseLapse
    <3> QED BY <3>1
  <2> QED BY <1>8, <2>1, <2>2 DEF TimeStep
<1>9. CASE UNCHANGED vars
  <2>1. mail' = mail
    BY <1>9 DEF vars
  <2> QED BY <2>1
<1> QED
  <2>1. ASSUME NEW w \in Workers, WorkerStep(w)
        PROVE  \/ mail'[m] = mail[m]
               \/ mail[m] # NoMail /\ SameMail(m) /\ mail'[m].receipt = mail[m].receipt
               \/ Receive(w, m) /\ SameMail(m) /\ mail'[m].receipt = w
               \/ Ack(w) /\ Holds(w) /\ task[w].msg = m /\ mail'[m] = NoMail
    <3>1. CASE \E n \in Messages : Receive(w, n)
      BY <1>4, <2>1, <3>1
    <3>2. CASE ~\E n \in Messages : Receive(w, n)
      BY <1>6, <2>1, <3>2
    <3> QED BY <3>1, <3>2
  <2> QED BY <1>7, <1>8, <1>9, <2>1 DEF Next

\* A message handed over: its content becomes the worker's task.
Handed(w, m) ==
    /\ mail[m] # NoMail
    /\ task'[w].msg = m
    /\ task'[w].job = mail[m].job
    /\ task'[w].generation = mail[m].generation
    /\ mail[m].action = "delete" => pc'[w] = "purge"
    /\ mail[m].action # "delete" => pc'[w] = "claim"

SameTask(w) ==
    /\ pc[w] \in Working
    /\ task'[w].msg = task[w].msg
    /\ task'[w].job = task[w].job
    /\ task'[w].generation = task[w].generation
    /\ pc'[w] = "claim" => pc[w] = "claim"
    /\ pc'[w] = "purge" => pc[w] = "purge" \/ ~Visible(task[w].job)
    /\ pc'[w] = "ack" => \/ pc[w] \in {"ack", "purge"}
                         \/ ~Asked(task[w].job, task[w].generation)'

\* A worker at work received its task just now or has it still; it goes on to
\* acknowledge only what is settled.
TaskStep ==
    \A w \in Workers : pc'[w] \in Working =>
        \/ \E m \in Messages : Receive(w, m) /\ Handed(w, m)
        \/ SameTask(w)

\* Every step changes the tasks in one of these ways.
LEMMA TaskSteps == Typed /\ [Next]_vars => TaskStep
<1> SUFFICES ASSUME Typed, [Next]_vars, NEW w \in Workers, pc'[w] \in Working
             PROVE  \/ \E m \in Messages : Receive(w, m) /\ Handed(w, m)
                    \/ SameTask(w)
  BY DEF TaskStep
<1>0. pc \in [Workers -> Places] /\ task \in [Workers -> Task]
  BY DEF Typed, TypeOK
<1>1. ASSUME pc'[w] = pc[w], task'[w] = task[w] PROVE SameTask(w)
  BY <1>1 DEF SameTask, Working
<1>2. ASSUME NEW v \in Workers, WorkerStep(v), v # w PROVE SameTask(w)
  <2>1. pc'[w] = pc[w] /\ task'[w] = task[w]
    BY <1>0, <1>2 DEF WorkerStep, Start, Receive, ReceiveNothing, ClaimUnwanted, ClaimTaken,
       ClaimSpent, Claim, Check, Renew, Extend, Prolong, StoreCheckpoint, StoreResults, Complete,
       ConversionFails, ReportFailure, Purge, Ack, Release, Abandon, Die, Refused, Moves, workers
  <2> QED BY <1>1, <2>1
<1>3. ASSUME NEW m \in Messages, Receive(w, m) PROVE Handed(w, m)
  BY <1>0, <1>3 DEF Receive, Waiting, Handed, Destination, Moves
<1>4. CASE ClaimUnwanted(w)
  BY <1>0, <1>4 DEF ClaimUnwanted, Wanted, SameTask, Asked, Visible, Moves, Working, catalogue
<1>5. CASE ClaimSpent(w)
  <2>1. task[w].job \in Jobs /\ pc[w] = "claim"
    BY <1>5 DEF ClaimSpent, Typed, Pointers, Working
  <2>2. row'[task[w].job].status = "failed"
    BY <1>5, <2>1, WorkerRows DEF StatusBecomes, RowBecomes
  <2>3. pc'[w] = "ack" /\ task'[w] = task[w]
    BY <1>0, <1>5 DEF ClaimSpent, Moves
  <2> QED BY <2>1, <2>2, <2>3 DEF SameTask, Asked, Claimable, Working
<1>6. CASE Claim(w)
  <2>1. pc'[w] = "convert" /\ pc[w] = "claim"
    BY <1>0, <1>6 DEF Claim, Moves
  <2>2. task' = [task EXCEPT ![w].run = NextRun(task[w].job)]
    BY <1>6 DEF Claim
  <2>3. task'[w].msg = task[w].msg /\ task'[w].job = task[w].job /\ task'[w].generation = task[w].generation
    BY <1>0, <2>2 DEF Task
  <2> QED BY <2>1, <2>3 DEF SameTask, Working
<1>7. CASE Check(w) \/ Renew(w) \/ Extend(w) \/ Prolong(w) \/ StoreCheckpoint(w) \/ StoreResults(w)
           \/ ConversionFails(w)
  BY <1>0, <1>7 DEF Check, Renew, Extend, Prolong, StoreCheckpoint, StoreResults, ConversionFails,
     Refused, Moves, SameTask, Working, workers
<1>8. CASE Complete(w)
  <2>1. pc[w] = "complete" /\ task'[w] = task[w] /\ task[w].job \in Jobs
    BY <1>8 DEF Complete, Typed, Pointers, Working
  <2>2. pc'[w] = "ack" => StatusBecomes(task[w].job, "completed")
    <3>1. CASE Refused(w) /\ UNCHANGED row
      BY <1>0, <3>1, <2>1 DEF Refused, Moves
    <3>2. CASE ~(Refused(w) /\ UNCHANGED row)
      <4>1. row' = [row EXCEPT ![task[w].job].status = "completed", ![task[w].job].leased = FALSE]
        BY <1>8, <3>2 DEF Complete
      <4> QED BY <2>1, <4>1 DEF StatusBecomes, RowBecomes, Typed, TypeOK, Row
    <3> QED BY <3>1, <3>2
  <2>3. pc'[w] = "purge" => ~Visible(task[w].job)
    BY <1>0, <1>8 DEF Complete, Refused, Moves
  <2>4. pc'[w] # "claim"
    BY <1>0, <1>8 DEF Complete, Refused, Moves
  <2> QED BY <2>1, <2>2, <2>3, <2>4 DEF SameTask, Asked, Claimable, Working, StatusBecomes, RowBecomes
<1>9. CASE ReportFailure(w)
  <2>1. pc[w] = "fail" /\ task'[w] = task[w] /\ task[w].job \in Jobs
    BY <1>9 DEF ReportFailure, Typed, Pointers, Working
  <2>2. pc'[w] = "ack" /\ row' = [row EXCEPT ![task[w].job].status = "failed", ![task[w].job].leased = FALSE]
    BY <1>0, <1>9 DEF ReportFailure, Moves, Working
  <2>3. row'[task[w].job].status = "failed"
    BY <2>1, <2>2 DEF Typed, TypeOK, Row
  <2> QED BY <2>1, <2>2, <2>3 DEF SameTask, Asked, Claimable, Working
<1>10. CASE Purge(w)
  BY <1>0, <1>10 DEF Purge, SameTask, Moves, Working
<1>11. CASE Start(w) \/ ReceiveNothing(w) \/ ClaimTaken(w) \/ Ack(w) \/ Release(w) \/ Abandon(w) \/ Die(w)
  BY <1>0, <1>11 DEF Start, ReceiveNothing, ClaimTaken, Ack, Release, Abandon, Die, Moves, Working
<1>12. CASE UNCHANGED <<pc, task>>
  BY <1>1, <1>12
<1>13. ASSUME NEW c \in Callers, CallStep(c) PROVE UNCHANGED <<pc, task>>
  BY <1>13 DEF CallStep, Create, CompleteUpload, Retry, Repair, Delete, Place, Dispatch, Send, Mark,
     Tell, CallFails, workers
<1>14. CASE TimeStep
  <2>1. UNCHANGED <<pc, task>>
    BY <1>14 DEF TimeStep, Expire, LeaseLapse, Reappear, SlotLapse, workers
  <2> QED BY <1>12, <2>1
<1>15. CASE UNCHANGED vars
  BY <1>12, <1>15 DEF vars
<1>16. ASSUME NEW v \in Workers, WorkerStep(v)
       PROVE  \/ \E m \in Messages : Receive(w, m) /\ Handed(w, m)
              \/ SameTask(w)
  <2>1. CASE v # w
    BY <1>2, <1>16, <2>1
  <2>2. CASE v = w
    BY <1>3, <1>4, <1>5, <1>6, <1>7, <1>8, <1>9, <1>10, <1>11, <1>16, <2>2 DEF WorkerStep
  <2> QED BY <2>1, <2>2
<1> QED BY <1>12, <1>13, <1>14, <1>15, <1>16 DEF Next

\* A request that will send, mark or tell has read the row just before, has sent
\* just now, has deleted the row just now, or is where it was.
CallMove(c) ==
    \/ call'[c] = call[c]
    \/ /\ call'[c].at = "send"
       /\ call[c].at = "dispatch"
       /\ call'[c].job = call[c].job
       /\ row[call[c].job].status = "dispatching"
       /\ call'[c].generation = row[call[c].job].generation
    \/ /\ call'[c].at = "mark"
       /\ call[c].at = "send"
       /\ call'[c].job = call[c].job
       /\ call'[c].generation = call[c].generation
       /\ \E m \in Messages : mail'[m] # NoMail /\ mail'[m].job = call[c].job
             /\ mail'[m].generation = call[c].generation /\ mail'[m].action = "convert"
    \/ /\ call'[c].at = "tell"
       /\ \E j \in Jobs : /\ call'[c].job = j
                         /\ call'[c].generation = row[j].generation
                         /\ row'[j].status = "deleted"
                         /\ ~Visible(j)'

Pending == {"send", "mark", "tell"}

\* Every step moves requests in one of these ways.
LEMMA CallSteps == Typed /\ [Next]_vars => \A c \in Callers : call'[c].at \in Pending => CallMove(c)
<1> SUFFICES ASSUME Typed, [Next]_vars, NEW c \in Callers, call'[c].at \in Pending
             PROVE  CallMove(c)
  OBVIOUS
<1>0. call \in [Callers -> Call]
  BY DEF Typed, TypeOK
<1>1. CASE call'[c] = call[c]
  BY <1>1 DEF CallMove
<1>2. ASSUME NEW d \in Callers, CallStep(d), d # c PROVE call'[c] = call[c]
  BY <1>0, <1>2 DEF CallStep, Create, CompleteUpload, Retry, Repair, Delete, Place, Dispatch, Send,
     Mark, Tell, CallFails, Serves, Returns, Goes
<1>3. CASE Dispatch(c)
  BY <1>0, <1>3 DEF Dispatch, Serves, Returns, Resting, Pending, CallMove
<1>4. CASE Send(c)
  <2>1. call' = [call EXCEPT ![c].at = "mark"] /\ call[c].at = "send"
    BY <1>4 DEF Send, Goes
  <2>2. call'[c].at = "mark" /\ call'[c].job = call[c].job /\ call'[c].generation = call[c].generation
    BY <1>0, <2>1 DEF Call
  <2>3. call[c].job \in Jobs /\ call[c].generation \in Nat
    BY <1>0, <2>1 DEF Typed, Pointers, Call
  <2>4. PICK m \in Messages : mail' = [mail EXCEPT ![m] = [job |-> call[c].job,
                   generation |-> call[c].generation, action |-> "convert", hidden |-> FALSE, receipt |-> None]]
    BY <1>4 DEF Send, Posts
  <2>5. mail'[m] = [job |-> call[c].job, generation |-> call[c].generation,
                    action |-> "convert", hidden |-> FALSE, receipt |-> None]
    BY <2>4 DEF Typed, TypeOK
  <2>6. mail'[m] # NoMail
    BY <2>3, <2>5, MailPosted
  <2> QED BY <2>1, <2>2, <2>5, <2>6 DEF CallMove
<1>5. ASSUME NEW j \in Jobs, Delete(c, j) PROVE CallMove(c)
  <2>1. call'[c] = [at |-> "tell", job |-> j, generation |-> row[j].generation]
    BY <1>0, <1>5 DEF Delete, Serves
  <2>2. RowBecomes(j, "deleted", TRUE, row[j].generation, row[j].attempts, row[j].run)
    BY <1>5, CallRows
  <2>3. row'[j].status = "deleted" /\ row'[j].expired
    BY <2>2 DEF RowBecomes
  <2>4. ~Visible(j)'
    BY <2>3 DEF Visible
  <2>5. call'[c].at = "tell" /\ call'[c].job = j /\ call'[c].generation = row[j].generation
    BY <2>1
  <2> QED BY <2>3, <2>4, <2>5 DEF CallMove
<1>6. CASE \/ \E j \in Jobs : Create(c, j) \/ CompleteUpload(c, j) \/ Retry(c, j) \/ Repair(c, j)
           \/ Place(c) \/ Mark(c) \/ Tell(c) \/ CallFails(c)
  <2>1. call'[c].at \in {"place", "dispatch", "idle"}
    <3>1. ASSUME NEW j \in Jobs, Create(c, j) PROVE call'[c].at = "place"
      BY <1>0, <3>1 DEF Create, Serves
    <3>2. ASSUME NEW j \in Jobs, CompleteUpload(c, j) PROVE call'[c].at = "dispatch"
      BY <1>0, <3>2 DEF CompleteUpload, Serves
    <3>3. ASSUME NEW j \in Jobs, Retry(c, j) PROVE call'[c].at = "dispatch"
      BY <1>0, <3>3 DEF Retry, Serves
    <3>4. ASSUME NEW j \in Jobs, Repair(c, j) PROVE call'[c].at = "dispatch"
      BY <1>0, <3>4 DEF Repair, Serves
    <3>5. ASSUME Place(c) \/ Mark(c) \/ Tell(c) \/ CallFails(c) PROVE call'[c].at = "idle"
      <4>1. call' = [call EXCEPT ![c] = Resting]
        BY <3>5 DEF Place, Mark, Tell, CallFails, Returns
      <4> QED BY <1>0, <4>1 DEF Resting
    <3> QED BY <1>6, <3>1, <3>2, <3>3, <3>4, <3>5
  <2> QED BY <2>1 DEF Pending
<1>7. ASSUME NEW d \in Callers, CallStep(d) PROVE CallMove(c)
  <2>1. CASE d # c
    BY <1>1, <1>2, <1>7, <2>1
  <2>2. CASE d = c
    BY <1>3, <1>4, <1>5, <1>6, <1>7, <2>2 DEF CallStep
  <2> QED BY <2>1, <2>2
<1>8. ASSUME NEW w \in Workers, WorkerStep(w) PROVE call' = call
  BY <1>8 DEF WorkerStep, Start, Receive, ReceiveNothing, ClaimUnwanted, ClaimTaken,
     ClaimSpent, Claim, Check, Renew, Extend, Prolong, StoreCheckpoint, StoreResults, Complete,
     ConversionFails, ReportFailure, Purge, Ack, Release, Abandon, Die
<1>9. CASE TimeStep
  <2>1. call' = call
    BY <1>9 DEF TimeStep, Expire, LeaseLapse, Reappear, SlotLapse
  <2> QED BY <1>1, <2>1
<1>10. CASE UNCHANGED vars
  BY <1>1, <1>10 DEF vars
<1> QED BY <1>1, <1>7, <1>8, <1>9, <1>10 DEF Next
(***************************************************************************)
(* The invariant.  Messages, requests and tasks are about jobs whose upload *)
(* is complete and generations that the row has reached; what a delete     *)
(* message or a purge is about is out of sight.                            *)
(***************************************************************************)
About(j, g) == Begun(j) /\ g <= row[j].generation

Posted ==
    \A m \in Messages : mail[m] # NoMail =>
        /\ About(mail[m].job, mail[m].generation)
        /\ mail[m].action = "delete" => ~Visible(mail[m].job)

Called ==
    \A c \in Callers : call[c].at \in Pending =>
        /\ About(call[c].job, call[c].generation)
        /\ call[c].at = "tell" => ~Visible(call[c].job)

\* The message a worker holds is the one that it was given.
Tasked ==
    \A w \in Workers : pc[w] \in Working =>
        /\ About(task[w].job, task[w].generation)
        /\ Holds(w) => /\ mail[task[w].msg].job = task[w].job
                       /\ mail[task[w].msg].generation = task[w].generation
        /\ pc[w] = "purge" => ~Visible(task[w].job)

\* What is about to be acknowledged is settled.
Settled == \A w \in Workers : pc[w] = "ack" => ~Asked(task[w].job, task[w].generation)

\* A message asks for the job in that generation.
Kept(j, g) ==
    \E m \in Messages : /\ mail[m] # NoMail
                        /\ mail[m].job = j
                        /\ mail[m].generation = g
                        /\ mail[m].action = "convert"

\* Whoever will make a job "queued" or "processing" can rely on a message.
Announced ==
    /\ \A j \in Jobs : Visible(j) /\ row[j].status \in {"queued", "processing"} =>
          Kept(j, row[j].generation)
    /\ \A c \in Callers : call[c].at = "mark" /\ Asked(call[c].job, call[c].generation) =>
          Kept(call[c].job, call[c].generation)
    /\ \A w \in Workers : pc[w] = "claim" /\ Asked(task[w].job, task[w].generation) =>
          Kept(task[w].job, task[w].generation)

IInv == Typed /\ Posted /\ Called /\ Tasked /\ Settled /\ Announced

\* Initially there is nothing.
LEMMA IInvInit == Init => IInv
<1> SUFFICES ASSUME Init PROVE IInv
  OBVIOUS
<1>1. Typed
  BY TypedInit
<1>2. Posted /\ Called /\ Tasked /\ Settled
  BY DEF Init, Posted, Called, Tasked, Settled, Resting, Pending, Working
<1>3. Announced
  BY DEF Init, Announced, NoRow, Visible, Resting
<1> QED BY <1>1, <1>2, <1>3 DEF IInv

\* A job and a generation that the row has reached stay so, and settled if they are.
LEMMA AboutStays ==
    ASSUME Typed, Typed', Grow, NEW j \in Jobs, NEW g \in Nat, About(j, g)
    PROVE  /\ About(j, g)'
           /\ ~Visible(j) => ~Visible(j)'
           /\ Asked(j, g)' => Asked(j, g)
<1>1. row[j].generation \in Nat /\ row'[j].generation \in Nat
  BY DEF Typed, TypeOK, Row
<1>2. row[j].generation <= row'[j].generation /\ Begun(j)'
  BY DEF Grow, About
<1>3. About(j, g)'
  BY <1>1, <1>2 DEF About
<1>4. ~Visible(j) => ~Visible(j)'
  BY DEF Grow, About
<1>5. ~Asked(j, g) => ~Asked(j, g)'
  BY DEF Grow, About
<1> QED BY <1>3, <1>4, <1>5

\* What a request under way and a worker at work point to.
LEMMA PointersTyped ==
    ASSUME Typed
    PROVE  /\ \A c \in Callers : call[c].at \in Pending => call[c].job \in Jobs /\ call[c].generation \in Nat
           /\ \A w \in Workers : pc[w] \in Working =>
                 task[w].job \in Jobs /\ task[w].msg \in Messages /\ task[w].generation \in Nat
BY DEF Typed, TypeOK, Pointers, Pending, Call, Task

\* Messages stay about what they were about.
LEMMA PostedStep == IInv /\ Typed' /\ [Next]_vars => Posted'
<1> SUFFICES ASSUME IInv, Typed', [Next]_vars, NEW m \in Messages, mail'[m] # NoMail
             PROVE  /\ About(mail[m].job, mail[m].generation)'
                    /\ mail'[m].action = "delete" => ~Visible(mail[m].job)'
  BY DEF Posted
<1>0. Typed /\ Posted /\ Called /\ Grow /\ MailStep
  BY RowsGrow, MailSteps DEF IInv
<1>1. CASE mail[m] # NoMail /\ SameMail(m)
  <2>1. mail[m].job \in Jobs /\ mail[m].generation \in Nat
    BY <1>0, <1>1, MailFields DEF Typed, TypeOK
  <2>2. About(mail[m].job, mail[m].generation) /\ (mail[m].action = "delete" => ~Visible(mail[m].job))
    BY <1>0, <1>1 DEF Posted
  <2>3. ASSUME NEW j \in Jobs, NEW g \in Nat, j = mail[m].job, g = mail[m].generation
        PROVE  About(j, g)' /\ (mail[m].action = "delete" => ~Visible(j)')
    BY <1>0, <2>2, <2>3, AboutStays
  <2> QED BY <1>1, <2>1, <2>3 DEF SameMail, About, Begun, Visible
<1>2. ASSUME NEW c \in Callers, NEW a \in {"convert", "delete"}, NewMail(m, c, a),
             call[c].at \in Pending, a = "delete" => call[c].at = "tell"
      PROVE  /\ About(mail[m].job, mail[m].generation)'
             /\ mail'[m].action = "delete" => ~Visible(mail[m].job)'
  <2>1. call[c].job \in Jobs /\ call[c].generation \in Nat
    BY <1>0, <1>2, PointersTyped
  <2>2. About(call[c].job, call[c].generation) /\ (a = "delete" => ~Visible(call[c].job))
    BY <1>0, <1>2 DEF Called
  <2>3. ASSUME NEW j \in Jobs, NEW g \in Nat, j = call[c].job, g = call[c].generation
        PROVE  About(j, g)' /\ (a = "delete" => ~Visible(j)')
    BY <1>0, <2>2, <2>3, AboutStays
  <2>4. mail'[m].job = call[c].job /\ mail'[m].generation = call[c].generation /\ mail'[m].action = a
    BY <1>2 DEF NewMail
  <2> QED BY <2>1, <2>3, <2>4 DEF About, Begun, Visible
<1>3. CASE mail'[m] = mail[m]
  BY <1>1, <1>3 DEF SameMail
<1>4. ASSUME NEW c \in Callers, Send(c) /\ NewMail(m, c, "convert")
      PROVE  call[c].at \in Pending
  BY <1>4 DEF Send, Pending
<1>5. ASSUME NEW c \in Callers, Tell(c) /\ NewMail(m, c, "delete")
      PROVE  call[c].at = "tell"
  BY <1>5 DEF Tell
<1>6. ASSUME NEW w \in Workers, Receive(w, m) PROVE mail[m] # NoMail
  BY <1>6 DEF Receive, Waiting
<1>7. \/ mail'[m] = mail[m]
      \/ mail[m] # NoMail /\ SameMail(m)
      \/ \E c \in Callers : Send(c) /\ NewMail(m, c, "convert")
      \/ \E c \in Callers : Tell(c) /\ NewMail(m, c, "delete")
  BY <1>0, <1>6 DEF MailStep
<1> QED BY <1>1, <1>2, <1>3, <1>4, <1>5, <1>7 DEF Pending

\* Requests stay about what they were about.
LEMMA CalledStep == IInv /\ Typed' /\ [Next]_vars => Called'
<1> SUFFICES ASSUME IInv, Typed', [Next]_vars, NEW c \in Callers, call'[c].at \in Pending
             PROVE  /\ About(call[c].job, call[c].generation)'
                    /\ call'[c].at = "tell" => ~Visible(call[c].job)'
  BY DEF Called
<1>0. Typed /\ Called /\ Grow /\ CallMove(c)
  BY RowsGrow, CallSteps DEF IInv
<1>1. ASSUME NEW j \in Jobs, NEW g \in Nat, About(j, g), call'[c].job = j, call'[c].generation = g,
             call'[c].at = "tell" => ~Visible(j) \/ ~Visible(j)'
      PROVE  /\ About(call[c].job, call[c].generation)'
             /\ call'[c].at = "tell" => ~Visible(call[c].job)'
  <2>1. About(j, g)' /\ (~Visible(j) => ~Visible(j)')
    BY <1>0, <1>1, AboutStays
  <2> QED BY <1>1, <2>1 DEF About, Begun, Visible
<1>2. CASE call'[c] = call[c]
  <2>1. call[c].job \in Jobs /\ call[c].generation \in Nat
    BY <1>0, <1>2, PointersTyped
  <2>2. About(call[c].job, call[c].generation) /\ (call[c].at = "tell" => ~Visible(call[c].job))
    BY <1>0, <1>2 DEF Called
  <2> QED BY <1>1, <1>2, <2>1, <2>2
<1>3. CASE /\ call'[c].at = "send"
           /\ call[c].at = "dispatch"
           /\ call'[c].job = call[c].job
           /\ row[call[c].job].status = "dispatching"
           /\ call'[c].generation = row[call[c].job].generation
  <2>1. call[c].job \in Jobs
    BY <1>0, <1>3 DEF Typed, Pointers
  <2>2. row[call[c].job].generation \in Nat
    BY <1>0, <2>1 DEF Typed, TypeOK, Row
  <2>3. About(call[c].job, row[call[c].job].generation)
    BY <1>3, <2>2 DEF About, Begun
  <2> QED BY <1>1, <1>3, <2>1, <2>2, <2>3
<1>4. CASE /\ call'[c].at = "mark"
           /\ call[c].at = "send"
           /\ call'[c].job = call[c].job
           /\ call'[c].generation = call[c].generation
  <2>1. call[c].job \in Jobs /\ call[c].generation \in Nat
    BY <1>0, <1>4, PointersTyped DEF Pending
  <2>2. About(call[c].job, call[c].generation)
    BY <1>0, <1>4 DEF Called, Pending
  <2> QED BY <1>1, <1>4, <2>1, <2>2
<1>5. ASSUME NEW j \in Jobs, call'[c].job = j, call'[c].generation = row[j].generation,
             row'[j].status = "deleted", ~Visible(j)'
      PROVE  /\ About(call[c].job, call[c].generation)'
             /\ call'[c].at = "tell" => ~Visible(call[c].job)'
  <2>1. row[j].generation \in Nat /\ row'[j].generation \in Nat /\ row[j].generation <= row'[j].generation
    BY <1>0 DEF Typed, TypeOK, Row, Grow
  <2> QED BY <1>5, <2>1 DEF About, Begun, Visible
<1> QED BY <1>0, <1>2, <1>3, <1>4, <1>5 DEF CallMove

\* Tasks stay about what they were about, and with the message they came with.
LEMMA TaskedStep == IInv /\ Typed' /\ [Next]_vars => Tasked'
<1> SUFFICES ASSUME IInv, Typed', [Next]_vars, NEW w \in Workers, pc'[w] \in Working
             PROVE  /\ About(task[w].job, task[w].generation)'
                    /\ Holds(w)' => /\ mail'[task'[w].msg].job = task'[w].job
                                    /\ mail'[task'[w].msg].generation = task'[w].generation
                    /\ pc'[w] = "purge" => ~Visible(task[w].job)'
  BY DEF Tasked
<1>0. Typed /\ Posted /\ Tasked /\ Grow /\ MailStep /\ TaskStep
  BY RowsGrow, MailSteps, TaskSteps DEF IInv
<1>1. ASSUME NEW j \in Jobs, NEW g \in Nat, About(j, g), task'[w].job = j, task'[w].generation = g,
             pc'[w] = "purge" => ~Visible(j)
      PROVE  /\ About(task[w].job, task[w].generation)'
             /\ pc'[w] = "purge" => ~Visible(task[w].job)'
  <2>1. About(j, g)' /\ (~Visible(j) => ~Visible(j)')
    BY <1>0, <1>1, AboutStays
  <2> QED BY <1>1, <2>1 DEF About, Begun, Visible
<1>2. ASSUME NEW m \in Messages, Receive(w, m), Handed(w, m)
      PROVE  /\ About(task[w].job, task[w].generation)'
             /\ Holds(w)' => /\ mail'[task'[w].msg].job = task'[w].job
                             /\ mail'[task'[w].msg].generation = task'[w].generation
             /\ pc'[w] = "purge" => ~Visible(task[w].job)'
  <2>1. mail[m].job \in Jobs /\ mail[m].generation \in Nat
    BY <1>0, <1>2, MailFields DEF Typed, TypeOK, Handed
  <2>2. About(mail[m].job, mail[m].generation) /\ (mail[m].action = "delete" => ~Visible(mail[m].job))
    BY <1>0, <1>2 DEF Posted, Handed
  <2>3. pc'[w] = "purge" => mail[m].action = "delete"
    BY <1>2 DEF Handed
  <2>4. mail' = [mail EXCEPT ![m].hidden = TRUE, ![m].receipt = w]
    BY <1>2 DEF Receive
  <2>5. mail'[m].job = mail[m].job /\ mail'[m].generation = mail[m].generation
    <3>1. mail[m] \in Mail
      BY <1>0, <1>2 DEF Typed, TypeOK, Handed
    <3> QED BY <1>0, <2>4, <3>1 DEF Typed, TypeOK, Mail
  <2> QED BY <1>1, <1>2, <2>1, <2>2, <2>3, <2>5 DEF Handed
<1>3. CASE SameTask(w)
  <2>1. task[w].job \in Jobs /\ task[w].msg \in Messages /\ task[w].generation \in Nat
    BY <1>0, <1>3, PointersTyped DEF SameTask
  <2>2. About(task[w].job, task[w].generation) /\ (pc[w] = "purge" => ~Visible(task[w].job))
    BY <1>0, <1>3 DEF Tasked, SameTask
  <2>3. /\ About(task[w].job, task[w].generation)'
        /\ pc'[w] = "purge" => ~Visible(task[w].job)'
    BY <1>1, <1>3, <2>1, <2>2 DEF SameTask
  <2>4. ASSUME NEW m \in Messages, m = task[w].msg, mail'[m] # NoMail, mail'[m].receipt = w
        PROVE  mail'[m].job = task[w].job /\ mail'[m].generation = task[w].generation
    <3>1. ASSUME mail[m] # NoMail, mail[m].receipt = w
          PROVE  mail[m].job = task[w].job /\ mail[m].generation = task[w].generation
      BY <1>0, <1>3, <2>4, <3>1 DEF Tasked, SameTask, Holds
    <3>2. ASSUME NEW v \in Workers, Receive(v, m), mail'[m].receipt = v PROVE FALSE
      BY <1>3, <2>4, <3>2 DEF Receive, SameTask, Working
    <3>3. ASSUME NEW c \in Callers, NEW a \in {"convert", "delete"}, NewMail(m, c, a) PROVE FALSE
      BY <2>4, <3>3, NoneAssumption DEF NewMail
    <3> QED BY <1>0, <2>4, <3>1, <3>2, <3>3 DEF MailStep, SameMail
  <2>5. task'[w].msg = task[w].msg /\ task'[w].job = task[w].job /\ task'[w].generation = task[w].generation
    BY <1>3 DEF SameTask
  <2> QED BY <2>1, <2>3, <2>4, <2>5 DEF Holds
<1> QED BY <1>0, <1>2, <1>3 DEF TaskStep

\* What is acknowledged stays settled.
LEMMA SettledStep == IInv /\ Typed' /\ [Next]_vars => Settled'
<1> SUFFICES ASSUME IInv, Typed', [Next]_vars, NEW w \in Workers, pc'[w] = "ack"
             PROVE  ~Asked(task[w].job, task[w].generation)'
  BY DEF Settled
<1>0. Typed /\ Tasked /\ Settled /\ Grow /\ TaskStep
  BY RowsGrow, TaskSteps DEF IInv
<1>1. SameTask(w)
  BY <1>0 DEF TaskStep, Handed, Working
<1>2. task[w].job \in Jobs /\ task[w].generation \in Nat
  BY <1>0, <1>1, PointersTyped DEF SameTask
<1>3. About(task[w].job, task[w].generation) /\ (pc[w] = "purge" => ~Visible(task[w].job))
  BY <1>0, <1>1 DEF Tasked, SameTask
<1>4. ASSUME NEW j \in Jobs, NEW g \in Nat, j = task[w].job, g = task[w].generation
      PROVE  ~Asked(j, g)'
  <2>1. CASE pc[w] \in {"ack", "purge"}
    <3>1. ~Asked(j, g)
      BY <1>0, <1>3, <1>4, <2>1 DEF Settled, Asked
    <3> QED BY <1>0, <1>3, <1>4, <3>1, AboutStays
  <2>2. CASE ~Asked(task[w].job, task[w].generation)'
    BY <1>1, <1>4, <2>2 DEF SameTask, Asked, Visible
  <2> QED BY <1>1, <2>1, <2>2 DEF SameTask
<1> QED BY <1>1, <1>2, <1>4 DEF SameTask, Asked, Visible

\* A message is removed only when what it asks for is settled for good.
LEMMA KeptStays ==
    ASSUME IInv, Typed', [Next]_vars, NEW j \in Jobs, NEW g \in Nat, Kept(j, g), Asked(j, g)'
    PROVE  Kept(j, g)'
<1>0. Typed /\ Posted /\ Tasked /\ Settled /\ Grow /\ MailStep
  BY RowsGrow, MailSteps DEF IInv
<1>1. PICK m \in Messages : /\ mail[m] # NoMail
                            /\ mail[m].job = j
                            /\ mail[m].generation = g
                            /\ mail[m].action = "convert"
  BY DEF Kept
<1>2. About(j, g)
  BY <1>0, <1>1 DEF Posted
<1>3. Asked(j, g)
  BY <1>0, <1>2, AboutStays
<1>4. ASSUME NEW w \in Workers, Ack(w), Holds(w), task[w].msg = m PROVE FALSE
  <2>1. pc[w] = "ack"
    BY <1>4 DEF Ack
  <2>2. task[w].job = j /\ task[w].generation = g
    BY <1>0, <1>1, <1>4, <2>1 DEF Tasked, Working
  <2> QED BY <1>0, <1>3, <2>1, <2>2 DEF Settled
<1>5. mail'[m] = mail[m] \/ SameMail(m)
  BY <1>0, <1>1, <1>4 DEF MailStep, NewMail
<1> QED BY <1>1, <1>5 DEF Kept, SameMail
\* Only a claim and a mark make a job "processing" and "queued".
LEMMA QueuedFrom ==
    ASSUME Typed, [Next]_vars, NEW j \in Jobs,
           row'[j].status \in {"queued", "processing"}, Visible(j)'
    PROVE  \/ /\ Visible(j)
              /\ row[j].status \in {"queued", "processing"}
              /\ row'[j].generation = row[j].generation
           \/ /\ row'[j].generation = row[j].generation
              /\ \E c \in Callers : call[c].at = "mark" /\ call[c].job = j
                                    /\ Asked(j, call[c].generation)
           \/ /\ row'[j].generation = row[j].generation
              /\ \E w \in Workers : pc[w] = "claim" /\ task[w].job = j
                                    /\ Asked(j, task[w].generation)
<1>1. RowMove(j)
  BY RowSteps
<1>2. ASSUME NEW c \in Callers, Mark(c), StillAsRead(c), call[c].job = j, ~row[j].expired
      PROVE  call[c].at = "mark" /\ Asked(j, call[c].generation)
  BY <1>2 DEF Mark, StillAsRead, Asked, Visible, Claimable
<1>3. ASSUME NEW w \in Workers, Claim(w), task[w].job = j
      PROVE  pc[w] = "claim" /\ Asked(j, task[w].generation)
  BY <1>3 DEF Claim, Wanted, Asked
<1> QED BY <1>1, <1>2, <1>3 DEF RowMove, RowAt, Visible

\* Every step leaves a message for whoever relies on one.
LEMMA AnnouncedStep == IInv /\ Typed' /\ [Next]_vars => Announced'
<1> SUFFICES ASSUME IInv, Typed', [Next]_vars PROVE Announced'
  OBVIOUS
<1>0. Typed /\ Called /\ Posted /\ Tasked /\ Announced /\ Grow
  BY RowsGrow DEF IInv
<1>1. ASSUME NEW j \in Jobs, Visible(j)', row'[j].status \in {"queued", "processing"}
      PROVE  Kept(j, row[j].generation)'
  <2>1. row'[j].generation \in Nat
    BY DEF Typed, TypeOK, Row
  <2>3. ASSUME Kept(j, row[j].generation), row'[j].generation = row[j].generation
        PROVE  Kept(j, row[j].generation)'
    <3>1. row[j].generation \in Nat
      BY <2>1, <2>3
    <3>2. ASSUME NEW g \in Nat, g = row[j].generation PROVE Kept(j, g)'
      BY <1>1, <2>3, <3>2, KeptStays DEF Asked, Visible, Claimable
    <3> QED BY <2>3, <3>1, <3>2 DEF Kept
  <2>4. CASE Visible(j) /\ row[j].status \in {"queued", "processing"}
             /\ row'[j].generation = row[j].generation
    BY <1>0, <2>3, <2>4 DEF Announced
  <2>5. ASSUME NEW c \in Callers, call[c].at = "mark", call[c].job = j, Asked(j, call[c].generation),
               row'[j].generation = row[j].generation
        PROVE  Kept(j, row[j].generation)'
    BY <1>0, <2>3, <2>5 DEF Announced, Asked
  <2>6. ASSUME NEW w \in Workers, pc[w] = "claim", task[w].job = j, Asked(j, task[w].generation),
               row'[j].generation = row[j].generation
        PROVE  Kept(j, row[j].generation)'
    BY <1>0, <2>3, <2>6 DEF Announced, Asked
  <2> QED BY <1>0, <1>1, <2>4, <2>5, <2>6, QueuedFrom
<1>2. ASSUME NEW c \in Callers, call'[c].at = "mark", Asked(call[c].job, call[c].generation)'
      PROVE  Kept(call[c].job, call[c].generation)'
  <2>1. CallMove(c)
    BY <1>0, <1>2, CallSteps DEF Pending
  <2>2. CASE call'[c] = call[c]
    <3>1. call[c].job \in Jobs /\ call[c].generation \in Nat
      BY <1>0, <1>2, <2>2, PointersTyped DEF Pending
    <3>2. About(call[c].job, call[c].generation)
      BY <1>0, <1>2, <2>2 DEF Called, Pending
    <3>3. ASSUME NEW j \in Jobs, NEW g \in Nat, j = call[c].job, g = call[c].generation, Asked(j, g)'
          PROVE  Kept(j, g)'
      <4>1. Asked(j, g)
        BY <1>0, <3>2, <3>3, AboutStays
      <4>2. Kept(j, g)
        BY <1>0, <1>2, <2>2, <3>3, <4>1 DEF Announced
      <4> QED BY <3>3, <4>2, KeptStays
    <3> QED BY <1>2, <2>2, <3>1, <3>3 DEF Kept, Asked, Visible
  <2>3. CASE /\ call'[c].job = call[c].job
             /\ call'[c].generation = call[c].generation
             /\ \E m \in Messages : mail'[m] # NoMail /\ mail'[m].job = call[c].job
                   /\ mail'[m].generation = call[c].generation /\ mail'[m].action = "convert"
    BY <2>3 DEF Kept
  <2> QED BY <1>2, <2>1, <2>2, <2>3 DEF CallMove
<1>3. ASSUME NEW w \in Workers, pc'[w] = "claim", Asked(task[w].job, task[w].generation)'
      PROVE  Kept(task[w].job, task[w].generation)'
  <2>1. ASSUME NEW m \in Messages, Handed(w, m) PROVE Kept(task[w].job, task[w].generation)'
    <3>1. mail[m].job \in Jobs /\ mail[m].generation \in Nat /\ mail[m].action = "convert"
      BY <1>0, <1>3, <2>1, MailFields DEF Typed, TypeOK, Handed
    <3>2. ASSUME NEW j \in Jobs, NEW g \in Nat, j = mail[m].job, g = mail[m].generation
          PROVE  Asked(j, g)' => Kept(j, g)'
      <4>1. Kept(j, g)
        BY <2>1, <3>1, <3>2 DEF Kept, Handed
      <4> QED BY <3>2, <4>1, KeptStays
    <3> QED BY <1>3, <2>1, <3>1, <3>2 DEF Handed, Kept, Asked, Visible
  <2>2. CASE SameTask(w)
    <3>1. task[w].job \in Jobs /\ task[w].generation \in Nat /\ pc[w] = "claim"
      BY <1>0, <1>3, <2>2, PointersTyped DEF SameTask
    <3>2. About(task[w].job, task[w].generation)
      BY <1>0, <3>1 DEF Tasked, Working
    <3>3. ASSUME NEW j \in Jobs, NEW g \in Nat, j = task[w].job, g = task[w].generation, Asked(j, g)'
          PROVE  Kept(j, g)'
      <4>1. Asked(j, g)
        BY <1>0, <3>2, <3>3, AboutStays
      <4>2. Kept(j, g)
        BY <1>0, <3>1, <3>3, <4>1 DEF Announced
      <4> QED BY <3>3, <4>2, KeptStays
    <3> QED BY <1>3, <2>2, <3>1, <3>3 DEF SameTask, Kept, Asked, Visible
  <2> QED BY <1>0, <1>3, <2>1, <2>2, TaskSteps DEF TaskStep, Working
<1> QED BY <1>1, <1>2, <1>3 DEF Announced

\* The invariant holds of every behaviour.
LEMMA Invariant == Spec => []IInv
<1>1. Init => IInv
  BY IInvInit
<1>2. IInv /\ [Next]_vars => IInv'
  <2> SUFFICES ASSUME IInv, [Next]_vars PROVE IInv'
    OBVIOUS
  <2>1. Typed'
    BY TypedStep DEF IInv
  <2> QED BY <2>1, PostedStep, CalledStep, TaskedStep, SettledStep, AnnouncedStep DEF IInv
<1> QED BY <1>1, <1>2, PTL DEF Spec

\* The types of CloudJobs, for any number of jobs, requests and executions.
THEOREM TypeCorrect == Spec => []TypeOK
<1>1. IInv => TypeOK
  BY DEF IInv, Typed
<1> QED BY <1>1, Invariant, PTL

\* A queued or interrupted job always has a message that brings it a worker: no
\* deletion, repeated send or crash between CloudStore.dispatch()'s send and its
\* mark loses it.
THEOREM MessageKept == Spec => []DeliveryKept
<1>1. IInv => DeliveryKept
  BY DEF IInv, Announced, DeliveryKept, Kept
<1> QED BY <1>1, Invariant, PTL

\* run_once() deletes only messages that nothing asks for any more.
THEOREM AnsweredOnce == Spec => []AnsweredForGood
<1>1. IInv => AnsweredForGood
  BY DEF IInv, Settled, AnsweredForGood, Wanted, Asked
<1> QED BY <1>1, Invariant, PTL
(***************************************************************************)
(* Ownership.  Every claim draws a number no worker has for that job.      *)
(***************************************************************************)
Runs ==
    /\ \A w \in Workers : pc[w] \in Working => task[w].run <= row[task[w].job].attempts
    /\ \A v, w \in Workers :
          /\ pc[v] \in Working /\ pc[w] \in Working
          /\ task[v].job = task[w].job
          /\ task[v].run = task[w].run
          /\ task[w].run > 0
          => v = w

\* A worker's number is none yet, the one it had, or the one its claim has drawn.
RunMove(w) ==
    \/ task'[w].run = 0
    \/ /\ pc[w] \in Working
       /\ task'[w].job = task[w].job
       /\ \/ task'[w].run = task[w].run
          \/ /\ Claim(w)
             /\ task'[w].run = row[task[w].job].attempts + 1
             /\ row'[task[w].job].attempts = row[task[w].job].attempts + 1

\* Every step moves the numbers in one of these ways.
LEMMA RunSteps == Typed /\ [Next]_vars => \A w \in Workers : pc'[w] \in Working => RunMove(w)
<1> SUFFICES ASSUME Typed, [Next]_vars, NEW w \in Workers, pc'[w] \in Working
             PROVE  RunMove(w)
  OBVIOUS
<1>0. pc \in [Workers -> Places] /\ task \in [Workers -> Task]
  BY DEF Typed, TypeOK
<1>1. CASE pc'[w] = pc[w] /\ task'[w] = task[w]
  BY <1>1 DEF RunMove
<1>2. CASE \E m \in Messages : Receive(w, m)
  BY <1>0, <1>2 DEF Receive, RunMove
<1>3. CASE Claim(w)
  <2>1. pc[w] = "claim" /\ task' = [task EXCEPT ![w].run = NextRun(task[w].job)]
    BY <1>3 DEF Claim
  <2>2. task[w].job \in Jobs
    BY <2>1 DEF Typed, Pointers, Working
  <2>3. task'[w].run = row[task[w].job].attempts + 1 /\ task'[w].job = task[w].job
    BY <1>0, <2>1 DEF NextRun, Task
  <2>4. row'[task[w].job].attempts = row[task[w].job].attempts + 1
    BY <1>3, WorkerRows DEF RowBecomes
  <2> QED BY <1>3, <2>1, <2>3, <2>4 DEF RunMove, Working
<1>4. ASSUME NEW v \in Workers, WorkerStep(v), v # w PROVE RunMove(w)
  <2>1. pc'[w] = pc[w] /\ task'[w] = task[w]
    BY <1>0, <1>4 DEF WorkerStep, Start, Receive, ReceiveNothing, ClaimUnwanted, ClaimTaken,
       ClaimSpent, Claim, Check, Renew, Extend, Prolong, StoreCheckpoint, StoreResults, Complete,
       ConversionFails, ReportFailure, Purge, Ack, Release, Abandon, Die, Refused, Moves, workers
  <2> QED BY <1>1, <2>1
<1>5. CASE \/ ClaimUnwanted(w) \/ ClaimSpent(w) \/ Check(w) \/ Renew(w) \/ Extend(w) \/ Prolong(w)
           \/ StoreCheckpoint(w) \/ StoreResults(w) \/ ConversionFails(w) \/ Complete(w)
           \/ ReportFailure(w) \/ Purge(w)
  <2>1. task' = task
    BY <1>5 DEF ClaimUnwanted, ClaimSpent, Check, Renew, Extend, Prolong, StoreCheckpoint,
       StoreResults, ConversionFails, Complete, ReportFailure, Purge, workers
  <2>2. pc[w] \in Working
    BY <1>5 DEF ClaimUnwanted, ClaimSpent, Check, Renew, Extend, Prolong, StoreCheckpoint,
       StoreResults, ConversionFails, Complete, ReportFailure, Purge, Working
  <2> QED BY <2>1, <2>2 DEF RunMove
<1>6. CASE Start(w) \/ ReceiveNothing(w) \/ ClaimTaken(w) \/ Ack(w) \/ Release(w) \/ Abandon(w) \/ Die(w)
  BY <1>0, <1>6 DEF Start, ReceiveNothing, ClaimTaken, Ack, Release, Abandon, Die, Moves, Working
<1>7. ASSUME NEW c \in Callers, CallStep(c) PROVE RunMove(w)
  <2>1. UNCHANGED <<pc, task>>
    BY <1>7 DEF CallStep, Create, CompleteUpload, Retry, Repair, Delete, Place, Dispatch, Send, Mark,
       Tell, CallFails, workers
  <2> QED BY <1>1, <2>1
<1>8. CASE TimeStep
  <2>1. UNCHANGED <<pc, task>>
    BY <1>8 DEF TimeStep, Expire, LeaseLapse, Reappear, SlotLapse, workers
  <2> QED BY <1>1, <2>1
<1>9. CASE UNCHANGED vars
  BY <1>1, <1>9 DEF vars
<1>10. ASSUME NEW v \in Workers, WorkerStep(v) PROVE RunMove(w)
  <2>1. CASE v # w
    BY <1>4, <1>10, <2>1
  <2>2. CASE v = w
    BY <1>2, <1>3, <1>5, <1>6, <1>10, <2>2 DEF WorkerStep
  <2> QED BY <2>1, <2>2
<1> QED BY <1>7, <1>8, <1>9, <1>10 DEF Next

\* No two workers ever have one number for a job.
LEMMA RunsStep == Typed /\ Typed' /\ Runs /\ [Next]_vars => Runs'
<1> SUFFICES ASSUME Typed, Typed', Runs, [Next]_vars PROVE Runs'
  OBVIOUS
<1>0. Grow /\ \A w \in Workers : pc'[w] \in Working => RunMove(w)
  BY RowsGrow, RunSteps
<1>1. \A w \in Workers : pc[w] \in Working => /\ task[w].job \in Jobs
                                             /\ task[w].run \in Nat
                                             /\ row[task[w].job].attempts \in Nat
  BY DEF Typed, TypeOK, Pointers, Task, Row
<1>2. \A w \in Workers : pc'[w] \in Working => /\ task'[w].job \in Jobs
                                              /\ task'[w].run \in Nat
                                              /\ row'[task'[w].job].attempts \in Nat
  BY DEF Typed, TypeOK, Pointers, Task, Row
<1>3. ASSUME NEW w \in Workers, pc'[w] \in Working
      PROVE  task'[w].run <= row'[task'[w].job].attempts
  BY <1>0, <1>1, <1>2, <1>3 DEF RunMove, Runs, Grow
<1>4. ASSUME NEW v \in Workers, NEW w \in Workers, Claim(v), Claim(w) PROVE v = w
  BY <1>4 DEF Claim, Moves, Typed, TypeOK
<1>5. ASSUME NEW v \in Workers, NEW w \in Workers,
             pc[v] \in Working, pc'[w] \in Working, pc'[v] \in Working,
             task'[v].job = task'[w].job, task'[v].run = task'[w].run, task'[w].run > 0,
             task'[v].job = task[v].job, task'[v].run = task[v].run
      PROVE  v = w
  <2>0. task'[w].run # 0
    BY <1>2, <1>5
  <2>1. /\ pc[w] \in Working /\ task'[w].job = task[w].job
        /\ task'[w].run = task[w].run \/ task'[w].run = row[task[w].job].attempts + 1
    BY <1>0, <1>5, <2>0 DEF RunMove
  <2>2. CASE task'[w].run = task[w].run
    BY <1>5, <2>1, <2>2 DEF Runs
  <2>3. CASE task'[w].run = row[task[w].job].attempts + 1
    <3>1. task[v].job = task[w].job
      BY <1>5, <2>1
    <3>2. task[v].run <= row[task[w].job].attempts
      BY <1>5, <3>1 DEF Runs
    <3>3. task[v].run = row[task[w].job].attempts + 1
      BY <1>5, <2>3
    <3>4. row[task[w].job].attempts \in Nat
      BY <1>1, <2>1
    <3> QED BY <3>2, <3>3, <3>4
  <2> QED BY <2>1, <2>2, <2>3
<1>6. ASSUME NEW v \in Workers, NEW w \in Workers,
             pc'[v] \in Working, pc'[w] \in Working,
             task'[v].job = task'[w].job, task'[v].run = task'[w].run, task'[w].run > 0
      PROVE  v = w
  <2>1. RunMove(v) /\ RunMove(w)
    BY <1>0, <1>6
  <2>2. CASE pc[v] \in Working /\ task'[v].job = task[v].job /\ task'[v].run = task[v].run
    BY <1>5, <1>6, <2>2
  <2>3. CASE pc[w] \in Working /\ task'[w].job = task[w].job /\ task'[w].run = task[w].run
    BY <1>5, <1>6, <2>3
  <2>4. CASE Claim(v) /\ Claim(w)
    BY <1>4, <2>4
  <2> QED BY <1>2, <1>6, <2>1, <2>2, <2>3, <2>4 DEF RunMove
<1> QED BY <1>3, <1>6 DEF Runs

\* The fencing of update_run() and of the heartbeat: of the executions that work
\* for a job, at most one may still change its row.
THEOREM SingleOwner == Spec => []OneOwner
<1>1. Init => Typed /\ Runs
  BY TypedInit DEF Init, Runs, Working
<1>2. Typed /\ Runs /\ [Next]_vars => (Typed /\ Runs)'
  BY TypedStep, RunsStep
<1>3. Typed /\ Runs => OneOwner
  <2> SUFFICES ASSUME Runs, NEW v \in Converting, NEW w \in Converting,
                      task[v].job = task[w].job, Accepted(v), Accepted(w)
               PROVE  v = w
    BY DEF OneOwner
  <2>1. v \in Workers /\ w \in Workers /\ pc[v] \in Working /\ pc[w] \in Working /\ task[w].run > 0
    BY DEF Converting
  <2>2. task[v].run = task[w].run
    BY DEF Accepted, Owns
  <2> QED BY <2>1, <2>2 DEF Runs
<1> QED BY <1>1, <1>2, <1>3, PTL DEF Spec
(***************************************************************************)
(* Files.  Nothing of a job in sight is ever taken away, though checkpoints *)
(* and results are stored, and documents purged, without asking who owns   *)
(* the job.                                                                *)
(***************************************************************************)
Kinds == {"source", "pages", "book"}

Stored ==
    /\ \A j \in Jobs : Visible(j) /\ Begun(j) => "source" \in blobs[j]
    /\ \A j \in Jobs : Visible(j) /\ row[j].status = "completed" => {"pages", "book"} \subseteq blobs[j]
    /\ \A w \in Workers : pc[w] = "complete" /\ Visible(task[w].job) =>
          {"pages", "book"} \subseteq blobs[task[w].job]

\* A file of a job that stays in sight stays.
LEMMA FilesStay ==
    ASSUME IInv, Typed', [Next]_vars, NEW j \in Jobs, Begun(j), Visible(j)'
    PROVE  blobs[j] \cap Kinds \subseteq blobs'[j]
<1>0. Typed /\ Tasked /\ Grow
  BY RowsGrow DEF IInv
<1> USE <1>0 DEF Typed, TypeOK, Kinds
<1>1. ASSUME blobs' = blobs PROVE blobs[j] \cap Kinds \subseteq blobs'[j]
  BY <1>1
<1>2. ASSUME NEW w \in Workers, WorkerStep(w) PROVE blobs[j] \cap Kinds \subseteq blobs'[j]
  <2>0. pc[w] \in Working => task[w].job \in Jobs
    BY DEF Pointers
  <2>1. CASE StoreCheckpoint(w)
    BY <2>0, <2>1 DEF StoreCheckpoint, Working
  <2>2. CASE StoreResults(w)
    BY <2>0, <2>2 DEF StoreResults, Working
  <2>3. CASE Purge(w)
    <3>1. task[w].job \in Jobs /\ ~Visible(task[w].job)
      BY <2>0, <2>3 DEF Purge, Working, Tasked
    <3>2. task[w].job # j
      BY <3>1 DEF Grow
    <3> QED BY <2>3, <3>1, <3>2 DEF Purge
  <2>4. CASE ~(StoreCheckpoint(w) \/ StoreResults(w) \/ Purge(w))
    <3>1. blobs' = blobs
      BY <1>2, <2>4 DEF WorkerStep, Start, Receive, ReceiveNothing, ClaimUnwanted, ClaimTaken,
         ClaimSpent, Claim, Check, Renew, Extend, Prolong, Complete, ConversionFails, ReportFailure,
         Ack, Release, Abandon, Die
    <3> QED BY <1>1, <3>1
  <2> QED BY <2>1, <2>2, <2>3, <2>4
<1>3. ASSUME NEW c \in Callers, CallStep(c) PROVE blobs[j] \cap Kinds \subseteq blobs'[j]
  <2>1. ASSUME NEW i \in Jobs, CompleteUpload(c, i) PROVE blobs[j] \cap Kinds \subseteq blobs'[j]
    <3>1. blobs' = blobs \/ blobs' = [blobs EXCEPT ![i] = (@ \ {"empty"}) \cup {"source"}]
      BY <2>1 DEF CompleteUpload
    <3> QED BY <1>1, <3>1
  <2>2. CASE Place(c)
    BY <2>2 DEF Place, Pointers
  <2>3. CASE ~(Place(c) \/ \E i \in Jobs : CompleteUpload(c, i))
    <3>1. blobs' = blobs
      BY <1>3, <2>3 DEF CallStep, Create, Retry, Repair, Delete, Dispatch, Send, Mark, Tell, CallFails
    <3> QED BY <1>1, <3>1
  <2> QED BY <2>1, <2>2, <2>3
<1>4. CASE TimeStep \/ UNCHANGED vars
  <2>1. blobs' = blobs
    BY <1>4 DEF TimeStep, Expire, LeaseLapse, Reappear, SlotLapse, vars
  <2> QED BY <1>1, <2>1
<1> QED BY <1>2, <1>3, <1>4 DEF Next

\* A worker about to complete its job has stored the results just now or before.
LEMMA CompleteFrom ==
    ASSUME Typed, [Next]_vars, NEW w \in Workers, pc'[w] = "complete"
    PROVE  /\ task'[w].job = task[w].job
           /\ pc[w] = "complete" \/ StoreResults(w)
<1>0. pc \in [Workers -> Places] /\ TaskStep
  BY TaskSteps DEF Typed, TypeOK
<1>1. task'[w].job = task[w].job
  BY <1>0 DEF TaskStep, Handed, SameTask, Working
<1>2. ASSUME NEW v \in Workers, WorkerStep(v), v # w PROVE pc'[w] = pc[w]
  BY <1>0, <1>2 DEF WorkerStep, Start, Receive, ReceiveNothing, ClaimUnwanted, ClaimTaken,
     ClaimSpent, Claim, Check, Renew, Extend, Prolong, StoreCheckpoint, StoreResults, Complete,
     ConversionFails, ReportFailure, Purge, Ack, Release, Abandon, Die, Refused, Moves, workers
<1>3. ASSUME WorkerStep(w) PROVE pc[w] = "complete" \/ StoreResults(w)
  BY <1>0, <1>3 DEF WorkerStep, Start, Receive, ReceiveNothing, ClaimUnwanted, ClaimTaken,
     ClaimSpent, Claim, Check, Renew, Extend, Prolong, StoreCheckpoint, Complete, Destination,
     ConversionFails, ReportFailure, Purge, Ack, Release, Abandon, Die, Refused, Moves, workers
<1>4. ASSUME NEW c \in Callers, CallStep(c) PROVE pc' = pc
  BY <1>4 DEF CallStep, Create, CompleteUpload, Retry, Repair, Delete, Place, Dispatch, Send, Mark,
     Tell, CallFails, workers
<1>5. CASE TimeStep \/ UNCHANGED vars
  <2>1. pc' = pc
    BY <1>5 DEF TimeStep, Expire, LeaseLapse, Reappear, SlotLapse, workers, vars
  <2> QED BY <1>1, <2>1
<1>6. CASE \E v \in Workers : WorkerStep(v)
  BY <1>1, <1>2, <1>3, <1>6
<1> QED BY <1>1, <1>4, <1>5, <1>6 DEF Next

\* Every step keeps what is stored.
LEMMA StoredStep == IInv /\ Stored /\ Typed' /\ [Next]_vars => Stored'
<1> SUFFICES ASSUME IInv, Stored, Typed', [Next]_vars PROVE Stored'
  OBVIOUS
<1>0. Typed /\ Tasked /\ Grow
  BY RowsGrow DEF IInv
<1>1. ASSUME NEW j \in Jobs, Begun(j), Visible(j)' PROVE Visible(j)
  BY <1>0, <1>1 DEF Grow
<1>2. ASSUME NEW w \in Workers, pc[w] \in Working PROVE task[w].job \in Jobs /\ Begun(task[w].job)
  BY <1>0, <1>2 DEF Tasked, About, Typed, Pointers
<1>3. ASSUME NEW j \in Jobs, Visible(j)', Begun(j)' PROVE "source" \in blobs'[j]
  <2>1. CASE Begun(j)
    <3>1. "source" \in blobs[j]
      BY <1>1, <1>3, <2>1 DEF Stored
    <3> QED BY <1>3, <2>1, <3>1, FilesStay DEF Kinds
  <2>2. CASE ~Begun(j)
    <3>1. RowMove(j)
      BY <1>0, RowSteps
    <3>2. ASSUME NEW c \in Callers, CompleteUpload(c, j), row[j].status = "uploading"
          PROVE  "source" \in blobs'[j]
      <4>1. blobs' = [blobs EXCEPT ![j] = (@ \ {"empty"}) \cup {"source"}]
        BY <3>2 DEF CompleteUpload, Claimable
      <4> QED BY <1>0, <4>1 DEF Typed, TypeOK
    <3>3. /\ \A c \in Callers : Retry(c, j) => Begun(j)
          /\ \A c \in Callers : Mark(c) /\ StillAsRead(c) /\ call[c].job = j => Begun(j)
      BY DEF Retry, StillAsRead, Begun
    <3>4. ASSUME NEW w \in Workers, task[w].job = j,
                 Claim(w) \/ Complete(w) \/ ClaimSpent(w) \/ ReportFailure(w)
          PROVE  Begun(j)
      BY <1>2, <3>4 DEF Claim, Complete, ClaimSpent, ReportFailure, Working
    <3> QED BY <1>3, <2>2, <3>1, <3>2, <3>3, <3>4 DEF RowMove, RowAt, Begun, Visible
  <2> QED BY <2>1, <2>2
<1>4. ASSUME NEW j \in Jobs, Visible(j)', row'[j].status = "completed"
      PROVE  {"pages", "book"} \subseteq blobs'[j]
  <2>1. CASE row[j].status = "completed"
    <3>1. Begun(j)
      BY <2>1 DEF Begun
    <3>2. {"pages", "book"} \subseteq blobs[j]
      BY <1>1, <1>4, <2>1, <3>1 DEF Stored
    <3> QED BY <1>4, <3>1, <3>2, FilesStay DEF Kinds
  <2>2. ASSUME NEW w \in Workers, Complete(w), Accepted(w), task[w].job = j
        PROVE  {"pages", "book"} \subseteq blobs'[j]
    <3>1. Begun(j) /\ pc[w] = "complete" /\ Visible(j)
      BY <1>2, <2>2 DEF Complete, Accepted, Working
    <3>2. {"pages", "book"} \subseteq blobs[j]
      BY <2>2, <3>1 DEF Stored
    <3> QED BY <1>4, <3>1, <3>2, FilesStay DEF Kinds
  <2>3. RowMove(j)
    BY <1>0, RowSteps
  <2> QED BY <1>4, <2>1, <2>2, <2>3 DEF RowMove, RowAt
<1>5. ASSUME NEW w \in Workers, pc'[w] = "complete", Visible(task[w].job)'
      PROVE  {"pages", "book"} \subseteq blobs'[task'[w].job]
  <2>1. task'[w].job = task[w].job /\ (pc[w] = "complete" \/ StoreResults(w))
    BY <1>0, <1>5, CompleteFrom
  <2>2. CASE StoreResults(w)
    <3>1. task[w].job \in Jobs
      BY <1>2, <2>2 DEF StoreResults, Working
    <3> QED BY <1>0, <2>1, <2>2, <3>1 DEF StoreResults, Typed, TypeOK
  <2>3. CASE pc[w] = "complete"
    <3>1. task[w].job \in Jobs /\ Begun(task[w].job)
      BY <1>2, <2>3 DEF Working
    <3>2. ASSUME NEW j \in Jobs, j = task[w].job, Visible(j)'
          PROVE  {"pages", "book"} \subseteq blobs'[j]
      <4>1. {"pages", "book"} \subseteq blobs[j]
        BY <1>1, <2>3, <3>1, <3>2 DEF Stored
      <4> QED BY <3>1, <3>2, <4>1, FilesStay DEF Kinds
    <3> QED BY <1>5, <2>1, <3>1, <3>2 DEF Visible
  <2> QED BY <2>1, <2>2, <2>3
<1> QED BY <1>3, <1>4, <1>5 DEF Stored

\* A completed job can be downloaded and an accepted one converted, whatever
\* purges and superseded workers do: purge() reaches only jobs out of sight.
THEOREM FilesThere == Spec => []ResultsThere
<1>1. Init => Stored
  BY DEF Init, Stored, NoRow, Visible
<1>2. IInv /\ Stored /\ [Next]_vars => Stored'
  BY StoredStep, TypedStep DEF IInv
<1>3. IInv /\ Stored => ResultsThere
  BY DEF Stored, ResultsThere, Begun, Claimable
<1> QED BY <1>1, <1>2, <1>3, Invariant, PTL DEF Spec
(***************************************************************************)
(* Capacity.                                                               *)
(***************************************************************************)

\* Jobs under way are joined by one at a time, and only where there is allowance.
LEMMA LiveSteps ==
    ASSUME Typed, [Next]_vars
    PROVE  \/ Live(ActiveStates)' \subseteq Live(ActiveStates)
           \/ /\ HasAllowance
              /\ \E j \in Jobs : Live(ActiveStates)' \subseteq Live(ActiveStates) \cup {j}
<1>1. ASSUME NEW j \in Jobs, j \in Live(ActiveStates)', j \notin Live(ActiveStates)
      PROVE  \E c \in Callers : Create(c, j) \/ Retry(c, j)
  <2>1. RowMove(j)
    BY RowSteps
  <2>2. /\ \A c \in Callers : Mark(c) /\ StillAsRead(c) /\ call[c].job = j => row[j].status = "dispatching"
        /\ \A w \in Workers : Claim(w) /\ task[w].job = j => row[j].status \in Claimable
    BY DEF StillAsRead, Claim, Wanted
  <2>3. row'[j].status \in ActiveStates /\ row'[j].status # "none" /\ ~row'[j].expired
    BY <1>1 DEF Live, Visible
  <2>4. row[j].status \notin ActiveStates \/ row[j].expired
    BY <1>1 DEF Live, Visible, ActiveStates
  <2> QED BY <2>1, <2>2, <2>3, <2>4 DEF RowMove, RowAt, ActiveStates, Claimable
<1>2. ASSUME NEW j \in Jobs, NEW c \in Callers, Create(c, j) \/ Retry(c, j)
      PROVE  HasAllowance /\ Live(ActiveStates)' \subseteq Live(ActiveStates) \cup {j}
  <2>1. \A i \in Jobs \ {j} : row'[i] = row[i]
    BY <1>2, CallRows DEF StatusBecomes, RowBecomes
  <2>2. HasAllowance
    BY <1>2 DEF Create, Retry
  <2> QED BY <2>1, <2>2 DEF Live, Visible
<1>3. CASE \E j \in Jobs : j \in Live(ActiveStates)' /\ j \notin Live(ActiveStates)
  BY <1>1, <1>2, <1>3
<1>4. CASE ~\E j \in Jobs : j \in Live(ActiveStates)' /\ j \notin Live(ActiveStates)
  BY <1>4 DEF Live
<1> QED BY <1>3, <1>4

\* No step takes the jobs under way past MAX_ACTIVE_JOBS.
LEMMA ActiveStep == Typed /\ ActiveBounded /\ [Next]_vars => ActiveBounded'
<1> SUFFICES ASSUME Typed, ActiveBounded, [Next]_vars PROVE ActiveBounded'
  OBVIOUS
<1> DEFINE L == Live(ActiveStates)
<1>0. Cardinality(L) <= MaxActive
  BY DEF ActiveBounded
<1>1. IsFiniteSet(L) /\ Cardinality(L) \in Nat
  BY FiniteAssumption, FS_Subset, FS_CardinalityType DEF Live
<1>2. CASE L' \subseteq L
  <2>1. Cardinality(L') <= Cardinality(L) /\ Cardinality(L') \in Nat
    BY <1>1, <1>2, FS_Subset, FS_CardinalityType
  <2>2. Cardinality(L') <= MaxActive
    BY <1>0, <1>1, <2>1, LimitAssumption
  <2> QED BY <2>2 DEF ActiveBounded
<1>3. CASE HasAllowance /\ \E j \in Jobs : L' \subseteq L \cup {j}
  <2>1. PICK j \in Jobs : L' \subseteq L \cup {j}
    BY <1>3
  <2>2. /\ IsFiniteSet(L \cup {j})
        /\ Cardinality(L \cup {j}) = IF j \in L THEN Cardinality(L) ELSE Cardinality(L) + 1
    BY <1>1, FS_AddElement
  <2>3. Cardinality(L \cup {j}) \in Nat /\ Cardinality(L \cup {j}) <= Cardinality(L) + 1
    BY <1>1, <2>2
  <2>4. Cardinality(L') <= Cardinality(L \cup {j}) /\ Cardinality(L') \in Nat
    BY <2>1, <2>2, FS_Subset, FS_CardinalityType
  <2>5. Cardinality(L) < MaxActive
    BY <1>3 DEF HasAllowance
  <2>6. Cardinality(L') <= MaxActive
    BY <1>1, <2>3, <2>4, <2>5, LimitAssumption
  <2> QED BY <2>6 DEF ActiveBounded
<1> QED BY <1>2, <1>3, LiveSteps

\* quota() bounds the jobs under way over uploads, retries, redeliveries and
\* interrupted executions together.
THEOREM CapacityKept == Spec => []ActiveBounded
<1>1. Init => ActiveBounded
  <2> SUFFICES ASSUME Init PROVE ActiveBounded
    OBVIOUS
  <2>1. Live(ActiveStates) = {}
    BY DEF Init, Live, NoRow, Visible
  <2> QED BY <2>1, FS_EmptySet, LimitAssumption DEF ActiveBounded
<1>2. Typed /\ ActiveBounded /\ [Next]_vars => (Typed /\ ActiveBounded)'
  BY ActiveStep, TypedStep
<1> QED BY <1>1, <1>2, TypedInit, PTL DEF Spec

(***************************************************************************)
(* The worker slot.  While no living worker stalls, its lease is enough:   *)
(* a worker that receives, claims or converts holds it, so there is one.   *)
(* One that purges renews nothing and may have lost it.                    *)
(***************************************************************************)
Loose == {"off", "purge", "ack", "release"}
SlotHeld == \A w \in Workers : pc[w] \notin Loose => slot = w

\* A worker takes the slot only when it is free, and no one loses it while running.
LEMMA SlotHeldStep == ASSUME ~Stalls PROVE Typed /\ SlotHeld /\ [Next]_vars => SlotHeld'
<1> SUFFICES ASSUME Typed, SlotHeld, [Next]_vars PROVE SlotHeld'
  OBVIOUS
<1> USE DEF Loose
<1>0. pc \in [Workers -> Places] /\ slot \in Workers \cup {None} /\ \A w \in Workers : w # None
  BY NoneAssumption DEF Typed, TypeOK
<1>1. ASSUME NEW w \in Workers, Start(w) PROVE SlotHeld'
  BY <1>0, <1>1 DEF SlotHeld, Start, Moves
<1>2. ASSUME NEW w \in Workers, Renew(w) PROVE SlotHeld'
  BY <1>0, <1>2 DEF SlotHeld, Renew, Moves
<1>3. ASSUME NEW w \in Workers, Release(w) PROVE SlotHeld'
  <2>1. pc' = [pc EXCEPT ![w] = "off"] /\ slot' = IF slot = w THEN None ELSE slot
    BY <1>3 DEF Release, Moves
  <2> QED BY <1>0, <2>1 DEF SlotHeld
<1>4. ASSUME NEW w \in Workers, WorkerStep(w), ~(Start(w) \/ Renew(w) \/ Release(w)) PROVE SlotHeld'
  <2>1. /\ slot' = slot
        /\ pc'[w] \notin Loose => pc[w] \notin Loose
        /\ \A v \in Workers \ {w} : pc'[v] = pc[v]
    BY <1>0, <1>4 DEF WorkerStep, Receive, ReceiveNothing, ClaimUnwanted, ClaimTaken,
       ClaimSpent, Claim, Check, Extend, Prolong, StoreCheckpoint, StoreResults, Complete,
       ConversionFails, ReportFailure, Purge, Ack, Abandon, Die, Refused, Destination, Moves, workers
  <2> QED BY <2>1 DEF SlotHeld
<1>5. ASSUME NEW c \in Callers, CallStep(c) PROVE SlotHeld'
  <2>1. UNCHANGED <<pc, slot>>
    BY <1>5 DEF CallStep, Create, CompleteUpload, Retry, Repair, Delete, Place, Dispatch, Send, Mark,
       Tell, CallFails, workers
  <2> QED BY <2>1 DEF SlotHeld
<1>6. CASE TimeStep
  <2>1. CASE SlotLapse
    BY <1>0, <2>1 DEF SlotLapse, SlotHeld
  <2>2. CASE ~SlotLapse
    <3>1. UNCHANGED <<pc, slot>>
      BY <1>6, <2>2 DEF TimeStep, Expire, LeaseLapse, Reappear, workers
    <3> QED BY <3>1 DEF SlotHeld
  <2> QED BY <2>1, <2>2
<1>7. CASE UNCHANGED vars
  BY <1>7 DEF vars, SlotHeld
<1> QED BY <1>1, <1>2, <1>3, <1>4, <1>5, <1>6, <1>7 DEF Next

\* So the slot is held by whoever runs.
LEMMA SlotInvariant == ASSUME ~Stalls PROVE Spec => []SlotHeld
<1>1. Init => Typed /\ SlotHeld
  BY TypedInit DEF Init, SlotHeld, Loose
<1>2. Typed /\ SlotHeld /\ [Next]_vars => (Typed /\ SlotHeld)'
  BY TypedStep, SlotHeldStep
<1> QED BY <1>1, <1>2, PTL DEF Spec

\* Who acknowledges without having purged has it, too: what is purged is out of sight.
AckHeld == \A w \in Workers : pc[w] = "ack" /\ Visible(task[w].job) => slot = w

\* A worker that renews its slot keeps it until it ends.
LEMMA SlotStays ==
    ASSUME ~Stalls, Typed, [Next]_vars, NEW w \in Workers, slot = w,
           pc[w] \notin {"off", "purge"}, pc'[w] # "off"
    PROVE  slot' = w
<1>0. pc \in [Workers -> Places] /\ \A v \in Workers : v # None
  BY NoneAssumption DEF Typed, TypeOK
<1>1. ASSUME NEW v \in Workers, Start(v) \/ Renew(v) PROVE slot' = w
  BY <1>0, <1>1 DEF Start, Renew
<1>2. ASSUME NEW v \in Workers, Release(v) PROVE slot' = w
  <2>1. pc' = [pc EXCEPT ![v] = "off"] /\ slot' = IF slot = v THEN None ELSE slot
    BY <1>2 DEF Release, Moves
  <2> QED BY <1>0, <2>1
<1>3. ASSUME NEW v \in Workers, WorkerStep(v), ~(Start(v) \/ Renew(v) \/ Release(v)) PROVE slot' = w
  BY <1>3 DEF WorkerStep, Receive, ReceiveNothing, ClaimUnwanted, ClaimTaken, ClaimSpent, Claim, Check,
     Extend, Prolong, StoreCheckpoint, StoreResults, Complete, ConversionFails, ReportFailure, Purge, Ack,
     Abandon, Die, Refused, workers
<1>4. ASSUME NEW c \in Callers, CallStep(c) PROVE slot' = w
  BY <1>4 DEF CallStep, Create, CompleteUpload, Retry, Repair, Delete, Place, Dispatch, Send, Mark,
     Tell, CallFails, workers
<1>5. CASE TimeStep
  BY <1>5 DEF TimeStep, SlotLapse, Expire, LeaseLapse, Reappear, workers
<1>6. CASE UNCHANGED vars
  BY <1>6 DEF vars
<1> QED BY <1>1, <1>2, <1>3, <1>4, <1>5, <1>6 DEF Next

\* It comes to acknowledge from where it held the slot.
LEMMA AckHeldStep ==
    ASSUME ~Stalls
    PROVE  IInv /\ SlotHeld /\ AckHeld /\ [Next]_vars => AckHeld'
<1> SUFFICES ASSUME IInv, SlotHeld, AckHeld, [Next]_vars, NEW w \in Workers,
                    pc'[w] = "ack", Visible(task[w].job)'
             PROVE  slot' = w
  BY DEF AckHeld
<1>0. Typed /\ Grow /\ TaskStep
  BY RowsGrow, TaskSteps DEF IInv
<1>1. SameTask(w)
  BY <1>0 DEF TaskStep, Handed, Working
<1>2. About(task[w].job, task[w].generation) /\ (pc[w] = "purge" => ~Visible(task[w].job))
  BY <1>1 DEF SameTask, IInv, Tasked
<1>3. Visible(task[w].job)
  <2>1. PICK j \in Jobs : j = task[w].job
    BY <1>0, <1>1, PointersTyped DEF SameTask
  <2>2. Visible(j)'
    BY <1>1, <2>1 DEF SameTask, Visible
  <2> QED BY <1>0, <1>2, <2>1, <2>2 DEF About, Grow
<1>4. pc[w] \notin {"off", "purge", "release"}
  BY <1>1, <1>2, <1>3 DEF SameTask, Working
<1>5. slot = w
  BY <1>3, <1>4 DEF AckHeld, SlotHeld, Loose
<1> QED BY <1>0, <1>4, <1>5, SlotStays

\* The blob lease serializes conversion, as the deployment guide says, for any number
\* of executions and jobs, through deaths, redeliveries, purges that outlast it and lapses
\* of every lease that no living worker renews.
THEOREM ConversionAlone == ASSUME ~Stalls PROVE Spec => []ConversionSerialized
<1>1. SlotHeld /\ AckHeld => ConversionSerialized
  <2> DEFINE atWork == {w \in Converting : pc[w] = "ack" => Visible(task[w].job)}
  <2> SUFFICES ASSUME SlotHeld, AckHeld PROVE Cardinality(atWork) <= 1
    BY DEF ConversionSerialized
  <2>1. atWork \subseteq {slot}
    BY DEF Converting, SlotHeld, AckHeld, Loose, Working
  <2>2. IsFiniteSet({slot}) /\ Cardinality({slot}) = 1
    BY FS_Singleton
  <2> QED BY <2>1, <2>2, FS_Subset
<1>2. Init => AckHeld
  BY DEF Init, AckHeld
<1>3. IInv /\ SlotHeld /\ AckHeld /\ [Next]_vars => AckHeld'
  BY AckHeldStep
<1> QED BY <1>1, <1>2, <1>3, Invariant, SlotInvariant, PTL DEF Spec

(***************************************************************************)
(* A worker between its claim and its answer has drawn a number, and while *)
(* it may change its row, the row is "processing".                         *)
(***************************************************************************)
Under == {"convert", "renew", "extend", "prolong", "complete", "fail"}

Owned ==
    \A w \in Workers : pc[w] \in Under =>
        /\ task[w].run > 0
        /\ Accepted(w) => row[task[w].job].status = "processing"

\* A worker comes there by a claim, and answers its row when it leaves.
LEMMA UnderSteps ==
    ASSUME Typed, [Next]_vars, NEW w \in Workers
    PROVE  /\ pc'[w] \in Under => \/ Claim(w)
                                  \/ pc[w] \in Under /\ task'[w] = task[w]
           /\ (Complete(w) \/ ReportFailure(w)) /\ Accepted(w) => pc'[w] = "ack"
           /\ ClaimSpent(w) => pc'[w] = "ack"
<1>0. pc \in [Workers -> Places] /\ task \in [Workers -> Task]
  BY DEF Typed, TypeOK
<1>1. (Complete(w) \/ ReportFailure(w)) /\ Accepted(w) => pc'[w] = "ack"
  BY <1>0 DEF Complete, ReportFailure, Accepted, Refused, Moves
<1>2. ClaimSpent(w) => pc'[w] = "ack"
  BY <1>0 DEF ClaimSpent, Moves
<1>3. ASSUME pc'[w] \in Under, ~Claim(w) PROVE pc[w] \in Under /\ task'[w] = task[w]
  <2>1. CASE UNCHANGED <<pc, task>>
    BY <1>3, <2>1
  <2>2. ASSUME NEW v \in Workers, WorkerStep(v), v # w PROVE pc'[w] = pc[w] /\ task'[w] = task[w]
    BY <1>0, <2>2 DEF WorkerStep, Start, Receive, ReceiveNothing, ClaimUnwanted, ClaimTaken,
       ClaimSpent, Claim, Check, Renew, Extend, Prolong, StoreCheckpoint, StoreResults, Complete,
       ConversionFails, ReportFailure, Purge, Ack, Release, Abandon, Die, Refused, Moves, workers
  <2>3. CASE WorkerStep(w)
    BY <1>0, <1>3, <2>3 DEF WorkerStep, Start, Receive, ReceiveNothing, ClaimUnwanted, ClaimTaken,
       ClaimSpent, Check, Renew, Extend, Prolong, StoreCheckpoint, StoreResults, Complete,
       ConversionFails, ReportFailure, Purge, Ack, Release, Abandon, Die, Refused, Moves, workers,
       Under, Destination
  <2>4. CASE ~\E v \in Workers : WorkerStep(v)
    <3>1. UNCHANGED <<pc, task>>
      BY <2>4 DEF Next, CallStep, Create, CompleteUpload, Retry, Repair, Delete, Place, Dispatch,
         Send, Mark, Tell, CallFails, TimeStep, Expire, LeaseLapse, Reappear, SlotLapse, workers, vars
    <3> QED BY <2>1, <3>1
  <2> QED BY <1>3, <2>2, <2>3, <2>4
<1> QED BY <1>1, <1>2, <1>3

\* The owner of a row finds it as its claim left it.
LEMMA OwnedStep == IInv /\ SlotHeld /\ Owned /\ Typed' /\ [Next]_vars => Owned'
<1> SUFFICES ASSUME IInv, SlotHeld, Owned, Typed', [Next]_vars, NEW w \in Workers, pc'[w] \in Under
             PROVE  /\ task'[w].run > 0
                    /\ Accepted(w)' => row'[task'[w].job].status = "processing"
  BY DEF Owned
<1>0. Typed /\ Tasked /\ Grow
  BY RowsGrow DEF IInv
<1>1. CASE Claim(w)
  <2>1. task[w].job \in Jobs /\ pc[w] = "claim" /\ pc'[w] = "convert"
    BY <1>0, <1>1 DEF Claim, Moves, Typed, TypeOK, Pointers, Working
  <2>2. row'[task[w].job].status = "processing"
    BY <1>0, <1>1, WorkerRows DEF RowBecomes
  <2>3. task' = [task EXCEPT ![w].run = NextRun(task[w].job)] /\ row[task[w].job].attempts \in Nat
    BY <1>0, <1>1, <2>1 DEF Claim, Typed, TypeOK, Row
  <2>4. task'[w].job = task[w].job /\ task'[w].run = row[task[w].job].attempts + 1
    BY <1>0, <2>3 DEF NextRun, Typed, TypeOK, Task
  <2> QED BY <2>2, <2>3, <2>4
<1>2. CASE pc[w] \in Under /\ task'[w] = task[w] /\ ~Claim(w)
  <2>0. task[w].job \in Jobs
    BY <1>0, <1>2 DEF Typed, Pointers, Under, Working
  <2> PICK j \in Jobs : j = task[w].job
    BY <2>0
  <2>1. Begun(j) /\ task[w].run > 0
    BY <1>0, <1>2 DEF Tasked, About, Owned, Under, Working
  <2>2. \A v \in Workers : pc[v] \notin Loose => v = w
    BY <1>2 DEF SlotHeld, Loose, Under
  <2>3. \A v \in Workers : ~Claim(v) /\ ~ClaimSpent(v)
    BY <1>2, <2>2 DEF Claim, ClaimSpent, Loose, Under
  <2>4. \A v \in Workers : ~((Complete(v) \/ ReportFailure(v)) /\ Accepted(v))
    BY <1>0, <1>2, <2>2, UnderSteps DEF Complete, ReportFailure, Loose, Under
  <2>5. ASSUME Accepted(w)' PROVE row'[j].status = "processing"
    <3>1. Visible(j)' /\ row'[j].run = task[w].run
      BY <1>2, <2>5 DEF Accepted, Owns, Visible
    <3>2. Visible(j)
      BY <1>0, <2>1, <3>1 DEF Grow
    <3>3. RowMove(j)
      BY <1>0, <2>1, RowSteps
    <3>4. row'[j].run = row[j].run
      BY <2>3, <3>3 DEF RowMove, RowAt
    <3>5. row[j].status = "processing"
      BY <1>2, <3>1, <3>2, <3>4 DEF Owned, Accepted, Owns
    <3>6. /\ \A c \in Callers : ~Create(c, j) /\ ~Retry(c, j)
          /\ \A c \in Callers : ~(StillAsRead(c) /\ call[c].job = j)
      BY <3>5 DEF Create, Retry, StillAsRead
    <3> QED BY <2>3, <2>4, <3>1, <3>3, <3>5, <3>6 DEF RowMove, RowAt, Visible
  <2> QED BY <1>2, <2>1, <2>5
<1> QED BY <1>0, <1>1, <1>2, UnderSteps

\* The invariant of the executions that do not stall.
SInv == IInv /\ SlotHeld /\ Owned /\ Runs

\* It holds of every behaviour without stalls.
LEMMA SafeInvariance == ASSUME ~Stalls PROVE Spec => []SInv
<1>1. Init => SInv
  BY IInvInit DEF Init, SInv, SlotHeld, Loose, Owned, Runs, Working, Under
<1>2. SInv /\ IInv' /\ [Next]_vars => SInv'
  BY SlotHeldStep, OwnedStep, RunsStep DEF SInv, IInv
<1> QED BY <1>1, <1>2, Invariant, PTL DEF Spec

\* A job that is ready stays ready and a failed one is revived only by its owner,
\* though redelivered messages start executions for jobs that are settled.
THEOREM SettledStays == ASSUME ~Stalls PROVE Spec => SettledForClients
<1> DEFINE Stays(j) ==
             /\ Visible(j) /\ row[j].status = "failed" /\ Visible(j)' =>
                   row'[j].status \in {"failed", "dispatching"}
             /\ Visible(j) /\ row[j].status = "completed" /\ Visible(j)' =>
                   row'[j].status = "completed"
<1>1. ASSUME SInv, [Next]_vars, NEW j \in Jobs PROVE Stays(j)
  <2>1. RowMove(j)
    BY <1>1, RowSteps DEF SInv, IInv
  <2>2. ASSUME row[j].status \in {"failed", "completed"}
        PROVE  /\ \A c \in Callers : ~Create(c, j) /\ ~(StillAsRead(c) /\ call[c].job = j)
               /\ \A w \in Workers : task[w].job = j => ~Claim(w) /\ ~ClaimSpent(w)
    BY <2>2 DEF Create, StillAsRead, Claim, ClaimSpent, Wanted, Claimable
  <2>3. ASSUME NEW w \in Workers, Complete(w) \/ ReportFailure(w), Accepted(w), task[w].job = j
        PROVE  row[j].status = "processing"
    BY <1>1, <2>3 DEF Complete, ReportFailure, SInv, Owned, Under
  <2>4. ASSUME NEW c \in Callers, Retry(c, j) PROVE row[j].status = "failed"
    BY <2>4 DEF Retry
  <2> QED BY <2>1, <2>2, <2>3, <2>4 DEF RowMove, RowAt, Visible
<1>2. SInv /\ [Next]_vars => [\A j \in Jobs : Stays(j)]_vars
  BY <1>1
<1> QED BY <1>2, SafeInvariance, PTL DEF Spec, SettledForClients

(***************************************************************************)
(* The daily allowance of executions.                                      *)
(***************************************************************************)

\* Only a claim counts an execution or an attempt, and it counts both.
LEMMA ClaimsCount ==
    ASSUME Typed, [Next]_vars, \A w \in Workers : ~Claim(w)
    PROVE  executions' = executions /\ \A j \in Jobs : row'[j].attempts = row[j].attempts
<1>1. \A j \in Jobs : row'[j].attempts = row[j].attempts
  BY RowSteps DEF RowMove, RowAt
<1>2. ASSUME NEW w \in Workers, WorkerStep(w) PROVE executions' = executions
  BY <1>2 DEF WorkerStep, Start, Receive, ReceiveNothing, ClaimUnwanted, ClaimTaken,
     ClaimSpent, Check, Renew, Extend, Prolong, StoreCheckpoint, StoreResults, Complete,
     ConversionFails, ReportFailure, Purge, Ack, Release, Abandon, Die, catalogue
<1>3. ASSUME NEW c \in Callers, CallStep(c) PROVE executions' = executions
  BY <1>3 DEF CallStep, Create, CompleteUpload, Retry, Repair, Delete, Place, Dispatch, Send, Mark,
     Tell, CallFails, catalogue
<1>4. ASSUME TimeStep \/ UNCHANGED vars PROVE executions' = executions
  BY <1>4 DEF TimeStep, Expire, LeaseLapse, Reappear, SlotLapse, catalogue, vars
<1> QED BY <1>1, <1>2, <1>3, <1>4 DEF Next

\* The attempts that all jobs have taken are finitely many.
LEMMA AttemptsFinite == IsFiniteSet(Attempts) /\ Cardinality(Attempts) \in Nat
<1>1. IsFiniteSet(1..MaxAttempts)
  BY LimitAssumption, FS_Interval
<1>2. IsFiniteSet(Jobs \X (1..MaxAttempts))
  BY <1>1, FiniteAssumption, FS_Product
<1> QED BY <1>2, FS_Subset, FS_CardinalityType DEF Attempts

\* Every step accounts for the executions it pays for.
LEMMA AccountedStep == Typed /\ ExecutionsAccounted /\ [Next]_vars => ExecutionsAccounted'
<1> SUFFICES ASSUME Typed, ExecutionsAccounted, [Next]_vars PROVE ExecutionsAccounted'
  OBVIOUS
<1>1. ASSUME NEW w \in Workers, Claim(w) PROVE ExecutionsAccounted'
  <2>1. task[w].job \in Jobs
    BY <1>1 DEF Claim, Typed, Pointers, Working
  <2> PICK j \in Jobs : j = task[w].job
    BY <2>1
  <2>2. /\ row'[j].attempts = row[j].attempts + 1
        /\ \A i \in Jobs \ {j} : row'[i] = row[i]
    BY <1>1, WorkerRows DEF RowBecomes
  <2>3. \A i \in Jobs : row[i].attempts \in Nat
    BY DEF Typed, TypeOK, Row
  <2>4. row[j].attempts < MaxAttempts /\ executions' = executions + 1
    BY <1>1, <2>3, LimitAssumption DEF Claim, Spent
  <2>5. /\ <<j, row[j].attempts + 1>> \notin Attempts
        /\ Attempts' = Attempts \cup {<<j, row[j].attempts + 1>>}
    <3>1. row[j].attempts + 1 \in 1..MaxAttempts /\ MaxAttempts \in Nat
      BY <2>3, <2>4, LimitAssumption
    <3>2. ASSUME NEW a \in Jobs \X (1..MaxAttempts)
          PROVE  a[2] <= row'[a[1]].attempts <=> a[2] <= row[a[1]].attempts \/ a = <<j, row[j].attempts + 1>>
      <4>1. a = <<a[1], a[2]>> /\ a[1] \in Jobs /\ a[2] \in 1..MaxAttempts
        OBVIOUS
      <4>2. CASE a[1] = j
        <5>1. a[2] <= row[j].attempts + 1 <=> a[2] <= row[j].attempts \/ a[2] = row[j].attempts + 1
          BY <2>3, <4>1
        <5> QED BY <2>2, <4>1, <4>2, <5>1
      <4>3. CASE a[1] # j
        BY <2>2, <4>1, <4>3
      <4> QED BY <4>2, <4>3
    <3>3. ~(row[j].attempts + 1 <= row[j].attempts)
      BY <2>3
    <3> QED BY <3>1, <3>2, <3>3 DEF Attempts
  <2>6. Cardinality(Attempts') = Cardinality(Attempts) + 1
    BY <2>5, AttemptsFinite, FS_AddElement
  <2>7. \A i \in Jobs : row'[i].attempts <= MaxAttempts
    BY <2>2, <2>3, <2>4, LimitAssumption DEF ExecutionsAccounted
  <2> QED BY <2>4, <2>6, <2>7 DEF ExecutionsAccounted
<1>2. CASE \A w \in Workers : ~Claim(w)
  <2>1. executions' = executions /\ \A j \in Jobs : row'[j].attempts = row[j].attempts
    BY <1>2, ClaimsCount
  <2>2. Attempts' = Attempts
    BY <2>1 DEF Attempts
  <2> QED BY <2>1, <2>2 DEF ExecutionsAccounted
<1> QED BY <1>1, <1>2

\* Every execution the day's allowance paid for is an attempt of some job, and no
\* job has more than MAX_ATTEMPTS, whatever dies, stalls or is delivered again.
THEOREM AllowanceAccounted == Spec => []ExecutionsAccounted
<1>1. Init => ExecutionsAccounted
  <2> SUFFICES ASSUME Init PROVE ExecutionsAccounted
    OBVIOUS
  <2>1. executions = 0 /\ \A j \in Jobs : row[j].attempts = 0
    BY DEF Init, NoRow
  <2>2. Attempts = {}
    BY <2>1 DEF Attempts
  <2> QED BY <2>1, <2>2, FS_EmptySet, LimitAssumption DEF ExecutionsAccounted
<1>2. Typed /\ ExecutionsAccounted /\ [Next]_vars => (Typed /\ ExecutionsAccounted)'
  BY AccountedStep, TypedStep
<1> QED BY <1>1, <1>2, TypedInit, PTL DEF Spec

(***************************************************************************)
(* What the owner sees: CloudJobs implements CloudConversion.              *)
(***************************************************************************)

\* A row that was never created has not expired, a deleted one has.
Shown ==
    \A j \in Jobs : /\ row[j].status = "none" => ~row[j].expired
                    /\ row[j].status = "deleted" => row[j].expired

LEMMA ShownStep == Typed /\ Shown /\ [Next]_vars => Shown'
<1> SUFFICES ASSUME Typed, Shown, [Next]_vars, NEW j \in Jobs
             PROVE  /\ row'[j].status = "none" => ~row'[j].expired
                    /\ row'[j].status = "deleted" => row'[j].expired
  BY DEF Shown
<1>1. RowMove(j)
  BY RowSteps
<1> QED BY <1>1 DEF RowMove, RowAt, Shown, Visible

PhaseIs(j) ==
    /\ Phase(j) = "none" <=> row[j].status = "none"
    /\ Phase(j) = "gone" <=> row[j].status # "none" /\ row[j].expired
    /\ Phase(j) = "converting" <=> Visible(j) /\ row[j].status \in Claimable
    /\ Phase(j) = "uploading" <=> Visible(j) /\ row[j].status = "uploading"
    /\ Phase(j) = "completed" <=> Visible(j) /\ row[j].status = "completed"
    /\ Phase(j) = "failed" <=> Visible(j) /\ row[j].status = "failed"

Phased == \A j \in Jobs : PhaseIs(j)

\* The phases, by the rows.
LEMMA PhasesAre == Typed /\ Shown => Phased
<1> SUFFICES ASSUME Typed, Shown, NEW j \in Jobs PROVE PhaseIs(j)
  BY DEF Phased
<1> USE DEF PhaseIs, Visible, Claimable
<1>0. row[j].status \in Statuses
  BY DEF Typed, TypeOK, Row
<1>1. CASE row[j].status = "none"
  <2>1. Phase(j) = "none"
    BY <1>1 DEF Phase
  <2> QED BY <1>1, <2>1
<1>2. CASE row[j].status # "none" /\ row[j].expired
  <2>1. Phase(j) = "gone"
    BY <1>2 DEF Phase
  <2> QED BY <1>2, <2>1
<1>3. CASE Visible(j) /\ row[j].status \in Claimable
  <2>1. Phase(j) = "converting"
    BY <1>3 DEF Phase
  <2> QED BY <1>3, <2>1
<1>4. CASE Visible(j) /\ row[j].status \notin Claimable
  <2>1. Phase(j) = row[j].status
    BY <1>4 DEF Phase
  <2>2. row[j].status \notin {"gone", "converting", "none"}
    BY <1>0, <1>4 DEF Statuses
  <2> QED BY <1>4, <2>1, <2>2
<1> QED BY <1>1, <1>2, <1>3, <1>4

\* The abstract module counts as this one does.
LEMMA CountsAlike == \A S : Conversion!Cardinality(S) = Cardinality(S)
BY DEF Conversion!Cardinality, Cardinality

\* The jobs that are on their way are the same in both.
LEMMA OnTheWayAlike == ASSUME Typed, Shown PROVE Conversion!OnTheWay = Live(ActiveStates)
<1>1. \A j \in Jobs : PhaseIs(j)
  BY PhasesAre DEF Phased
<1> QED BY <1>1 DEF Conversion!OnTheWay, Live, ActiveStates, PhaseIs, Claimable

Unmoved(j) == Phase(j)' = Phase(j) /\ row'[j].attempts = row[j].attempts

\* A step that no owner sees.
LEMMA Unseen == ASSUME \A j \in Jobs : Unmoved(j) PROVE UNCHANGED Conversion!vars
BY DEF Unmoved, Conversion!vars

\* A step that one owner sees.
LEMMA SeenBecomes ==
    ASSUME NEW j \in Jobs, \A i \in Jobs \ {j} : Unmoved(i),
           row'[j].attempts = row[j].attempts, NEW p, Phase(j)' = p
    PROVE  Conversion!Becomes(j, p)
BY DEF Unmoved, Conversion!Becomes

\* A step changes one row at most.
LEMMA OneRow ==
    ASSUME Typed, [Next]_vars
    PROVE  row' = row \/ \E j \in Jobs : \A i \in Jobs \ {j} : row'[i] = row[i]
<1>1. ASSUME NEW c \in Callers, CallStep(c)
      PROVE  row' = row \/ \E j \in Jobs : \A i \in Jobs \ {j} : row'[i] = row[i]
  <2>1. Mark(c) => call[c].job \in Jobs
    BY DEF Mark, Typed, Pointers
  <2> QED BY <1>1, <2>1, CallRows DEF CallStep, RowBecomes, StatusBecomes, Repair, Place, Dispatch,
      Send, Tell, CallFails, catalogue
<1>2. ASSUME NEW w \in Workers, WorkerStep(w)
      PROVE  row' = row \/ \E j \in Jobs : \A i \in Jobs \ {j} : row'[i] = row[i]
  <2>1. CASE ClaimSpent(w) \/ Claim(w) \/ Prolong(w) \/ Complete(w) \/ ReportFailure(w)
    <3>1. task[w].job \in Jobs
      BY <2>1 DEF ClaimSpent, Claim, Prolong, Complete, ReportFailure, Typed, Pointers, Working
    <3> QED BY <2>1, <3>1, WorkerRows DEF RowBecomes, RowKept, StatusBecomes
  <2>2. CASE ~(ClaimSpent(w) \/ Claim(w) \/ Prolong(w) \/ Complete(w) \/ ReportFailure(w))
    BY <1>2, <2>2 DEF WorkerStep, Start, Receive, ReceiveNothing, ClaimUnwanted, ClaimTaken,
       Check, Renew, Extend, StoreCheckpoint, StoreResults, ConversionFails, Purge, Ack,
       Release, Abandon, Die, catalogue
  <2> QED BY <2>1, <2>2
<1>3. ASSUME TimeStep
      PROVE  row' = row \/ \E j \in Jobs : \A i \in Jobs \ {j} : row'[i] = row[i]
  BY <1>3, TimeRows DEF TimeStep, RowBecomes, RowKept, SlotLapse, Reappear, catalogue
<1>4. UNCHANGED vars => row' = row
  BY DEF vars
<1> QED BY <1>1, <1>2, <1>3, <1>4 DEF Next

\* What a row's move is to its owner.
LEMMA SeenMove ==
    ASSUME SInv, Shown, Phased, Phased', [Next]_vars, NEW j \in Jobs,
           \A i \in Jobs \ {j} : row'[i] = row[i]
    PROVE  [Conversion!Next]_Conversion!vars
<1>0. Typed /\ \A i \in Jobs : PhaseIs(i) /\ PhaseIs(i)'
  BY DEF SInv, IInv, Phased
<1>1. \A i \in Jobs \ {j} : Unmoved(i)
  BY DEF Unmoved, Phase, Visible
<1>2. RowMove(j)
  BY <1>0, RowSteps
<1>3. ASSUME NEW p, Phase(j)' = p, row'[j].attempts = row[j].attempts PROVE Conversion!Becomes(j, p)
  BY <1>1, <1>3, SeenBecomes
<1>4. ASSUME row'[j].status = row[j].status, row'[j].expired = row[j].expired,
             row'[j].attempts = row[j].attempts
      PROVE  [Conversion!Next]_Conversion!vars
  BY <1>1, <1>4, Unseen DEF Unmoved, Phase, Visible
<1>5. ASSUME Visible(j), row'[j].expired, row'[j].status # "none",
             row'[j].attempts = row[j].attempts
      PROVE  [Conversion!Next]_Conversion!vars
  <2>1. Phase(j) \notin {"none", "gone"} /\ Phase(j)' = "gone"
    BY <1>0, <1>5 DEF PhaseIs, Visible
  <2>2. Conversion!Remove(j)
    BY <1>3, <1>5, <2>1 DEF Conversion!Remove
  <2> QED BY <2>2 DEF Conversion!Next
<1>6. ASSUME NEW c \in Callers, Create(c, j),
             RowAt(j, "uploading", row[j].expired, row[j].generation, row[j].attempts, row[j].run)
      PROVE  [Conversion!Next]_Conversion!vars
  <2>1. row[j].status = "none" /\ ~row[j].expired /\ HasAllowance
    BY <1>6 DEF Create, Shown
  <2>2. Phase(j) = "none" /\ Phase(j)' = "uploading"
    BY <1>0, <1>6, <2>1 DEF PhaseIs, RowAt, Visible
  <2>3. Conversion!Cardinality(Conversion!OnTheWay) < MaxActive
    BY <1>0, <2>1, CountsAlike, OnTheWayAlike DEF HasAllowance
  <2>4. Conversion!Becomes(j, "uploading")
    BY <1>3, <1>6, <2>2 DEF RowAt
  <2>5. Conversion!Begin(j)
    BY <2>2, <2>3, <2>4 DEF Conversion!Begin
  <2> QED BY <2>5 DEF Conversion!Next
<1>7. ASSUME NEW c \in Callers, CompleteUpload(c, j), row[j].status = "uploading",
             RowAt(j, "dispatching", row[j].expired, row[j].generation, row[j].attempts, row[j].run)
      PROVE  [Conversion!Next]_Conversion!vars
  <2>1. Phase(j) = "uploading" /\ Phase(j)' = "converting"
    BY <1>0, <1>7 DEF CompleteUpload, PhaseIs, RowAt, Visible, Claimable
  <2>2. Conversion!Submit(j)
    BY <1>3, <1>7, <2>1 DEF Conversion!Submit, RowAt
  <2> QED BY <2>2 DEF Conversion!Next
<1>8. ASSUME NEW c \in Callers, Retry(c, j),
             RowAt(j, "dispatching", row[j].expired, row[j].generation + 1, row[j].attempts, row[j].run)
      PROVE  [Conversion!Next]_Conversion!vars
  <2>1. Phase(j) = "failed" /\ Phase(j)' = "converting"
    BY <1>0, <1>8 DEF Retry, PhaseIs, RowAt, Visible, Claimable
  <2>2. Conversion!Cardinality(Conversion!OnTheWay) < MaxActive
    BY <1>0, <1>8, CountsAlike, OnTheWayAlike DEF Retry, HasAllowance
  <2>3. row[j].attempts < MaxAttempts
    BY <1>8 DEF Retry
  <2>4. Conversion!Becomes(j, "converting")
    BY <1>3, <1>8, <2>1 DEF RowAt
  <2>5. Conversion!Retry(j)
    BY <2>1, <2>2, <2>3, <2>4 DEF Conversion!Retry
  <2> QED BY <2>5 DEF Conversion!Next
<1>9. ASSUME NEW c \in Callers, StillAsRead(c), call[c].job = j,
             RowAt(j, "queued", row[j].expired, row[j].generation, row[j].attempts, row[j].run)
      PROVE  [Conversion!Next]_Conversion!vars
  <2>1. Phase(j)' = Phase(j)
    BY <1>9 DEF StillAsRead, RowAt, Phase, Visible, Claimable
  <2> QED BY <1>1, <1>9, <2>1, Unseen DEF Unmoved, RowAt
<1>10. ASSUME NEW w \in Workers, Claim(w), task[w].job = j,
              RowAt(j, "processing", row[j].expired, row[j].generation, row[j].attempts + 1,
                    row[j].attempts + 1)
       PROVE  [Conversion!Next]_Conversion!vars
  <2>1. Visible(j) /\ row[j].status \in Claimable
    BY <1>10 DEF Claim, Wanted
  <2>2. row[j].attempts < MaxAttempts
    <3>1. ~(row[j].attempts >= MaxAttempts) /\ row[j].attempts \in Nat
      BY <1>0, <1>10 DEF Claim, Spent, Typed, TypeOK, Row
    <3> QED BY <3>1, LimitAssumption
  <2>3. Phase(j) = "converting" /\ Phase(j)' = "converting"
    BY <1>0, <1>10, <2>1 DEF PhaseIs, RowAt, Visible, Claimable
  <2>4. \A i \in Jobs : Phase(i)' = Phase(i)
    BY <1>1, <2>3 DEF Unmoved
  <2>5. \A i \in Jobs : row'[i].attempts = IF i = j THEN row[j].attempts + 1 ELSE row[i].attempts
    BY <1>1, <1>10 DEF Unmoved, RowAt
  <2>6. Conversion!Try(j)
    BY <2>2, <2>3, <2>4, <2>5 DEF Conversion!Try
  <2> QED BY <2>6 DEF Conversion!Next
<1>11. ASSUME NEW w \in Workers, Complete(w), Accepted(w), task[w].job = j,
              RowAt(j, "completed", row[j].expired, row[j].generation, row[j].attempts, row[j].run)
       PROVE  [Conversion!Next]_Conversion!vars
  <2>1. pc[w] \in Under \cap Working /\ Visible(j)
    BY <1>11 DEF Complete, Accepted, Under, Working
  <2>2. row[j].status = "processing" /\ task[w].run > 0 /\ task[w].run <= row[j].attempts
    BY <1>11, <2>1 DEF SInv, Owned, Runs
  <2>3. row[j].attempts > 0
    BY <1>0, <2>2 DEF Typed, TypeOK, Row, Task
  <2>4. Phase(j) = "converting" /\ Phase(j)' = "completed"
    BY <1>0, <1>11, <2>1, <2>2 DEF PhaseIs, RowAt, Visible, Claimable
  <2>5. Conversion!Becomes(j, "completed")
    BY <1>3, <1>11, <2>4 DEF RowAt
  <2>6. Conversion!Finish(j)
    BY <2>3, <2>4, <2>5 DEF Conversion!Finish
  <2> QED BY <2>6 DEF Conversion!Next
<1>12. ASSUME NEW w \in Workers, ClaimSpent(w) \/ (ReportFailure(w) /\ Accepted(w)), task[w].job = j,
              RowAt(j, "failed", row[j].expired, row[j].generation, row[j].attempts, row[j].run)
       PROVE  [Conversion!Next]_Conversion!vars
  <2>1. Visible(j) /\ row[j].status \in Claimable
    BY <1>12 DEF ClaimSpent, Wanted, ReportFailure, Accepted, SInv, Owned, Under, Claimable
  <2>2. Phase(j) = "converting" /\ Phase(j)' = "failed"
    BY <1>0, <1>12, <2>1 DEF PhaseIs, RowAt, Visible
  <2>3. Conversion!Fail(j)
    BY <1>3, <1>12, <2>2 DEF Conversion!Fail, RowAt
  <2> QED BY <2>3 DEF Conversion!Next
<1> QED
  <2>1. RowAt(j, row[j].status, TRUE, row[j].generation, row[j].attempts, row[j].run) /\ Visible(j)
           => [Conversion!Next]_Conversion!vars
    BY <1>5 DEF RowAt, Visible
  <2>2. RowAt(j, "deleted", TRUE, row[j].generation, row[j].attempts, row[j].run) /\ Visible(j)
           => [Conversion!Next]_Conversion!vars
    BY <1>5 DEF RowAt
  <2>3. RowAt(j, row[j].status, row[j].expired, row[j].generation, row[j].attempts, row[j].run)
           => [Conversion!Next]_Conversion!vars
    BY <1>4 DEF RowAt
  <2> QED BY <1>2, <1>6, <1>7, <1>8, <1>9, <1>10, <1>11, <1>12, <2>1, <2>2, <2>3 DEF RowMove

\* The queue, the executions and their time limits are, to the owner of a document, no
\* more than CloudConversion: ready is final, only a retry revives, the capacity holds.
THEOREM CloudKeepsPromise == ASSUME ~Stalls PROVE Spec => Promise
<1>1. Init => Typed /\ Shown /\ Conversion!Init
  <2> SUFFICES ASSUME Init PROVE Typed /\ Shown /\ Conversion!Init
    OBVIOUS
  <2>1. Typed /\ Shown
    BY TypedInit DEF Init, NoRow, Shown
  <2>2. \A j \in Jobs : Phase(j) = "none" /\ row[j].attempts = 0
    <3>1. \A j \in Jobs : row[j].status = "none" /\ row[j].attempts = 0
      BY DEF Init, NoRow
    <3> QED BY <2>1, <3>1, PhasesAre DEF Phased, PhaseIs
  <2> QED BY <2>1, <2>2 DEF Conversion!Init
<1>2. SInv /\ Shown /\ SInv' /\ [Next]_vars => Shown'
  BY ShownStep DEF SInv, IInv
<1>3. SInv /\ Shown => Phased
  BY PhasesAre DEF SInv, IInv
<1>4. SInv /\ Shown /\ Phased /\ Phased' /\ [Next]_vars => [Conversion!Next]_Conversion!vars
  <2> SUFFICES ASSUME SInv, Shown, Phased, Phased', [Next]_vars
               PROVE  [Conversion!Next]_Conversion!vars
    OBVIOUS
  <2>1. Typed
    BY DEF SInv, IInv
  <2>2. CASE row' = row
    BY <2>2, Unseen DEF Unmoved, Phase, Visible
  <2>3. CASE \E j \in Jobs : \A i \in Jobs \ {j} : row'[i] = row[i]
    BY <2>1, <2>3, SeenMove
  <2> QED BY <2>1, <2>2, <2>3, OneRow
<1> QED BY <1>1, <1>2, <1>3, <1>4, SafeInvariance, PTL DEF Spec, Promise, Conversion!Spec

(***************************************************************************)
(* Deletion.  While nothing dies, a deleted job has a request that will    *)
(* tell of it, a delete message, or no files and no worker that stores any.*)
(***************************************************************************)
Clean(j) == blobs[j] \cap Kinds = {} /\ \A w \in Workers : pc[w] = "convert" => task[w].job # j

Told(j) == \E c \in Callers : call[c].at = "tell" /\ call[c].job = j

Condemned(j) == \E m \in Messages : mail[m] # NoMail /\ mail[m].job = j /\ mail[m].action = "delete"

Purged == faults = 0 => \A j \in Jobs : row[j].status = "deleted" => Told(j) \/ Condemned(j) \/ Clean(j)

\* Who holds a delete message purges first and acknowledges then, and nobody converts its job:
\* whoever received it held the slot, and the job is out of sight since.
Held ==
    \A w \in Workers : pc[w] \in Working /\ Holds(w) =>
        /\ pc[w] \notin {"purge", "ack"} => mail[task[w].msg].action = "convert"
        /\ mail[task[w].msg].action = "delete" =>
              \A v \in Workers : pc[v] = "convert" => task[v].job # task[w].job
        /\ pc[w] = "ack" /\ mail[task[w].msg].action = "delete" => blobs[task[w].job] \cap Kinds = {}

\* Only a worker that converts stores files of a job out of sight.
LEMMA FilesFrom ==
    ASSUME Typed, [Next]_vars, NEW j \in Jobs, ~Visible(j),
           \A w \in Workers : pc[w] = "convert" => task[w].job # j
    PROVE  blobs'[j] \cap Kinds \subseteq blobs[j]
<1> USE DEF Typed, TypeOK, Kinds
<1>1. ASSUME blobs' = blobs PROVE blobs'[j] \cap Kinds \subseteq blobs[j]
  BY <1>1
<1>2. ASSUME NEW w \in Workers, WorkerStep(w) PROVE blobs'[j] \cap Kinds \subseteq blobs[j]
  <2>1. CASE StoreCheckpoint(w) \/ StoreResults(w) \/ Purge(w)
    BY <2>1 DEF StoreCheckpoint, StoreResults, Purge
  <2>2. CASE ~(StoreCheckpoint(w) \/ StoreResults(w) \/ Purge(w))
    <3>1. blobs' = blobs
      BY <1>2, <2>2 DEF WorkerStep, Start, Receive, ReceiveNothing, ClaimUnwanted, ClaimTaken,
         ClaimSpent, Claim, Check, Renew, Extend, Prolong, Complete, ConversionFails, ReportFailure,
         Ack, Release, Abandon, Die
    <3> QED BY <1>1, <3>1
  <2> QED BY <2>1, <2>2
<1>3. ASSUME NEW c \in Callers, CallStep(c) PROVE blobs'[j] \cap Kinds \subseteq blobs[j]
  <2>1. ASSUME NEW i \in Jobs, CompleteUpload(c, i) PROVE blobs'[j] \cap Kinds \subseteq blobs[j]
    <3>1. i # j /\ (blobs' = blobs \/ blobs' = [blobs EXCEPT ![i] = (@ \ {"empty"}) \cup {"source"}])
      BY <2>1 DEF CompleteUpload
    <3> QED BY <1>1, <3>1
  <2>2. CASE Place(c)
    BY <2>2 DEF Place, Pointers
  <2>3. CASE ~(Place(c) \/ \E i \in Jobs : CompleteUpload(c, i))
    <3>1. blobs' = blobs
      BY <1>3, <2>3 DEF CallStep, Create, Retry, Repair, Delete, Dispatch, Send, Mark, Tell, CallFails
    <3> QED BY <1>1, <3>1
  <2> QED BY <2>1, <2>2, <2>3
<1>4. CASE TimeStep \/ UNCHANGED vars
  <2>1. blobs' = blobs
    BY <1>4 DEF TimeStep, Expire, LeaseLapse, Reappear, SlotLapse, vars
  <2> QED BY <1>1, <2>1
<1> QED BY <1>2, <1>3, <1>4 DEF Next

\* Where a worker that converts, or that goes on after a purge, comes from.
LEMMA PlacesFrom ==
    ASSUME Typed, [Next]_vars, NEW w \in Workers
    PROVE  /\ pc'[w] = "convert" =>
                \/ pc[w] = "convert" /\ task'[w] = task[w]
                \/ Visible(task[w].job) /\ task'[w].job = task[w].job
           /\ pc[w] \in {"purge", "ack"} /\ pc'[w] \in Working => pc'[w] \in {"purge", "ack"}
           /\ pc[w] = "purge" /\ pc'[w] = "ack" => Purge(w)
<1>0. pc \in [Workers -> Places] /\ task \in [Workers -> Task]
  BY DEF Typed, TypeOK
<1> DEFINE Goal == /\ pc'[w] = "convert" =>
                        \/ pc[w] = "convert" /\ task'[w] = task[w]
                        \/ Visible(task[w].job) /\ task'[w].job = task[w].job
                   /\ pc[w] \in {"purge", "ack"} /\ pc'[w] \in Working => pc'[w] \in {"purge", "ack"}
                   /\ pc[w] = "purge" /\ pc'[w] = "ack" => Purge(w)
<1>1. CASE pc'[w] = pc[w] /\ task'[w] = task[w]
  BY <1>1
<1>2. ASSUME NEW v \in Workers, WorkerStep(v), v # w PROVE Goal
  <2>1. pc'[w] = pc[w] /\ task'[w] = task[w]
    BY <1>0, <1>2 DEF WorkerStep, Start, Receive, ReceiveNothing, ClaimUnwanted, ClaimTaken,
       ClaimSpent, Claim, Check, Renew, Extend, Prolong, StoreCheckpoint, StoreResults, Complete,
       ConversionFails, ReportFailure, Purge, Ack, Release, Abandon, Die, Refused, Moves, workers
  <2> QED BY <1>1, <2>1
<1>3. CASE Claim(w)
  <2>1. pc'[w] = "convert" /\ pc[w] = "claim" /\ Visible(task[w].job)
    BY <1>0, <1>3 DEF Claim, Moves, Wanted
  <2>2. task' = [task EXCEPT ![w].run = NextRun(task[w].job)]
    BY <1>3 DEF Claim
  <2>3. task'[w].job = task[w].job
    BY <1>0, <2>2 DEF Task
  <2> QED BY <2>1, <2>3
<1>4. CASE Prolong(w)
  <2>1. task' = task /\ pc[w] = "prolong" /\ (pc'[w] = "convert" => Visible(task[w].job))
    BY <1>0, <1>4 DEF Prolong, Refused, Accepted, Moves, workers
  <2> QED BY <2>1
<1>5. CASE WorkerStep(w) /\ ~Claim(w) /\ ~Prolong(w)
  BY <1>0, <1>5 DEF WorkerStep, Start, Receive, ReceiveNothing, ClaimUnwanted, ClaimTaken,
     ClaimSpent, Check, Renew, Extend, StoreCheckpoint, StoreResults, Complete,
     ConversionFails, ReportFailure, Purge, Ack, Release, Abandon, Die, Refused, Moves, workers,
     Destination, Working
<1>6. CASE ~\E v \in Workers : WorkerStep(v)
  <2>1. UNCHANGED <<pc, task>>
    BY <1>6 DEF Next, CallStep, Create, CompleteUpload, Retry, Repair, Delete, Place, Dispatch,
       Send, Mark, Tell, CallFails, TimeStep, Expire, LeaseLapse, Reappear, SlotLapse, workers, vars
  <2> QED BY <1>1, <2>1
<1> QED BY <1>2, <1>3, <1>4, <1>5, <1>6

\* A worker that still holds its message after a step held it before.
LEMMA StillHeld ==
    ASSUME Typed, [Next]_vars, NEW w \in Workers, SameTask(w), Holds(w)'
    PROVE  Holds(w) /\ mail'[task'[w].msg].action = mail[task[w].msg].action
<1>0. MailStep /\ task[w].msg \in Messages /\ task'[w].msg = task[w].msg
  BY MailSteps, PointersTyped DEF SameTask
<1> PICK m \in Messages : m = task[w].msg
  BY <1>0
<1>1. mail'[m] # NoMail /\ mail'[m].receipt = w
  BY <1>0 DEF Holds
<1>2. ASSUME NEW v \in Workers, Receive(v, m), mail'[m].receipt = v PROVE FALSE
  BY <1>1, <1>2 DEF Receive, SameTask, Working
<1>3. ASSUME NEW c \in Callers, NEW a \in {"convert", "delete"}, NewMail(m, c, a) PROVE FALSE
  BY <1>1, <1>3, NoneAssumption DEF NewMail
<1>4. mail[m] # NoMail /\ mail[m].receipt = w /\ mail'[m].action = mail[m].action
  BY <1>0, <1>1, <1>2, <1>3 DEF MailStep, SameMail
<1> QED BY <1>0, <1>4 DEF Holds

\* Delete messages are answered by a purge, after which nothing is stored.
LEMMA HeldStep == SInv /\ Held /\ Typed' /\ [Next]_vars => Held'
<1> SUFFICES ASSUME SInv, Held, Typed', [Next]_vars, NEW w \in Workers, pc'[w] \in Working, Holds(w)'
             PROVE  /\ pc'[w] \notin {"purge", "ack"} => mail'[task'[w].msg].action = "convert"
                    /\ mail'[task'[w].msg].action = "delete" =>
                          \A v \in Workers : pc'[v] = "convert" => task'[v].job # task'[w].job
                    /\ pc'[w] = "ack" /\ mail'[task'[w].msg].action = "delete" =>
                          blobs'[task'[w].job] \cap Kinds = {}
  BY DEF Held
<1>0. Typed /\ Posted /\ Tasked /\ MailStep /\ TaskStep /\ SlotHeld
  BY MailSteps, TaskSteps DEF SInv, IInv
<1>1. ASSUME NEW m \in Messages, Receive(w, m), Handed(w, m)
      PROVE  /\ pc'[w] = "purge" \/ (pc'[w] = "claim" /\ mail'[task'[w].msg].action = "convert")
             /\ \A v \in Workers : pc'[v] # "convert"
  <2>0. \A v \in Workers : pc'[v] # "convert"
    <3>1. pc[w] = "receive" /\ pc' = [pc EXCEPT ![w] = Destination(m)]
      BY <1>1 DEF Receive, Moves
    <3>2. \A v \in Workers : pc[v] # "convert"
      BY <1>0, <3>1 DEF SlotHeld, Loose
    <3> QED BY <1>0, <3>1, <3>2 DEF Typed, TypeOK, Destination
  <2>1. mail[m].action \in {"convert", "delete"}
    BY <1>0, <1>1, MailFields DEF Typed, TypeOK, Handed
  <2>2. task'[w].msg = m /\ mail'[m] # NoMail
    BY <1>1 DEF Handed, Holds
  <2>3. mail' = [mail EXCEPT ![m].hidden = TRUE, ![m].receipt = w] /\ mail[m] \in Mail
    BY <1>0, <1>1 DEF Receive, Handed, Typed, TypeOK
  <2>4. mail'[m].action = mail[m].action
    BY <1>0, <2>3 DEF Typed, TypeOK, Mail
  <2>5. CASE mail[m].action = "delete"
    BY <1>1, <2>0, <2>5 DEF Handed
  <2>6. CASE mail[m].action = "convert"
    <3>1. pc'[w] = "claim"
      BY <1>1, <2>6 DEF Handed
    <3>2. mail'[task'[w].msg].action = "convert"
      BY <2>2, <2>4, <2>6
    <3> QED BY <2>0, <3>1, <3>2
  <2> QED BY <2>0, <2>1, <2>5, <2>6
<1>2. CASE SameTask(w)
  <2>0. task[w].job \in Jobs /\ task'[w].job = task[w].job /\ pc[w] \in Working
    BY <1>0, <1>2, PointersTyped DEF SameTask
  <2> PICK j \in Jobs : j = task[w].job
    BY <2>0
  <2>1. Holds(w) /\ mail'[task'[w].msg].action = mail[task[w].msg].action
    BY <1>0, <1>2, StillHeld
  <2>2. pc'[w] \notin {"purge", "ack"} => mail'[task'[w].msg].action = "convert"
    BY <1>0, <2>0, <2>1, PlacesFrom DEF Held
  <2>4. ASSUME mail[task[w].msg].action = "delete"
        PROVE  /\ ~Visible(j)
               /\ \A v \in Workers : pc[v] = "convert" => task[v].job # j
               /\ \A v \in Workers : pc'[v] = "convert" => task'[v].job # j
    <3>1. ~Visible(j)
      BY <1>0, <2>0, <2>1, <2>4, PointersTyped DEF Posted, Tasked, Holds
    <3>2. \A v \in Workers : pc[v] = "convert" => task[v].job # j
      BY <2>0, <2>1, <2>4 DEF Held
    <3>3. ASSUME NEW v \in Workers, pc'[v] = "convert" PROVE task'[v].job # j
      BY <1>0, <3>1, <3>2, <3>3, PlacesFrom
    <3> QED BY <3>1, <3>2, <3>3
  <2>3. ASSUME pc'[w] = "ack", mail[task[w].msg].action = "delete"
        PROVE  blobs'[j] \cap Kinds = {}
    <3>1. pc[w] \in {"purge", "ack"}
      BY <2>0, <2>1, <2>3 DEF Held
    <3>2. CASE pc[w] = "purge"
      <4>1. Purge(w)
        BY <1>0, <2>3, <3>2, PlacesFrom
      <4> QED BY <1>0, <4>1 DEF Purge, Typed, TypeOK
    <3>3. CASE pc[w] = "ack"
      <4>1. blobs[j] \cap Kinds = {}
        BY <2>0, <2>1, <2>3, <3>3 DEF Held
      <4> QED BY <1>0, <2>3, <2>4, <4>1, FilesFrom
    <3> QED BY <3>1, <3>2, <3>3
  <2> QED BY <2>0, <2>1, <2>2, <2>3, <2>4
<1> QED BY <1>0, <1>1, <1>2 DEF TaskStep

\* A request that will tell of a deletion does, or fails.
LEMMA TellSteps ==
    ASSUME Typed, [Next]_vars, NEW c \in Callers, call[c].at = "tell"
    PROVE  call'[c] = call[c] \/ Tell(c) \/ faults' = faults + 1
<1>0. call \in [Callers -> Call]
  BY DEF Typed, TypeOK
<1>1. ASSUME NEW d \in Callers, CallStep(d), d # c PROVE call'[c] = call[c]
  BY <1>0, <1>1 DEF CallStep, Create, CompleteUpload, Retry, Repair, Delete, Place, Dispatch, Send,
     Mark, Tell, CallFails, Serves, Returns, Goes
<1>2. CASE CallStep(c)
  BY <1>2 DEF CallStep, Create, CompleteUpload, Retry, Repair, Delete, Place, Dispatch, Send,
     Mark, CallFails
<1>3. CASE ~\E d \in Callers : CallStep(d)
  <2>1. call' = call
    BY <1>3 DEF Next, WorkerStep, Start, Receive, ReceiveNothing, ClaimUnwanted, ClaimTaken,
       ClaimSpent, Claim, Check, Renew, Extend, Prolong, StoreCheckpoint, StoreResults, Complete,
       ConversionFails, ReportFailure, Purge, Ack, Release, Abandon, Die, TimeStep, Expire,
       LeaseLapse, Reappear, SlotLapse, vars
  <2> QED BY <2>1
<1> QED BY <1>1, <1>2, <1>3

\* Faults are only counted up.
LEMMA FaultsCount == Typed /\ [Next]_vars => faults \in Nat /\ (faults' = faults \/ faults' = faults + 1)
<1> SUFFICES ASSUME Typed, [Next]_vars PROVE faults \in Nat /\ (faults' = faults \/ faults' = faults + 1)
  OBVIOUS
<1>1. faults \in Nat
  BY LimitAssumption DEF Typed, TypeOK
<1>2. faults' = faults \/ faults' = faults + 1
  BY DEF Next, WorkerStep, Start, Receive, ReceiveNothing, ClaimUnwanted, ClaimTaken,
     ClaimSpent, Claim, Check, Renew, Extend, Prolong, StoreCheckpoint, StoreResults, Complete,
     ConversionFails, ReportFailure, Purge, Ack, Release, Abandon, Die, CallStep, Create,
     CompleteUpload, Retry, Repair, Delete, Place, Dispatch, Send, Mark, Tell, CallFails,
     TimeStep, Expire, LeaseLapse, Reappear, SlotLapse, vars
<1> QED BY <1>1, <1>2

\* Every step keeps a deleted job told of, condemned or clean.
LEMMA PurgedStep == SInv /\ Shown /\ Held /\ Purged /\ Typed' /\ [Next]_vars => Purged'
<1> SUFFICES ASSUME SInv, Shown, Held, Purged, Typed', [Next]_vars, faults' = 0,
                    NEW j \in Jobs, row'[j].status = "deleted"
             PROVE  Told(j)' \/ Condemned(j)' \/ Clean(j)'
  BY DEF Purged
<1>0. Typed /\ Tasked /\ SlotHeld /\ MailStep
  BY MailSteps DEF SInv, IInv
<1>1. faults = 0 /\ faults' # faults + 1
  BY <1>0, FaultsCount
<1>2. ASSUME NEW c \in Callers, Delete(c, j) PROVE Told(j)'
  BY <1>0, <1>2 DEF Delete, Serves, Told, Typed, TypeOK
<1>3. CASE row[j].status # "deleted"
  BY <1>0, <1>2, <1>3, RowSteps DEF RowMove, RowAt
<1>4. CASE row[j].status = "deleted" /\ Told(j)
  <2>1. PICK c \in Callers : call[c].at = "tell" /\ call[c].job = j
    BY <1>4 DEF Told
  <2>2. CASE call'[c] = call[c]
    BY <2>1, <2>2 DEF Told
  <2>3. CASE Tell(c)
    <3>1. PICK m \in Messages : mail' = [mail EXCEPT ![m] = [job |-> j, generation |-> call[c].generation,
                                          action |-> "delete", hidden |-> FALSE, receipt |-> None]]
      BY <2>1, <2>3 DEF Tell, Posts
    <3>2. call[c].generation \in Nat
      BY <1>0 DEF Typed, TypeOK, Call
    <3>3. mail'[m] # NoMail /\ mail'[m].job = j /\ mail'[m].action = "delete"
      BY <1>0, <3>1, <3>2, MailPosted DEF Typed, TypeOK
    <3> QED BY <3>3 DEF Condemned
  <2> QED BY <1>0, <1>1, <2>1, <2>2, <2>3, TellSteps
<1>5. CASE row[j].status = "deleted" /\ Condemned(j)
  <2>1. PICK m \in Messages : mail[m] # NoMail /\ mail[m].job = j /\ mail[m].action = "delete"
    BY <1>5 DEF Condemned
  <2>2. ASSUME NEW w \in Workers, Ack(w), Holds(w), task[w].msg = m PROVE Clean(j)'
    <3>1. pc[w] = "ack" /\ task[w].job = j /\ blobs' = blobs
      BY <1>0, <2>1, <2>2 DEF Ack, Tasked, Working
    <3>2. blobs[j] \cap Kinds = {}
      BY <2>1, <2>2, <3>1 DEF Held, Working
    <3>3. \A v \in Workers : pc'[v] = "convert" => task'[v].job # j
      <4>1. \A v \in Workers : pc[v] = "convert" => task[v].job # j
        BY <2>1, <2>2, <3>1 DEF Held, Working
      <4>2. task' = task /\ pc' = [pc EXCEPT ![w] = "release"]
        BY <2>2 DEF Ack, Moves
      <4> QED BY <1>0, <4>1, <4>2 DEF Typed, TypeOK
    <3> QED BY <3>1, <3>2, <3>3 DEF Clean
  <2>3. mail'[m] = mail[m] \/ SameMail(m) => Condemned(j)'
    BY <2>1 DEF SameMail, Condemned
  <2> QED BY <1>0, <2>1, <2>2, <2>3 DEF MailStep, NewMail
<1>6. CASE row[j].status = "deleted" /\ Clean(j)
  <2>1. ~Visible(j)
    BY <1>6 DEF Shown, Visible
  <2>2. blobs'[j] \cap Kinds = {}
    BY <1>0, <1>6, <2>1, FilesFrom DEF Clean
  <2>3. ASSUME NEW w \in Workers, pc'[w] = "convert" PROVE task'[w].job # j
    BY <1>0, <1>6, <2>1, <2>3, PlacesFrom DEF Clean
  <2> QED BY <2>2, <2>3 DEF Clean
<1> QED BY <1>1, <1>3, <1>4, <1>5, <1>6 DEF Purged

\* Until a call or an execution fails, a deleted document is never left behind: whatever
\* a worker stores after the deletion, a delete message is still to be answered.
THEOREM DeletionReaches == ASSUME ~Stalls PROVE Spec => []DeletedIsPurged
<1>1. Init => Shown /\ Held /\ Purged
  BY DEF Init, NoRow, Shown, Held, Purged, Working
<1>2. SInv /\ SInv' /\ Shown /\ Held /\ Purged /\ [Next]_vars => (Shown /\ Held /\ Purged)'
  BY ShownStep, HeldStep, PurgedStep DEF SInv, IInv
<1>3. Purged => DeletedIsPurged
  BY DEF Purged, DeletedIsPurged, Told, Condemned, Clean, Kinds
<1> QED BY <1>1, <1>2, <1>3, SafeInvariance, PTL DEF Spec
=============================================================================
