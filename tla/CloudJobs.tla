------------------------------ MODULE CloudJobs ------------------------------
(***************************************************************************)
(* The scale-to-zero variant: cloud_store.py and cloud_job.py.             *)
(*                                                                         *)
(* API calls and worker executions share three things of Azure storage: a  *)
(* catalogue blob with one row per job, changed only inside                *)
(* CloudStore.transaction() (one step here: module LeasedCatalog says      *)
(* why), a queue that delivers a message again when its visibility         *)
(* timeout passes, and the blobs of the jobs.  A worker execution handles  *)
(* one message and exits.  Three time limits protect it, all renewed by    *)
(* its heartbeat: the lease of the worker slot (60 s), the visibility      *)
(* timeout of its message (90 s) and lease_until of its row (90 s).        *)
(***************************************************************************)
EXTENDS Naturals, FiniteSets

CONSTANTS
    Jobs,         \* job ids
    Owners,       \* browser sessions
    OwnerOf,      \* the session that creates a job
    Callers,      \* API requests being served
    Workers,      \* executions of the conversion job
    Messages,     \* bound: messages in the queue at one time
    None,         \* no job, no worker, no message
    MaxActive,    \* MAX_ACTIVE_JOBS
    PerSession,   \* JOBS_PER_SESSION
    DailyLimit,   \* DAILY_CONVERSION_LIMIT, for requests and for executions
    MaxAttempts,  \* executions one job may take: 3
    MaxFaults,    \* bound: calls that fail and executions that die or give up
    Stalls        \* may a living worker stall until its time limits pass?

ASSUME LimitAssumption ==
    /\ MaxActive \in Nat \ {0}
    /\ PerSession \in Nat \ {0}
    /\ DailyLimit \in Nat \ {0}
    /\ MaxAttempts \in Nat \ {0}
    /\ MaxFaults \in Nat
ASSUME SwitchAssumption == Stalls \in BOOLEAN
ASSUME SessionAssumption == OwnerOf \in [Jobs -> Owners]
ASSUME NoneAssumption == None \notin Jobs \cup Workers \cup Messages
ASSUME FiniteAssumption == IsFiniteSet(Jobs)

VARIABLES
    row,         \* the catalogue's jobs
    requests,    \* entries of the catalogue's "requests" within a day
    executions,  \* entries of its "executions" within a day
    mail,        \* the queue
    slot,        \* who holds the lease of the blob worker-slot
    blobs,       \* what is stored for a job
    call,        \* each API request: where it is and what it read
    pc, task,    \* each worker: where it is and what it received
    faults

vars == <<row, requests, executions, mail, slot, blobs, call, pc, task, faults>>

Statuses == {"none", "uploading", "dispatching", "queued", "processing",
             "completed", "failed", "deleted"}

\* ACTIVE
ActiveStates == {"uploading", "dispatching", "queued", "processing"}

\* What a message can still start.
Claimable == {"dispatching", "queued", "processing"}

\* run stands for run_id: claim() draws a fresh token, here the number of the
\* attempt.  leased is lease_until > now.  A row that expired is told by no
\* operation from one the transaction has pruned.  source_ready is left out: it
\* is set with the first "dispatching" and every failed job has been there.
Row == [status: Statuses, expired: BOOLEAN, generation: Nat, attempts: Nat,
        run: Nat, leased: BOOLEAN]

NoRow == [status |-> "none", expired |-> FALSE, generation |-> 0, attempts |-> 0,
          run |-> 0, leased |-> FALSE]

\* receipt is the worker whose pop receipt is the valid one.
Mail == [job: Jobs, generation: Nat, action: {"convert", "delete"},
         hidden: BOOLEAN, receipt: Workers \cup {None}]
NoMail == [job |-> None]

Call == [at: {"idle", "place", "dispatch", "send", "mark", "tell"},
         job: Jobs \cup {None}, generation: Nat]
Resting == [at |-> "idle", job |-> None, generation |-> 0]

Task == [msg: Messages \cup {None}, job: Jobs \cup {None}, generation: Nat, run: Nat]
NoTask == [msg |-> None, job |-> None, generation |-> 0, run |-> 0]

Places == {"off", "receive", "claim", "convert", "renew", "extend", "prolong",
           "complete", "fail", "purge", "ack", "release"}

Files == {"empty", "source", "pages", "book"}

TypeOK ==
    /\ row \in [Jobs -> Row]
    /\ requests \in 0..DailyLimit
    /\ executions \in 0..DailyLimit
    /\ mail \in [Messages -> Mail \cup {NoMail}]
    /\ slot \in Workers \cup {None}
    /\ blobs \in [Jobs -> SUBSET Files]
    /\ call \in [Callers -> Call]
    /\ pc \in [Workers -> Places]
    /\ task \in [Workers -> Task]
    /\ faults \in 0..MaxFaults

Init ==
    /\ row = [j \in Jobs |-> NoRow]
    /\ requests = 0
    /\ executions = 0
    /\ mail = [m \in Messages |-> NoMail]
    /\ slot = None
    /\ blobs = [j \in Jobs |-> {}]
    /\ call = [c \in Callers |-> Resting]
    /\ pc = [w \in Workers |-> "off"]
    /\ task = [w \in Workers |-> NoTask]
    /\ faults = 0

-----------------------------------------------------------------------------
(* The API: CloudStore's methods as cloud_api.py calls them.               *)

catalogue == <<row, requests, executions>>
workers == <<pc, task, slot>>

Visible(j) == row[j].status # "none" /\ ~row[j].expired

Live(S) == {j \in Jobs : Visible(j) /\ row[j].status \in S}

\* quota(): also a retry is refused while too many jobs are being made.  The
\* limit by address has the form of the daily one and is left out.
HasAllowance ==
    /\ Cardinality(Live(ActiveStates)) < MaxActive
    /\ requests < DailyLimit

HasSessionAllowance(o) ==
    Cardinality({j \in Live(Statuses) : OwnerOf[j] = o}) < PerSession

Goes(c, at) == call' = [call EXCEPT ![c].at = at]
Returns(c) == call' = [call EXCEPT ![c] = Resting]
Serves(c, j, at) == call' = [call EXCEPT ![c] = [at |-> at, job |-> j, generation |-> row[j].generation]]

\* The row is in the catalogue before the empty blob is stored.
Create(c, j) ==
    /\ call[c].at = "idle"
    /\ row[j].status = "none"
    /\ HasAllowance
    /\ HasSessionAllowance(OwnerOf[j])
    /\ row' = [row EXCEPT ![j].status = "uploading"]
    /\ requests' = requests + 1
    /\ Serves(c, j, "place")
    /\ UNCHANGED <<executions, mail, blobs, workers, faults>>

Place(c) ==
    /\ call[c].at = "place"
    /\ blobs' = [blobs EXCEPT ![call[c].job] = IF "source" \in @ THEN @ ELSE @ \cup {"empty"}]
    /\ Returns(c)
    /\ UNCHANGED <<catalogue, mail, workers, faults>>

\* All chunks are there (chunk() is not modelled here).  Asking again is harmless.
CompleteUpload(c, j) ==
    /\ call[c].at = "idle"
    /\ Visible(j)
    /\ \/ /\ row[j].status = "uploading"
          /\ blobs' = [blobs EXCEPT ![j] = (@ \ {"empty"}) \cup {"source"}]
          /\ row' = [row EXCEPT ![j].status = "dispatching"]
       \/ /\ row[j].status \in Claimable \cup {"completed"}
          /\ UNCHANGED <<blobs, row>>
    /\ Serves(c, j, "dispatch")
    /\ UNCHANGED <<requests, executions, mail, workers, faults>>

\* Mutated form: retries are not limited.
RetryForever(c, j) ==
    /\ call[c].at = "idle"
    /\ Visible(j)
    /\ row[j].status = "failed"
    /\ HasAllowance
    /\ row' = [row EXCEPT ![j].status = "dispatching", ![j].generation = @ + 1]
    /\ requests' = requests + 1
    /\ Serves(c, j, "dispatch")
    /\ UNCHANGED <<executions, mail, blobs, workers, faults>>

Retry(c, j) ==
    /\ call[c].at = "idle"
    /\ Visible(j)
    /\ row[j].status = "failed"
    /\ row[j].attempts < MaxAttempts
    /\ HasAllowance
    /\ row' = [row EXCEPT ![j].status = "dispatching", ![j].generation = @ + 1]
    /\ requests' = requests + 1
    /\ Serves(c, j, "dispatch")
    /\ UNCHANGED <<executions, mail, blobs, workers, faults>>

\* Mutated form: the sent jobs are repaired instead of the unsent ones.
RepairSent(c, j) ==
    /\ call[c].at = "idle"
    /\ Visible(j)
    /\ row[j].status = "queued"
    /\ Serves(c, j, "dispatch")
    /\ UNCHANGED <<catalogue, mail, blobs, workers, faults>>

\* repair_dispatches(): whoever lists the jobs sends what a failed call did not.
Repair(c, j) ==
    /\ call[c].at = "idle"
    /\ Visible(j)
    /\ row[j].status = "dispatching"
    /\ Serves(c, j, "dispatch")
    /\ UNCHANGED <<catalogue, mail, blobs, workers, faults>>

\* dispatch() reads the row, sends, and marks the row if it is still as read.
Dispatch(c) ==
    /\ call[c].at = "dispatch"
    /\ LET j == call[c].job IN
       IF Visible(j) /\ row[j].status = "dispatching"
       THEN Serves(c, j, "send")
       ELSE Returns(c)
    /\ UNCHANGED <<catalogue, mail, blobs, workers, faults>>

Posts(c, action) ==
    \E m \in Messages :
        /\ mail[m] = NoMail
        /\ mail' = [mail EXCEPT ![m] =
              [job |-> call[c].job, generation |-> call[c].generation,
               action |-> action, hidden |-> FALSE, receipt |-> None]]

Send(c) ==
    /\ call[c].at = "send"
    /\ Posts(c, "convert")
    /\ Goes(c, "mark")
    /\ UNCHANGED <<catalogue, blobs, workers, faults>>

\* Mutated form: the row is not looked at again.
StillAsReadAlways(c) == TRUE

StillAsRead(c) ==
    /\ row[call[c].job].status = "dispatching"
    /\ row[call[c].job].generation = call[c].generation

Mark(c) ==
    /\ call[c].at = "mark"
    /\ row' = IF StillAsRead(c) THEN [row EXCEPT ![call[c].job].status = "queued"] ELSE row
    /\ Returns(c)
    /\ UNCHANGED <<requests, executions, mail, blobs, workers, faults>>

\* A deleted job is out of sight at once; its blobs wait for a worker.
Delete(c, j) ==
    /\ call[c].at = "idle"
    /\ Visible(j)
    /\ row' = [row EXCEPT ![j].status = "deleted", ![j].expired = TRUE]
    /\ Serves(c, j, "tell")
    /\ UNCHANGED <<requests, executions, mail, blobs, workers, faults>>

Tell(c) ==
    /\ call[c].at = "tell"
    /\ Posts(c, "delete")
    /\ Returns(c)
    /\ UNCHANGED <<catalogue, blobs, workers, faults>>

\* The process stops, storage fails, or the catalogue stays busy (503).
CallFails(c) ==
    /\ call[c].at # "idle"
    /\ faults < MaxFaults
    /\ faults' = faults + 1
    /\ Returns(c)
    /\ UNCHANGED <<catalogue, mail, blobs, workers>>

-----------------------------------------------------------------------------
(* A worker execution: run_once(), process_one(), execute().               *)

Moves(w, place) == pc' = [pc EXCEPT ![w] = place]

\* Mutated form: an execution does not ask for the slot.
StartAnyway(w) ==
    /\ pc[w] = "off"
    /\ slot' = w
    /\ Moves(w, "receive")
    /\ UNCHANGED <<catalogue, mail, blobs, call, task, faults>>

\* Without the slot an execution exits at once.
Start(w) ==
    /\ pc[w] = "off"
    /\ slot = None
    /\ slot' = w
    /\ Moves(w, "receive")
    /\ UNCHANGED <<catalogue, mail, blobs, call, task, faults>>

Waiting(m) == mail[m] # NoMail /\ ~mail[m].hidden

\* Mutated form: the message's action is not looked at.
DestinationClaim(m) == "claim"

Destination(m) == IF mail[m].action = "delete" THEN "purge" ELSE "claim"

Receive(w, m) ==
    /\ pc[w] = "receive"
    /\ Waiting(m)
    /\ mail' = [mail EXCEPT ![m].hidden = TRUE, ![m].receipt = w]
    /\ task' = [task EXCEPT ![w] = [msg |-> m, job |-> mail[m].job,
                                    generation |-> mail[m].generation, run |-> 0]]
    /\ Moves(w, Destination(m))
    /\ UNCHANGED <<catalogue, slot, blobs, call, faults>>

ReceiveNothing(w) ==
    /\ pc[w] = "receive"
    /\ \A m \in Messages : ~Waiting(m)
    /\ Moves(w, "release")
    /\ UNCHANGED <<catalogue, mail, slot, blobs, call, task, faults>>

\* claim(): the message is about what the row asks for now.
Wanted(w) ==
    LET j == task[w].job IN
    /\ Visible(j)
    /\ row[j].generation = task[w].generation
    /\ row[j].status \in Claimable

Spent(j) == row[j].attempts >= MaxAttempts \/ executions >= DailyLimit

NextRun(j) == row[j].attempts + 1

\* The message is answered already: it is deleted.
ClaimUnwanted(w) ==
    /\ pc[w] = "claim"
    /\ ~Wanted(w)
    /\ Moves(w, "ack")
    /\ UNCHANGED <<catalogue, mail, slot, blobs, call, task, faults>>

\* Mutated form: a message of a job that has a worker is deleted.
ClaimTakenDrops(w) ==
    /\ pc[w] = "claim"
    /\ Wanted(w)
    /\ row[task[w].job].leased
    /\ Moves(w, "ack")
    /\ UNCHANGED <<catalogue, mail, slot, blobs, call, task, faults>>

\* "This job already has a worker": the message stays and comes again.
ClaimTaken(w) ==
    /\ pc[w] = "claim"
    /\ Wanted(w)
    /\ row[task[w].job].leased
    /\ Moves(w, "release")
    /\ UNCHANGED <<catalogue, mail, slot, blobs, call, task, faults>>

ClaimSpent(w) ==
    /\ pc[w] = "claim"
    /\ Wanted(w)
    /\ LET j == task[w].job IN
       /\ ~row[j].leased
       /\ Spent(j)
       /\ row' = [row EXCEPT ![j].status = "failed"]
    /\ Moves(w, "ack")
    /\ UNCHANGED <<requests, executions, mail, slot, blobs, call, task, faults>>

\* Mutated form: the attempt is not counted.
ClaimUncounted(w) ==
    /\ pc[w] = "claim"
    /\ Wanted(w)
    /\ LET j == task[w].job IN
       /\ ~row[j].leased
       /\ ~Spent(j)
       /\ row' = [row EXCEPT ![j].status = "processing", ![j].run = NextRun(j), ![j].leased = TRUE]
       /\ task' = [task EXCEPT ![w].run = NextRun(j)]
    /\ executions' = executions + 1
    /\ Moves(w, "convert")
    /\ UNCHANGED <<requests, mail, slot, blobs, call, faults>>

Claim(w) ==
    /\ pc[w] = "claim"
    /\ Wanted(w)
    /\ LET j == task[w].job IN
       /\ ~row[j].leased
       /\ ~Spent(j)
       /\ row' = [row EXCEPT ![j].status = "processing", ![j].attempts = @ + 1,
                             ![j].run = NextRun(j), ![j].leased = TRUE]
       /\ task' = [task EXCEPT ![w].run = NextRun(j)]
    /\ executions' = executions + 1
    /\ Moves(w, "convert")
    /\ UNCHANGED <<requests, mail, slot, blobs, call, faults>>

\* update_run() and the heartbeat's check refuse any run but the last claimed.
Owns(w) == row[task[w].job].run = task[w].run

\* Where a StoreError takes the worker: 404 purges, 409 leaves everything.
Refused(w) ==
    IF ~Visible(task[w].job) THEN Moves(w, "purge") ELSE ~Owns(w) /\ Moves(w, "release")

Accepted(w) == Visible(task[w].job) /\ Owns(w)

\* The heartbeat: look at the row, renew the slot, the message and the row's lease.
Check(w) ==
    /\ pc[w] = "convert"
    /\ Refused(w) \/ (Accepted(w) /\ Moves(w, "renew"))
    /\ UNCHANGED <<catalogue, mail, slot, blobs, call, task, faults>>

\* A lease that ran out can be renewed unless another held it since.
Renew(w) ==
    /\ pc[w] = "renew"
    /\ \/ /\ slot \in {w, None}
          /\ slot' = w
          /\ Moves(w, "extend")
       \/ /\ slot # w
          /\ UNCHANGED slot
          /\ Moves(w, "release")
    /\ UNCHANGED <<catalogue, mail, blobs, call, task, faults>>

Holds(w) == mail[task[w].msg] # NoMail /\ mail[task[w].msg].receipt = w

Extend(w) ==
    /\ pc[w] = "extend"
    /\ \/ /\ Holds(w)
          /\ mail' = [mail EXCEPT ![task[w].msg].hidden = TRUE]
          /\ Moves(w, "prolong")
       \/ /\ ~Holds(w)
          /\ UNCHANGED mail
          /\ Moves(w, "release")
    /\ UNCHANGED <<catalogue, slot, blobs, call, task, faults>>

Prolong(w) ==
    /\ pc[w] = "prolong"
    /\ \/ /\ Refused(w)
          /\ UNCHANGED row
       \/ /\ Accepted(w)
          /\ row' = [row EXCEPT ![task[w].job].leased = TRUE]
          /\ Moves(w, "convert")
    /\ UNCHANGED <<requests, executions, mail, slot, blobs, call, task, faults>>

\* Page checkpoints and results are stored without asking who owns the job.
StoreCheckpoint(w) ==
    /\ pc[w] = "convert"
    /\ blobs' = [blobs EXCEPT ![task[w].job] = @ \cup {"pages"}]
    /\ UNCHANGED <<catalogue, mail, call, workers, faults>>

StoreResults(w) ==
    /\ pc[w] = "convert"
    /\ blobs' = [blobs EXCEPT ![task[w].job] = @ \cup {"pages", "book"}]
    /\ Moves(w, "complete")
    /\ UNCHANGED <<catalogue, mail, slot, call, task, faults>>

Complete(w) ==
    /\ pc[w] = "complete"
    /\ \/ /\ Refused(w)
          /\ UNCHANGED row
       \/ /\ Accepted(w)
          /\ row' = [row EXCEPT ![task[w].job].status = "completed", ![task[w].job].leased = FALSE]
          /\ Moves(w, "ack")
    /\ UNCHANGED <<requests, executions, mail, slot, blobs, call, task, faults>>

\* Any ValueError: an unreadable book, a limit, the job's deadline.
ConversionFails(w) ==
    /\ pc[w] = "convert"
    /\ Moves(w, "fail")
    /\ UNCHANGED <<catalogue, mail, slot, blobs, call, task, faults>>

\* A refusal here escapes from the except branch: nothing is purged.
ReportFailure(w) ==
    /\ pc[w] = "fail"
    /\ \/ /\ ~Accepted(w)
          /\ UNCHANGED row
          /\ Moves(w, "release")
       \/ /\ Accepted(w)
          /\ row' = [row EXCEPT ![task[w].job].status = "failed", ![task[w].job].leased = FALSE]
          /\ Moves(w, "ack")
    /\ UNCHANGED <<requests, executions, mail, slot, blobs, call, task, faults>>

Purge(w) ==
    /\ pc[w] = "purge"
    /\ blobs' = [blobs EXCEPT ![task[w].job] = {}]
    /\ Moves(w, "ack")
    /\ UNCHANGED <<catalogue, mail, slot, call, task, faults>>

\* delete_message() fails when the message was delivered to another since.
Ack(w) ==
    /\ pc[w] = "ack"
    /\ mail' = IF Holds(w) THEN [mail EXCEPT ![task[w].msg] = NoMail] ELSE mail
    /\ Moves(w, "release")
    /\ UNCHANGED <<catalogue, slot, blobs, call, task, faults>>

Release(w) ==
    /\ pc[w] = "release"
    /\ slot' = IF slot = w THEN None ELSE slot
    /\ Moves(w, "off")
    /\ task' = [task EXCEPT ![w] = NoTask]
    /\ UNCHANGED <<catalogue, mail, blobs, call, faults>>

\* SIGTERM, a storage error, a busy catalogue: the slot is still released.
Abandon(w) ==
    /\ pc[w] \notin {"off", "release"}
    /\ faults < MaxFaults
    /\ faults' = faults + 1
    /\ Moves(w, "release")
    /\ UNCHANGED <<catalogue, mail, slot, blobs, call, task>>

\* The replica is killed (replicaTimeout, out of memory).
Die(w) ==
    /\ pc[w] # "off"
    /\ faults < MaxFaults
    /\ faults' = faults + 1
    /\ Moves(w, "off")
    /\ task' = [task EXCEPT ![w] = NoTask]
    /\ UNCHANGED <<catalogue, mail, slot, blobs, call>>

-----------------------------------------------------------------------------
(* Time.  What a living worker renews passes only if it stalls; while it    *)
(* purges it renews nothing.                                                *)

Working == {"claim", "convert", "renew", "extend", "prolong", "complete", "fail", "purge", "ack"}

Renewing == Working \ {"purge"}

Expire(j) ==
    /\ Visible(j)
    /\ row' = [row EXCEPT ![j].expired = TRUE]
    /\ UNCHANGED <<requests, executions, mail, blobs, call, workers, faults>>

LeaseLapse(j) ==
    /\ row[j].leased
    /\ Stalls \/ \A w \in Workers :
          ~(pc[w] \in Renewing /\ task[w].job = j /\ task[w].run = row[j].run)
    /\ row' = [row EXCEPT ![j].leased = FALSE]
    /\ UNCHANGED <<requests, executions, mail, blobs, call, workers, faults>>

Reappear(m) ==
    /\ mail[m] # NoMail
    /\ mail[m].hidden
    /\ Stalls \/ \A w \in Workers :
          ~(pc[w] \in Renewing /\ task[w].msg = m /\ mail[m].receipt = w)
    /\ mail' = [mail EXCEPT ![m].hidden = FALSE]
    /\ UNCHANGED <<catalogue, blobs, call, workers, faults>>

SlotLapse ==
    /\ slot # None
    /\ Stalls \/ pc[slot] \in {"off", "purge"}
    /\ slot' = None
    /\ UNCHANGED <<catalogue, mail, blobs, call, pc, task, faults>>

-----------------------------------------------------------------------------
CallStep(c) ==
    \/ \E j \in Jobs : Create(c, j) \/ CompleteUpload(c, j) \/ Retry(c, j)
                       \/ Repair(c, j) \/ Delete(c, j)
    \/ Place(c) \/ Dispatch(c) \/ Send(c) \/ Mark(c) \/ Tell(c)
    \/ CallFails(c)

WorkerStep(w) ==
    \/ Start(w) \/ (\E m \in Messages : Receive(w, m)) \/ ReceiveNothing(w)
    \/ ClaimUnwanted(w) \/ ClaimTaken(w) \/ ClaimSpent(w) \/ Claim(w)
    \/ Check(w) \/ Renew(w) \/ Extend(w) \/ Prolong(w)
    \/ StoreCheckpoint(w) \/ StoreResults(w) \/ Complete(w)
    \/ ConversionFails(w) \/ ReportFailure(w)
    \/ Purge(w) \/ Ack(w) \/ Release(w) \/ Abandon(w) \/ Die(w)

TimeStep ==
    \/ \E j \in Jobs : Expire(j) \/ LeaseLapse(j)
    \/ \E m \in Messages : Reappear(m)
    \/ SlotLapse

Next ==
    \/ \E c \in Callers : CallStep(c)
    \/ \E w \in Workers : WorkerStep(w)
    \/ TimeStep

Spec == Init /\ [][Next]_vars

-----------------------------------------------------------------------------
(* Properties.                                                             *)

\* A job that waits for a worker or was interrupted has a message that will bring
\* one: nothing that deletes, resends or repeats messages, and no crash between a
\* send and the row's change, leaves a job queued for ever (cloud_store.py:182-191,
\* cloud_job.py:113-148).
DeliveryKept ==
    \A j \in Jobs : Visible(j) /\ row[j].status \in {"queued", "processing"} =>
        \E m \in Messages :
            /\ mail[m] # NoMail
            /\ mail[m].job = j
            /\ mail[m].action = "convert"
            /\ mail[m].generation = row[j].generation

\* What the owner is told is ready can be downloaded, and what is to be converted
\* is there: no late purge and no worker that lost its job takes a file away.
ResultsThere ==
    \A j \in Jobs : Visible(j) =>
        /\ row[j].status \in Claimable \cup {"completed", "failed"} => "source" \in blobs[j]
        /\ row[j].status = "completed" => {"pages", "book"} \subseteq blobs[j]

\* The executions that claimed a job and have not ended.
Converting == {w \in Workers : pc[w] \in Working \ {"claim", "purge"} /\ task[w].run > 0}

\* However many executions run after time limits passed, at most one of them may
\* still change the job's row (run_id, cloud_store.py:225-230).
OneOwner ==
    \A v, w \in Converting :
        task[v].job = task[w].job /\ Accepted(v) /\ Accepted(w) => v = w

\* A message is deleted only by the execution that answered it for good: the job
\* of a message about to be deleted will not be asked for in that generation again.
AnsweredForGood ==
    \A w \in Workers : pc[w] = "ack" => ~Wanted(w)

\* At most MaxActive jobs are on their way, counting retries (cloud_store.py:117-126).
ActiveBounded == Cardinality(Live(ActiveStates)) <= MaxActive

\* Every execution the daily allowance paid for is an attempt of some job, and no
\* job takes more than its share: crashes and redeliveries cannot run a job for ever.
Attempts == {a \in Jobs \X (1..MaxAttempts) : a[2] <= row[a[1]].attempts}
ExecutionsAccounted ==
    /\ executions = Cardinality(Attempts)
    /\ \A j \in Jobs : row[j].attempts <= MaxAttempts

\* The deployment guide: "A blob lease serializes actual conversion even when the
\* scaler starts duplicate executions."  (One that purged, its job being out of sight, may have
\* lost the slot meanwhile; it converts no more.)
ConversionSerialized ==
    Cardinality({w \in Converting : pc[w] = "ack" => Visible(task[w].job)}) <= 1

\* "completed" and "failed" are where a client stops asking (scripts/smoke-cloud.py):
\* only its owner's retry takes a job out of "failed", nothing out of "completed".
SettledForClients ==
    [][\A j \in Jobs :
          /\ Visible(j) /\ row[j].status = "failed" /\ Visible(j)' =>
                row'[j].status \in {"failed", "dispatching"}
          /\ Visible(j) /\ row[j].status = "completed" /\ Visible(j)' =>
                row'[j].status = "completed"]_vars

\* A deleted job's document does not stay: as long as no call and no execution died,
\* its delete message is about to be sent or not yet answered while any of it is
\* stored, even when a worker stores results after the deletion
\* (cloud_store.py:232-242, cloud_job.py:134-141).
DeletedIsPurged ==
    faults = 0 =>
    \A j \in Jobs :
        row[j].status = "deleted" /\ blobs[j] \cap {"source", "pages", "book"} # {} =>
            \/ \E c \in Callers : call[c].at = "tell" /\ call[c].job = j
            \/ \E m \in Messages : mail[m] # NoMail /\ mail[m].job = j /\ mail[m].action = "delete"

-----------------------------------------------------------------------------
(* Fairness: owners keep listing their jobs (GET /api/jobs), which repairs *)
(* what was not sent; the scaler keeps starting executions while messages  *)
(* are visible; timeouts pass; a call and an execution go on until they    *)
(* end or fail, and a conversion ends before JOB_TIMEOUT_SECONDS.          *)

Attends(w) ==
    \/ ReceiveNothing(w) \/ ClaimUnwanted(w) \/ ClaimTaken(w) \/ ClaimSpent(w) \/ Claim(w)
    \/ Renew(w) \/ Extend(w) \/ Prolong(w) \/ Complete(w) \/ ReportFailure(w)
    \/ Purge(w) \/ Ack(w) \/ Release(w)

Fairness ==
    /\ \A c \in Callers : WF_vars(Place(c) \/ Dispatch(c) \/ Send(c) \/ Mark(c) \/ Tell(c))
    /\ \A j \in Jobs : SF_vars(\E c \in Callers : Repair(c, j)) /\ WF_vars(LeaseLapse(j))
    /\ \A m \in Messages : WF_vars(Reappear(m)) /\ SF_vars(\E w \in Workers : Receive(w, m))
    /\ \A w \in Workers : WF_vars(Attends(w)) /\ SF_vars(StoreResults(w) \/ ConversionFails(w))
    /\ WF_vars(\E w \in Workers : Start(w))
    /\ WF_vars(SlotLapse)

FairSpec == Spec /\ Fairness

\* An upload that was accepted ends: ready, failed with a reason, or out of sight,
\* whatever call or execution fails on the way (cloud_store.py:186, cloud_job.py:143).
AcceptedSettles ==
    \A j \in Jobs : (Visible(j) /\ row[j].status \in Claimable)
                    ~> (~Visible(j) \/ row[j].status \in {"completed", "failed"})

-----------------------------------------------------------------------------
(* What the owner of a job sees, for CloudConversion.                      *)

Phase(j) ==
    CASE row[j].status = "none" -> "none"
      [] row[j].status # "none" /\ row[j].expired -> "gone"
      [] Visible(j) /\ row[j].status \in Claimable -> "converting"
      [] OTHER -> row[j].status

Conversion == INSTANCE CloudConversion WITH
    phase <- [j \in Jobs |-> Phase(j)],
    tries <- [j \in Jobs |-> row[j].attempts]
Promise == Conversion!Spec
=============================================================================
