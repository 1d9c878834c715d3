---------------------------- MODULE JobPipeline ----------------------------
(***************************************************************************)
(* The local conversion pipeline: the course endpoints of app/main.py, the  *)
(* single queue worker of app/worker.py and the per-job subprocess of       *)
(* app/runner.py.  They share two things only, the `jobs' table of SQLite   *)
(* and the folder DATA/<job id>, and any of them may stop between two steps.*)
(*                                                                         *)
(* A step is one transaction, or one group of file operations, of one       *)
(* process.  Time is abstracted: an upload row becomes `stale' (older than  *)
(* 660 s), a job expires, a conversion outlives its deadline.               *)
(***************************************************************************)
EXTENDS Naturals, FiniteSets

CONSTANTS
    Jobs,             \* the ids uuid4 hands out, each used once
    Admins,           \* concurrent administrator requests
    Operations,       \* what they ask: a subset of {"retry", "delete", "edit"}
    Runners,          \* process slots for app.runner
    Nobody,           \* no job / no runner
    Stamps,           \* values of the `created' column
    MaxActive,        \* store.MAX_ACTIVE
    MaxAttempts,      \* the 3 of the retry endpoint
    OrphansSurvive,   \* TRUE: a runner outlives its crashed worker (deploy/start.sh)
    MaxWorkerStops,   \* bound on crashes and SIGTERMs of the worker
    MaxApiStops       \* bound on crashes of the API process

ASSUME BoundsAreNaturals ==
    /\ MaxActive \in Nat \ {0}
    /\ MaxAttempts \in Nat \ {0}
    /\ MaxWorkerStops \in Nat
    /\ MaxApiStops \in Nat
    /\ Stamps \subseteq Nat
ASSUME SwitchIsBoolean == OrphansSurvive \in BOOLEAN
ASSUME OperationsAreKnown == Operations \subseteq {"retry", "delete", "edit"}
ASSUME JobsAreFinite == IsFiniteSet(Jobs)
ASSUME NobodyIsNoOne == Nobody \notin Jobs \cup Runners

VARIABLES
    status,       \* jobs.status, with "absent" before the INSERT and "gone" after the DELETE
    expired,      \* jobs.expires <= now: deleted by an admin, or past its retention
    available,    \* jobs.available
    attempts,     \* jobs.attempts
    created,      \* jobs.created
    stale,        \* jobs.created < now - 660
    source,       \* the folder with source.pdf is there
    partial,      \* book.partial: "none", "whole", or "torn" by a second writer
    book,         \* book.zip, the file students' and admins' requests are served from
    escape,       \* observer: why files may be there that nobody removes any more
    upload,       \* the handler of POST /api/jobs that owns the row
    request,      \* retry, delete and edit handlers between their check and their write
    accepted,     \* observer: the upload was answered 202
    worker,       \* where the worker's loop is
    current,      \* the row it claimed
    child,        \* the subprocess it started
    cancelled,    \* its local `cancelled'
    seen,         \* the status it read back after stopping the subprocess
    stopping,     \* its SIGTERM flag
    sweep,        \* rows cleanup() selected and has not deleted yet
    wiping,       \* the row whose folder cleanup() has just removed
    dropped,      \* rows deleted in cleanup()'s transaction, not committed yet
    running,      \* what each runner process is doing
    rjob,         \* ... and for which job
    workerStops,
    apiStops

rowVars    == <<status, expired, available, attempts, created, stale>>
fileVars   == <<source, partial, book, escape>>
apiVars    == <<upload, request, accepted>>
loopVars   == <<worker, current, child, cancelled, seen, stopping>>
sweepVars  == <<sweep, wiping, dropped>>
workerVars == <<loopVars, sweepVars>>
runnerVars == <<running, rjob>>
countVars  == <<workerStops, apiStops>>
vars == <<rowVars, fileVars, apiVars, workerVars, runnerVars, countVars>>

ActiveStates == {"uploading", "queued", "processing"}
RowStates    == ActiveStates \cup {"completed", "failed"}
Idle         == [op |-> "none", job |-> Nobody]

----------------------------------------------------------------------------
(* The jobs table *)

HasRow(j) == status[j] \in RowStates

\* SQLite's write lock: cleanup() holds it from its first DELETE to its commit.
Writable == dropped = {}

Active == {j \in Jobs : status[j] \in ActiveStates}

\* The admission test shared by upload and retry.
HasRoom == Cardinality(Active) < MaxActive

\* store.update(job_id, status=s): no effect when the row is gone.
SetStatus(j, s) == status' = IF HasRow(j) THEN [status EXCEPT ![j] = s] ELSE status

\* DELETE FROM jobs: the columns go with the row (that it expired or was stale is kept).
DeleteRows(rows) ==
    /\ status' = [j \in Jobs |-> IF j \in rows THEN "gone" ELSE status[j]]
    /\ available' = [j \in Jobs |-> j \notin rows /\ available[j]]
    /\ attempts' = [j \in Jobs |-> IF j \in rows THEN 0 ELSE attempts[j]]
    /\ created' = [j \in Jobs |-> IF j \in rows THEN 0 ELSE created[j]]

NoFiles(j) == ~source[j] /\ partial[j] = "none" /\ book[j] = "none"

\* shutil.rmtree(DATA / id, ignore_errors=True): an error, such as a file that somebody
\* writes into the folder meanwhile, leaves some of it, and nobody is told.
RemoveFolder(j) ==
    \E rest \in SUBSET {"source", "partial", "book"} :
        /\ source' = [source EXCEPT ![j] = @ /\ "source" \in rest]
        /\ partial' = [partial EXCEPT ![j] = IF "partial" \in rest THEN @ ELSE "none"]
        /\ book' = [book EXCEPT ![j] = IF "book" \in rest THEN @ ELSE "none"]
        /\ escape' = [escape EXCEPT ![j] = IF NoFiles(j)' THEN "none" ELSE "error"]

----------------------------------------------------------------------------
(* The API process *)

\* `created' is read before the wait for the write lock, so its order need not
\* be the order of the INSERTs: any stamp.
UploadInsert(j, stamp) ==
    /\ status[j] = "absent"
    /\ Writable
    /\ HasRoom
    /\ status' = [status EXCEPT ![j] = "uploading"]
    /\ available' = [available EXCEPT ![j] = TRUE]
    /\ created' = [created EXCEPT ![j] = stamp]
    /\ upload' = [upload EXCEPT ![j] = "opening"]
    /\ UNCHANGED <<expired, attempts, stale, fileVars, request, accepted,
                   workerVars, runnerVars, countVars>>

\* The row was removed, or its folder has been, and only a crash brings it back.
RemovalOver(j) == status[j] = "gone" \/ j = wiping \/ j \in dropped

\* The folder is made and source.pdf opened after the INSERT is committed: a deletion and
\* a sweep may have come and gone in between.
UploadOpen(j) ==
    /\ upload[j] = "opening"
    /\ source' = [source EXCEPT ![j] = TRUE]
    /\ escape' = [escape EXCEPT ![j] = IF RemovalOver(j) THEN "late" ELSE @]
    /\ upload' = [upload EXCEPT ![j] = "streaming"]
    /\ UNCHANGED <<rowVars, partial, book, request, accepted, workerVars, runnerVars, countVars>>

\* The stream ended and starts with %PDF-: status=queued.
UploadQueue(j) ==
    /\ upload[j] = "streaming"
    /\ Writable
    /\ SetStatus(j, "queued")
    /\ upload' = [upload EXCEPT ![j] = "replying"]
    /\ UNCHANGED <<expired, available, attempts, created, stale, fileVars, request,
                   accepted, workerVars, runnerVars, countVars>>

\* admin_job() decides between 202 and 404.
UploadReply(j) ==
    /\ upload[j] = "replying"
    /\ upload' = [upload EXCEPT ![j] = "idle"]
    /\ accepted' = [accepted EXCEPT ![j] = HasRow(j) /\ ~expired[j]]
    /\ UNCHANGED <<rowVars, fileVars, request, workerVars, runnerVars, countVars>>

\* Any exception from mkdir() on, the 600 s timeout included: first the folder ...
UploadAbort(j) ==
    /\ upload[j] \in {"opening", "streaming"}
    /\ RemoveFolder(j)
    /\ upload' = [upload EXCEPT ![j] = "dropping"]
    /\ UNCHANGED <<rowVars, request, accepted, workerVars, runnerVars, countVars>>

\* ... then the row, whatever its status.
UploadDrop(j) ==
    /\ upload[j] = "dropping"
    /\ Writable
    /\ DeleteRows({j})
    /\ upload' = [upload EXCEPT ![j] = "idle"]
    /\ UNCHANGED <<expired, stale, fileVars, request, accepted, workerVars, runnerVars, countVars>>

\* admin_job(): the check that opens the retry, delete and edit handlers.
RequestCheck(a, op, j) ==
    /\ request[a] = Idle
    /\ HasRow(j) /\ ~expired[j]
    /\ request' = [request EXCEPT ![a] = [op |-> op, job |-> j]]
    /\ UNCHANGED <<rowVars, fileVars, upload, accepted, workerVars, runnerVars, countVars>>

\* Mutated form: the endpoint re-queues finished courses too.
RetryableCompleted(j) == status[j] \in {"failed", "completed"} /\ attempts[j] < MaxAttempts

Retryable(j) == status[j] = "failed" /\ attempts[j] < MaxAttempts

RequestRetry(a) ==
    LET j == request[a].job IN
    /\ request[a].op = "retry"
    /\ Writable
    /\ status' = IF HasRoom /\ Retryable(j) THEN [status EXCEPT ![j] = "queued"] ELSE status
    /\ request' = [request EXCEPT ![a] = Idle]
    /\ UNCHANGED <<expired, available, attempts, created, stale, fileVars, upload,
                   accepted, workerVars, runnerVars, countVars>>

RequestDelete(a) ==
    LET j == request[a].job IN
    /\ request[a].op = "delete"
    /\ Writable
    /\ expired' = [expired EXCEPT ![j] = HasRow(j) \/ @]
    /\ available' = [available EXCEPT ![j] = ~HasRow(j) /\ @]
    /\ request' = [request EXCEPT ![a] = Idle]
    /\ UNCHANGED <<status, attempts, created, stale, fileVars, upload, accepted,
                   workerVars, runnerVars, countVars>>

\* PATCH: of the editable columns only `available' matters to the pipeline.
RequestEdit(a, shown) ==
    LET j == request[a].job IN
    /\ request[a].op = "edit"
    /\ Writable
    /\ available' = [available EXCEPT ![j] = IF HasRow(j) THEN shown ELSE @]
    /\ request' = [request EXCEPT ![a] = Idle]
    /\ UNCHANGED <<status, expired, attempts, created, stale, fileVars, upload, accepted,
                   workerVars, runnerVars, countVars>>

\* The API process dies: its uploads and its requests are forgotten.
ApiCrash ==
    /\ apiStops < MaxApiStops
    /\ apiStops' = apiStops + 1
    /\ upload' = [j \in Jobs |-> "idle"]
    /\ request' = [a \in Admins |-> Idle]
    /\ UNCHANGED <<rowVars, fileVars, accepted, workerVars, runnerVars, workerStops>>

----------------------------------------------------------------------------
(* Time *)

\* An upload row turns 660 s old, be its handler over or not: the stream is cut after
\* 600 s, but the waits for the write lock before and after it (up to 60 s each, on an
\* event loop they block) count as well.
GoStale(j) ==
    /\ status[j] = "uploading" /\ ~stale[j]
    /\ stale' = [stale EXCEPT ![j] = TRUE]
    /\ UNCHANGED <<status, expired, available, attempts, created, fileVars, apiVars,
                   workerVars, runnerVars, countVars>>

\* The retention of a course ends.
Expire(j) ==
    /\ HasRow(j) /\ ~expired[j]
    /\ expired' = [expired EXCEPT ![j] = TRUE]
    /\ UNCHANGED <<status, available, attempts, created, stale, fileVars, apiVars,
                   workerVars, runnerVars, countVars>>

----------------------------------------------------------------------------
(* The worker *)

\* The locals of one turn of the loop are over.
ForgetTurn ==
    /\ current' = Nobody /\ child' = Nobody
    /\ cancelled' = FALSE /\ seen' = "absent"

\* The process of r ends.
Ends(r) ==
    /\ running' = [running EXCEPT ![r] = "off"]
    /\ rjob' = [rjob EXCEPT ![r] = Nobody]

\* Mutated form: a restarted worker leaves interrupted rows as they are.
RecoveredNothing(j) == status[j]

\* What the restart makes of a row: an interrupted one is queued again.
Recovered(j) == IF status[j] = "processing" THEN "queued" ELSE status[j]

\* run() up to its loop.
WorkerStart ==
    /\ worker = "down"
    /\ worker' = "top"
    /\ status' = [j \in Jobs |-> Recovered(j)]
    /\ UNCHANGED <<expired, available, attempts, created, stale, fileVars, apiVars,
                   current, child, cancelled, seen, stopping, sweepVars, runnerVars, countVars>>

\* `while not stopping' ends; the supervisor starts a new process.
WorkerExit ==
    /\ worker = "top" /\ stopping
    /\ worker' = "down"
    /\ stopping' = FALSE
    /\ UNCHANGED <<rowVars, fileVars, apiVars, current, child, cancelled, seen, sweepVars,
                   runnerVars, countVars>>

\* Mutated form: staleness is not asked of uploading rows.
SweepableFresh(j) ==
    /\ HasRow(j) /\ status[j] # "processing"
    /\ expired[j] \/ status[j] = "uploading"

\* Mutated form: uploads whose handler died are never collected.
SweepableExpired(j) == HasRow(j) /\ status[j] # "processing" /\ expired[j]

Sweepable(j) ==
    /\ HasRow(j) /\ status[j] # "processing"
    /\ expired[j] \/ (status[j] = "uploading" /\ stale[j])

\* cleanup(): the SELECT.
CleanupSelect ==
    /\ worker = "top" /\ ~stopping
    /\ worker' = "sweep"
    /\ sweep' = {j \in Jobs : Sweepable(j)}
    /\ UNCHANGED <<rowVars, fileVars, apiVars, current, child, cancelled, seen, stopping,
                   wiping, dropped, runnerVars, countVars>>

CleanupFolder(j) ==
    /\ worker = "sweep" /\ wiping = Nobody
    /\ j \in sweep
    /\ RemoveFolder(j)
    /\ wiping' = j
    /\ UNCHANGED <<rowVars, apiVars, loopVars, sweep, dropped, runnerVars, countVars>>

\* The DELETE of that row, by id only; the first one takes the write lock.
CleanupRow ==
    /\ worker = "sweep" /\ wiping # Nobody
    /\ dropped' = dropped \cup {wiping}
    /\ sweep' = sweep \ {wiping}
    /\ wiping' = Nobody
    /\ UNCHANGED <<rowVars, fileVars, apiVars, loopVars, runnerVars, countVars>>

CleanupCommit ==
    /\ worker = "sweep" /\ sweep = {}
    /\ worker' = "claim"
    /\ DeleteRows(dropped)
    /\ dropped' = {}
    /\ UNCHANGED <<expired, stale, fileVars, apiVars, current, child, cancelled, seen, stopping,
                   sweep, wiping, runnerVars, countVars>>

Claimable == {j \in Jobs : status[j] = "queued" /\ ~expired[j]}

\* ORDER BY created LIMIT 1
Claim(j) ==
    /\ worker = "claim"
    /\ j \in Claimable
    /\ \A k \in Claimable : created[j] <= created[k]
    /\ status' = [status EXCEPT ![j] = "processing"]
    /\ attempts' = [attempts EXCEPT ![j] = @ + 1]
    /\ current' = j
    /\ worker' = "spawn"
    /\ UNCHANGED <<expired, available, created, stale, fileVars, apiVars, child, cancelled,
                   seen, stopping, sweepVars, runnerVars, countVars>>

ClaimNothing ==
    /\ worker = "claim"
    /\ Claimable = {}
    /\ worker' = "top"
    /\ UNCHANGED <<rowVars, fileVars, apiVars, current, child, cancelled, seen, stopping,
                   sweepVars, runnerVars, countVars>>

\* Popen(..., start_new_session=True)
Spawn(r) ==
    /\ worker = "spawn"
    /\ running[r] = "off"
    /\ running' = [running EXCEPT ![r] = "convert"]
    /\ rjob' = [rjob EXCEPT ![r] = current]
    /\ child' = r
    /\ cancelled' = FALSE
    /\ worker' = "monitor"
    /\ UNCHANGED <<rowVars, fileVars, apiVars, current, seen, stopping, sweepVars, countVars>>

\* The monitoring loop breaks because the row is gone or expired ...
MonitorCancel ==
    /\ worker = "monitor"
    /\ ~HasRow(current) \/ expired[current]
    /\ cancelled' = TRUE
    /\ worker' = "stop"
    /\ UNCHANGED <<rowVars, fileVars, apiVars, current, child, seen, stopping, sweepVars,
                   runnerVars, countVars>>

\* ... or because of the deadline, the end of the subprocess, or SIGTERM.
MonitorBreak ==
    /\ worker = "monitor"
    /\ \/ HasRow(current) /\ ~expired[current]
       \/ running[child] = "off"
       \/ stopping
    /\ worker' = "stop"
    /\ UNCHANGED <<rowVars, fileVars, apiVars, current, child, cancelled, seen, stopping,
                   sweepVars, runnerVars, countVars>>

\* Mutated form: the subprocess is left behind.
StopLeavesChild ==
    /\ worker = "stop"
    /\ worker' = "inspect"
    /\ UNCHANGED <<rowVars, fileVars, apiVars, current, child, cancelled, seen, stopping,
                   sweepVars, runnerVars, countVars>>

\* stop_process(): the whole process group is dead when it returns.
StopProcess ==
    /\ worker = "stop"
    /\ Ends(child)
    /\ worker' = "inspect"
    /\ UNCHANGED <<rowVars, fileVars, apiVars, current, child, cancelled, seen, stopping,
                   sweepVars, countVars>>

\* SELECT status ...
Inspect ==
    /\ worker = "inspect"
    /\ seen' = status[current]
    /\ worker' = "settle"
    /\ UNCHANGED <<rowVars, fileVars, apiVars, current, child, cancelled, stopping, sweepVars,
                   runnerVars, countVars>>

\* Mutated form: a finished job is failed without having been cancelled.
VerdictFail ==
    IF stopping
    THEN IF seen = "processing" THEN "queued" ELSE "keep"
    ELSE IF seen \in RowStates THEN "failed" ELSE "keep"

Verdict ==
    IF stopping
    THEN IF seen = "processing" THEN "queued" ELSE "keep"
    ELSE IF seen \in RowStates /\ (seen = "processing" \/ cancelled) THEN "failed" ELSE "keep"

\* ... and the update decided on what was read.
Settle ==
    /\ worker = "settle"
    /\ IF Verdict = "keep" THEN status' = status ELSE SetStatus(current, Verdict)
    /\ worker' = "top"
    /\ ForgetTurn
    /\ UNCHANGED <<expired, available, attempts, created, stale, fileVars, apiVars,
                   stopping, sweepVars, runnerVars, countVars>>

Terminate ==
    /\ worker # "down" /\ ~stopping
    /\ workerStops < MaxWorkerStops
    /\ workerStops' = workerStops + 1
    /\ stopping' = TRUE
    /\ UNCHANGED <<rowVars, fileVars, apiVars, worker, current, child, cancelled, seen,
                   sweepVars, runnerVars, apiStops>>

\* The worker dies without running another line: its open transaction is rolled
\* back, and its subprocess dies with it only when they share a container's fate.
WorkerCrash ==
    /\ worker # "down"
    /\ workerStops < MaxWorkerStops
    /\ workerStops' = workerStops + 1
    /\ worker' = "down"
    /\ stopping' = FALSE
    /\ sweep' = {} /\ wiping' = Nobody /\ dropped' = {}
    /\ ForgetTurn
    /\ IF OrphansSurvive
       THEN UNCHANGED runnerVars
       ELSE /\ running' = [r \in Runners |-> "off"]
            /\ rjob' = [r \in Runners |-> Nobody]
    /\ UNCHANGED <<rowVars, fileVars, apiVars, apiStops>>

----------------------------------------------------------------------------
(* The runner subprocess *)

\* The pages are converted and book.partial is opened for writing: torn when
\* another runner is writing the same file.
RunnerConvert(r) ==
    LET j == rjob[r]
        shared == \E s \in Runners \ {r} : rjob[s] = j /\ running[s] = "zip" IN
    /\ running[r] = "convert"
    /\ source[j]
    /\ partial' = [partial EXCEPT ![j] = IF shared THEN "torn" ELSE "whole"]
    /\ running' = [running EXCEPT ![r] = "zip"]
    /\ UNCHANGED <<rowVars, source, book, escape, apiVars, workerVars, rjob, countVars>>

\* book.partial replaces book.zip; without it os.replace raises (RunnerFail).
RunnerPublish(r) ==
    LET j == rjob[r] IN
    /\ running[r] = "zip"
    /\ partial[j] # "none"
    /\ book' = [book EXCEPT ![j] = partial[j]]
    /\ partial' = [partial EXCEPT ![j] = "none"]
    /\ running' = [running EXCEPT ![r] = "report"]
    /\ UNCHANGED <<rowVars, source, escape, apiVars, workerVars, rjob, countVars>>

\* Mutated form: the row is completed before the archive is in place.
RunnerEarly(r) ==
    /\ running[r] \in {"zip", "report"}
    /\ Writable
    /\ SetStatus(rjob[r], "completed")
    /\ Ends(r)
    /\ UNCHANGED <<expired, available, attempts, created, stale, fileVars, apiVars,
                   workerVars, countVars>>

RunnerComplete(r) ==
    /\ running[r] = "report"
    /\ Writable
    /\ SetStatus(rjob[r], "completed")
    /\ Ends(r)
    /\ UNCHANGED <<expired, available, attempts, created, stale, fileVars, apiVars,
                   workerVars, countVars>>

\* Any exception of the conversion, the archive or the last update.
RunnerFail(r) ==
    /\ running[r] # "off"
    /\ Writable
    /\ SetStatus(rjob[r], "failed")
    /\ Ends(r)
    /\ UNCHANGED <<expired, available, attempts, created, stale, fileVars, apiVars,
                   workerVars, countVars>>

\* Killed by a resource limit: no update at all.
RunnerDie(r) ==
    /\ running[r] # "off"
    /\ Ends(r)
    /\ UNCHANGED <<rowVars, fileVars, apiVars, workerVars, countVars>>

----------------------------------------------------------------------------
Init ==
    /\ status = [j \in Jobs |-> "absent"]
    /\ expired = [j \in Jobs |-> FALSE]
    /\ available = [j \in Jobs |-> FALSE]
    /\ attempts = [j \in Jobs |-> 0]
    /\ created = [j \in Jobs |-> 0]
    /\ stale = [j \in Jobs |-> FALSE]
    /\ source = [j \in Jobs |-> FALSE]
    /\ partial = [j \in Jobs |-> "none"]
    /\ book = [j \in Jobs |-> "none"]
    /\ escape = [j \in Jobs |-> "none"]
    /\ upload = [j \in Jobs |-> "idle"]
    /\ request = [a \in Admins |-> Idle]
    /\ accepted = [j \in Jobs |-> FALSE]
    /\ worker = "down"
    /\ current = Nobody
    /\ child = Nobody
    /\ cancelled = FALSE
    /\ seen = "absent"
    /\ stopping = FALSE
    /\ sweep = {}
    /\ wiping = Nobody
    /\ dropped = {}
    /\ running = [r \in Runners |-> "off"]
    /\ rjob = [r \in Runners |-> Nobody]
    /\ workerStops = 0
    /\ apiStops = 0

UploadStep ==
    \E j \in Jobs :
        \/ \E stamp \in Stamps : UploadInsert(j, stamp)
        \/ UploadOpen(j) \/ UploadQueue(j) \/ UploadReply(j) \/ UploadAbort(j) \/ UploadDrop(j)

RequestStep ==
    \E a \in Admins :
        \/ \E op \in Operations, j \in Jobs : RequestCheck(a, op, j)
        \/ RequestRetry(a) \/ RequestDelete(a)
        \/ \E shown \in BOOLEAN : RequestEdit(a, shown)

WorkerStep ==
    \/ WorkerStart \/ WorkerExit
    \/ CleanupSelect \/ CleanupRow \/ CleanupCommit \/ \E j \in Jobs : CleanupFolder(j)
    \/ ClaimNothing \/ \E j \in Jobs : Claim(j)
    \/ \E r \in Runners : Spawn(r)
    \/ MonitorCancel \/ MonitorBreak \/ StopProcess \/ Inspect \/ Settle

RunnerStep ==
    \E r \in Runners :
        \/ RunnerConvert(r) \/ RunnerPublish(r) \/ RunnerComplete(r)
        \/ RunnerFail(r) \/ RunnerDie(r)

Environment ==
    \/ ApiCrash \/ Terminate \/ WorkerCrash
    \/ \E j \in Jobs : GoStale(j) \/ Expire(j)

Next == UploadStep \/ RequestStep \/ WorkerStep \/ RunnerStep \/ Environment

Spec == Init /\ [][Next]_vars

\* The worker's loop always runs on: its waits end by themselves, the wait for the
\* subprocess at JOB_TIMEOUT_SECONDS, and the clock moves.  Nothing is assumed of
\* uploads, administrators or the conversion.
Fairness == WF_vars(WorkerStep) /\ \A j \in Jobs : WF_vars(GoStale(j))

FairSpec == Spec /\ Fairness

----------------------------------------------------------------------------
(* What the pipeline promises *)

RowsTyped ==
    /\ status \in [Jobs -> RowStates \cup {"absent", "gone"}]
    /\ expired \in [Jobs -> BOOLEAN]
    /\ available \in [Jobs -> BOOLEAN]
    /\ attempts \in [Jobs -> Nat]
    /\ created \in [Jobs -> Nat]
    /\ stale \in [Jobs -> BOOLEAN]

FilesTyped ==
    /\ source \in [Jobs -> BOOLEAN]
    /\ partial \in [Jobs -> {"none", "whole", "torn"}]
    /\ book \in [Jobs -> {"none", "whole", "torn"}]
    /\ escape \in [Jobs -> {"none", "error", "late"}]

ApiTyped ==
    /\ upload \in [Jobs -> {"idle", "opening", "streaming", "replying", "dropping"}]
    /\ request \in [Admins -> {Idle} \cup [op : Operations, job : Jobs]]
    /\ accepted \in [Jobs -> BOOLEAN]
    /\ apiStops \in Nat

LoopTyped ==
    /\ worker \in {"down", "top", "sweep", "claim", "spawn", "monitor", "stop", "inspect", "settle"}
    /\ current \in Jobs \cup {Nobody}
    /\ child \in Runners \cup {Nobody}
    /\ seen \in RowStates \cup {"absent", "gone"}
    /\ sweep \subseteq Jobs
    /\ wiping \in Jobs \cup {Nobody}
    /\ dropped \subseteq Jobs
    /\ workerStops \in Nat

FlagsTyped == cancelled \in BOOLEAN /\ stopping \in BOOLEAN

RunnersTyped ==
    /\ running \in [Runners -> {"off", "convert", "zip", "report"}]
    /\ rjob \in [Runners -> Jobs \cup {Nobody}]

\* Every variable keeps its type: the columns, the loop's position and the handlers' states.
TypeOK == RowsTyped /\ FilesTyped /\ ApiTyped /\ LoopTyped /\ FlagsTyped /\ RunnersTyped

\* MAX_ACTIVE bounds the jobs that hold disk space and a place in the queue, over
\* uploads, retries and the re-queueing of interrupted jobs together (main.py upload, retry).
ActiveBounded == Cardinality(Active) <= MaxActive

\* A row is `processing' only while the worker's loop is on it, or until the next
\* start re-queues it: no job is stranded in a state nothing leaves (worker.py run).
ProcessingOwned ==
    \A j \in Jobs : status[j] = "processing" =>
        \/ worker = "down"
        \/ current = j /\ worker \in {"spawn", "monitor", "stop", "inspect", "settle"}

\* One subprocess at a time, across timeouts, cancellations, shutdowns and crashes:
\* the memory limits of runner.py are sized for one.
OneRunner == Cardinality({r \in Runners : running[r] # "off"}) <= 1

\* What the catalogue and the download endpoint serve is complete: a completed,
\* unexpired row has an untorn book.zip, whatever restarts, retries and sweeps did.
CompletedHasBook ==
    \A j \in Jobs : status[j] = "completed" /\ ~expired[j] => book[j] = "whole"

\* An upload answered 202 leaves the table only after its deletion or expiry, whatever
\* cleanup() had selected before the answer; or it was still uploading 660 s after `created'.
AcceptedKept == \A j \in Jobs : accepted[j] /\ ~expired[j] /\ ~stale[j] => HasRow(j)

\* The same without the last exemption, as a durable queue (worker.py:1) has it.  It fails:
\* an upload may be queued, and answered, between cleanup()'s SELECT and its DELETE.
AcceptedKeptLate == \A j \in Jobs : accepted[j] /\ ~expired[j] => HasRow(j)

\* A row leaves the table after its files, in upload's exception path as in cleanup(), over
\* crashes between the two.  Two ways out remain: a removal that met an error, which the code
\* ignores, and a folder that upload makes when the removal is over.
NothingLeftBehind == \A j \in Jobs : status[j] = "gone" => NoFiles(j) \/ escape[j] # "none"

\* README.md:89 "DELETE ...: revoke access and schedule physical deletion": where no removal
\* met an error, a deleted course that is gone has left nothing, its upload having been no
\* 660 s old.  It fails by the second way out.
DeletionIsPhysical ==
    \A j \in Jobs : status[j] = "gone" /\ expired[j] /\ ~stale[j] => NoFiles(j) \/ escape[j] = "error"

\* The row and the disk tell the same, whatever was restarted, retried, swept or failed half
\* way: what is completed can be downloaded, and what is gone has left nothing but by one of
\* the two ways out.
FilesMatchRow == CompletedHasBook /\ NothingLeftBehind

\* A job runs at most three times, and once more for every time the worker was
\* stopped: the re-queueing of interrupted jobs asks no cap, although README.md:73
\* says "at most three execution attempts per job".
AttemptsBounded == \A j \in Jobs : attempts[j] <= MaxAttempts + workerStops

\* A finished course stays finished until it is deleted or expires: no retry, restart
\* or late report of another process takes it out of the catalogue.
CompletedStays ==
    [][\A j \in Jobs : status[j] = "completed" /\ ~expired[j] => status'[j] = "completed"]_vars

\* A claimed or waiting job never outlives its owner's wish: every queued job is run
\* to an end, or removed; timeouts, crashes and shutdowns only delay it.
QueuedSettles ==
    \A j \in Jobs : status[j] = "queued" ~> status[j] \in {"completed", "failed", "gone"}

\* The place an upload takes under MAX_ACTIVE is given back, even when the API died
\* in the middle of it: cleanup() collects uploads older than 660 s.
UploadSlotFreed == \A j \in Jobs : status[j] = "uploading" ~> status[j] # "uploading"

\* A deleted or expired course's row is eventually gone, whichever state it was in, and its
\* files with it, but for the two ways out that NothingLeftBehind tells of.
ExpiredReclaimed ==
    \A j \in Jobs : expired[j] ~> status[j] = "gone" /\ (NoFiles(j) \/ escape[j] # "none")

\* What a course takes is given back in the end, its place as well as the disk.
GivenBack == UploadSlotFreed /\ ExpiredReclaimed

(* Why it holds: who may touch which row *)

\* The row of an upload in progress is `uploading', or was swept.
UploadOwned ==
    \A j \in Jobs : upload[j] \in {"opening", "streaming", "dropping"} => status[j] \in {"uploading", "gone"}

\* A runner is the one the worker is waiting for, and its row is still processing.
RunnerOwned ==
    \A r \in Runners : running[r] # "off" =>
        /\ worker \in {"monitor", "stop"}
        /\ child = r
        /\ rjob[r] = current
        /\ status[current] = "processing"

\* The claimed row is processing until the subprocess starts, and past its upload for good.
ClaimOwned ==
    /\ worker = "spawn" => status[current] = "processing"
    /\ worker \in {"spawn", "monitor", "stop", "inspect", "settle"} =>
           status[current] \notin {"absent", "uploading"}

\* What the worker read back is still so when it acts on it.
SeenFresh == worker = "settle" => (seen = "processing" <=> status[current] = "processing")

CancelJustified ==
    cancelled => /\ worker \in {"stop", "inspect", "settle"}
                 /\ ~HasRow(current) \/ expired[current]

\* A row chosen for deletion is one nobody wants, or an upload given up for dead.
SweepJustified ==
    /\ wiping # Nobody => wiping \in sweep
    /\ \A j \in Jobs : j \in sweep \cup dropped =>
           /\ worker = "sweep"
           /\ expired[j] \/ status[j] \in {"uploading", "queued", "gone"}

\* Each row in motion has one process that may move it (a runner dying with its worker).
Ownership ==
    /\ UploadOwned /\ RunnerOwned /\ ClaimOwned /\ ProcessingOwned
    /\ SeenFresh /\ CancelJustified /\ SweepJustified

(* The pipeline implements the catalogue its users see *)

\* The phase a job's row stands for; a row past its `expires' is removed already.
Phase(j) ==
    CASE status[j] = "absent"                      -> "none"
      [] ~HasRow(j) /\ status[j] # "absent"        -> "removed"
      [] HasRow(j) /\ expired[j]                   -> "removed"
      [] status[j] \in ActiveStates /\ ~expired[j] -> "working"
      [] status[j] = "completed" /\ ~expired[j]    -> "ready"
      [] status[j] = "failed" /\ ~expired[j]       -> "failed"

Catalog == INSTANCE CourseCatalog WITH
    Courses <- Jobs,
    Capacity <- MaxActive,
    phase <- [j \in Jobs |-> Phase(j)],
    shown <- [j \in Jobs |-> HasRow(j) /\ ~expired[j] /\ available[j]]

\* Every step of the processes is a step of the catalogue or invisible: a removed
\* course never returns, a ready one never goes back, the capacity is kept.
ImplementsCatalog == Catalog!CatalogSpec
=============================================================================
