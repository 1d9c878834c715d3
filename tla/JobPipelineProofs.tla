------------------------- MODULE JobPipelineProofs -------------------------
(***************************************************************************)
(* Theorems about JobPipeline, for every number of jobs, administrators,    *)
(* restarts and every MAX_ACTIVE.  Those that depend on a runner dying with *)
(* its worker assume ~OrphansSurvive, the deployment of compose.yaml.       *)
(***************************************************************************)
EXTENDS JobPipeline, FiniteSetTheorems, TLAPS

\* The locals of the worker's loop have values where they are used.
LoopOK ==
    /\ worker \in {"spawn", "monitor", "stop", "inspect", "settle"} => current \in Jobs
    /\ worker \in {"monitor", "stop"} => child \in Runners

TypeInv == TypeOK /\ LoopOK

\* The initial state is well typed.
LEMMA TypeInit == Init => TypeInv
<1> SUFFICES ASSUME Init PROVE TypeInv
    OBVIOUS
<1> USE DEF Init, RowStates, ActiveStates
<1>1. RowsTyped
    BY DEF RowsTyped
<1>2. FilesTyped
    BY DEF FilesTyped
<1>3. ApiTyped
    BY DEF ApiTyped
<1>4. LoopTyped /\ FlagsTyped /\ LoopOK
    BY DEF LoopTyped, FlagsTyped, LoopOK
<1>5. RunnersTyped
    BY DEF RunnersTyped
<1> QED BY <1>1, <1>2, <1>3, <1>4, <1>5 DEF TypeInv, TypeOK

\* The steps of the upload handler keep the types.
LEMMA TypeUpload == TypeInv /\ UploadStep => TypeInv'
<1> SUFFICES ASSUME TypeInv, NEW j \in Jobs,
                    \/ \E stamp \in Stamps : UploadInsert(j, stamp)
                    \/ UploadOpen(j) \/ UploadQueue(j) \/ UploadReply(j) \/ UploadAbort(j) \/ UploadDrop(j)
             PROVE  TypeInv'
    BY DEF UploadStep
<1> USE DEF TypeInv, TypeOK, RowsTyped, FilesTyped, ApiTyped, LoopTyped, FlagsTyped, RunnersTyped, LoopOK,
            RowStates, ActiveStates, fileVars, workerVars, loopVars, sweepVars, runnerVars, countVars
<1>1. CASE \E stamp \in Stamps : UploadInsert(j, stamp)
    BY <1>1, BoundsAreNaturals DEF UploadInsert
<1>2. CASE UploadQueue(j)
    BY <1>2 DEF UploadQueue, SetStatus
<1>3. CASE UploadReply(j)
    BY <1>3 DEF UploadReply, rowVars, HasRow
<1>4. CASE UploadAbort(j)
    BY <1>4 DEF UploadAbort, RemoveFolder, rowVars
<1>5. CASE UploadDrop(j)
    BY <1>5 DEF UploadDrop, DeleteRows
<1>6. CASE UploadOpen(j)
    BY <1>6 DEF UploadOpen, rowVars
<1> QED BY <1>1, <1>2, <1>3, <1>4, <1>5, <1>6

\* The steps of the administrators' handlers keep the types.
LEMMA TypeRequest == TypeInv /\ RequestStep => TypeInv'
<1> SUFFICES ASSUME TypeInv, NEW a \in Admins,
                    \/ \E op \in Operations, j \in Jobs : RequestCheck(a, op, j)
                    \/ RequestRetry(a) \/ RequestDelete(a)
                    \/ \E shown \in BOOLEAN : RequestEdit(a, shown)
             PROVE  TypeInv'
    BY DEF RequestStep
<1> USE DEF TypeInv, TypeOK, RowsTyped, FilesTyped, ApiTyped, LoopTyped, FlagsTyped, RunnersTyped, LoopOK,
            RowStates, ActiveStates, fileVars, workerVars, loopVars, sweepVars, runnerVars, countVars
<1>1. CASE \E op \in Operations, j \in Jobs : RequestCheck(a, op, j)
    BY <1>1 DEF RequestCheck, rowVars
<1>2. CASE RequestRetry(a)
    <2>1. RowsTyped'
        BY <1>2 DEF RequestRetry
    <2>2. ApiTyped'
        BY <1>2 DEF RequestRetry
    <2>3. FilesTyped' /\ LoopTyped' /\ FlagsTyped' /\ LoopOK' /\ RunnersTyped'
        BY <1>2 DEF RequestRetry
    <2> QED BY <2>1, <2>2, <2>3
<1>3. CASE RequestDelete(a)
    <2>1. RowsTyped'
        BY <1>3 DEF RequestDelete
    <2>2. ApiTyped'
        BY <1>3 DEF RequestDelete
    <2>3. FilesTyped' /\ LoopTyped' /\ FlagsTyped' /\ LoopOK' /\ RunnersTyped'
        BY <1>3 DEF RequestDelete
    <2> QED BY <2>1, <2>2, <2>3
<1>4. CASE \E shown \in BOOLEAN : RequestEdit(a, shown)
    <2> PICK shown \in BOOLEAN : RequestEdit(a, shown)
        BY <1>4
    <2>1. RowsTyped'
        BY DEF RequestEdit
    <2>2. ApiTyped'
        BY DEF RequestEdit
    <2>3. FilesTyped' /\ LoopTyped' /\ FlagsTyped' /\ LoopOK' /\ RunnersTyped'
        BY DEF RequestEdit
    <2> QED BY <2>1, <2>2, <2>3
<1> QED BY <1>1, <1>2, <1>3, <1>4

\* The steps of the worker keep the types.
LEMMA TypeWorker == TypeInv /\ WorkerStep => TypeInv'
<1> SUFFICES ASSUME TypeInv, WorkerStep PROVE TypeInv'
    OBVIOUS
<1> USE NobodyIsNoOne
        DEF TypeInv, TypeOK, RowsTyped, FilesTyped, ApiTyped, LoopTyped, FlagsTyped, RunnersTyped, LoopOK,
            RowStates, ActiveStates, rowVars, fileVars, apiVars, loopVars, sweepVars, runnerVars, countVars
<1>1. CASE WorkerStart
    BY <1>1 DEF WorkerStart, Recovered
<1>2. CASE WorkerExit
    BY <1>2 DEF WorkerExit
<1>3. CASE CleanupSelect
    BY <1>3 DEF CleanupSelect
<1>4. CASE CleanupRow
    BY <1>4 DEF CleanupRow
<1>5. CASE CleanupCommit
    BY <1>5 DEF CleanupCommit, DeleteRows
<1>6. CASE \E j \in Jobs : CleanupFolder(j)
    BY <1>6 DEF CleanupFolder, RemoveFolder
<1>7. CASE ClaimNothing
    BY <1>7 DEF ClaimNothing
<1>8. CASE \E j \in Jobs : Claim(j)
    BY <1>8 DEF Claim
<1>9. CASE \E r \in Runners : Spawn(r)
    <2>1. RunnersTyped'
        BY <1>9 DEF Spawn
    <2>2. LoopTyped' /\ LoopOK'
        BY <1>9 DEF Spawn
    <2>4. FlagsTyped'
        BY <1>9, Zenon DEF Spawn
    <2>3. RowsTyped' /\ FilesTyped' /\ ApiTyped'
        BY <1>9 DEF Spawn
    <2> QED BY <2>1, <2>2, <2>3, <2>4
<1>10. CASE MonitorCancel
    BY <1>10 DEF MonitorCancel
<1>11. CASE MonitorBreak
    BY <1>11 DEF MonitorBreak
<1>12. CASE StopProcess
    BY <1>12 DEF StopProcess, Ends
<1>13. CASE Inspect
    BY <1>13 DEF Inspect
<1>14. CASE Settle
    BY <1>14 DEF Settle, Verdict, SetStatus, ForgetTurn
<1> QED BY <1>1, <1>2, <1>3, <1>4, <1>5, <1>6, <1>7, <1>8, <1>9, <1>10, <1>11, <1>12, <1>13,
           <1>14 DEF WorkerStep

\* The steps of the runners keep the types.
LEMMA TypeRunner == TypeInv /\ RunnerStep => TypeInv'
<1> SUFFICES ASSUME TypeInv, NEW r \in Runners,
                    \/ RunnerConvert(r) \/ RunnerPublish(r) \/ RunnerComplete(r)
                    \/ RunnerFail(r) \/ RunnerDie(r)
             PROVE  TypeInv'
    BY DEF RunnerStep
<1> USE DEF TypeInv, TypeOK, RowsTyped, FilesTyped, ApiTyped, LoopTyped, FlagsTyped, RunnersTyped, LoopOK,
            RowStates, ActiveStates, fileVars, apiVars, workerVars, loopVars, sweepVars, countVars
<1>1. CASE RunnerConvert(r)
    <2>1. FilesTyped'
        BY <1>1 DEF RunnerConvert
    <2>2. RunnersTyped'
        BY <1>1 DEF RunnerConvert
    <2>3. RowsTyped' /\ ApiTyped' /\ LoopTyped' /\ FlagsTyped' /\ LoopOK'
        BY <1>1 DEF RunnerConvert, rowVars
    <2> QED BY <2>1, <2>2, <2>3
<1>2. CASE RunnerPublish(r)
    <2>1. FilesTyped'
        BY <1>2 DEF RunnerPublish
    <2>2. RunnersTyped'
        BY <1>2 DEF RunnerPublish
    <2>3. RowsTyped' /\ ApiTyped' /\ LoopTyped' /\ FlagsTyped' /\ LoopOK'
        BY <1>2 DEF RunnerPublish, rowVars
    <2> QED BY <2>1, <2>2, <2>3
<1>3. CASE RunnerComplete(r)
    <2>1. RowsTyped'
        BY <1>3 DEF RunnerComplete, SetStatus
    <2>2. RunnersTyped'
        BY <1>3 DEF RunnerComplete, Ends
    <2>3. FilesTyped' /\ ApiTyped' /\ LoopTyped' /\ FlagsTyped' /\ LoopOK'
        BY <1>3 DEF RunnerComplete
    <2> QED BY <2>1, <2>2, <2>3
<1>4. CASE RunnerFail(r)
    <2>1. RowsTyped'
        BY <1>4 DEF RunnerFail, SetStatus
    <2>2. RunnersTyped'
        BY <1>4 DEF RunnerFail, Ends
    <2>3. FilesTyped' /\ ApiTyped' /\ LoopTyped' /\ FlagsTyped' /\ LoopOK'
        BY <1>4 DEF RunnerFail
    <2> QED BY <2>1, <2>2, <2>3
<1>5. CASE RunnerDie(r)
    BY <1>5 DEF RunnerDie, Ends, rowVars
<1> QED BY <1>1, <1>2, <1>3, <1>4, <1>5

\* Time, crashes and signals keep the types.
LEMMA TypeEnvironment == TypeInv /\ Environment => TypeInv'
<1> SUFFICES ASSUME TypeInv, Environment PROVE TypeInv'
    OBVIOUS
<1> USE DEF TypeInv, TypeOK, RowsTyped, FilesTyped, ApiTyped, LoopTyped, FlagsTyped, RunnersTyped, LoopOK,
            RowStates, ActiveStates, rowVars, fileVars, apiVars, workerVars, loopVars, sweepVars,
            runnerVars, countVars
<1>1. CASE ApiCrash
    BY <1>1 DEF ApiCrash
<1>2. CASE Terminate
    BY <1>2 DEF Terminate
<1>3. CASE WorkerCrash
    <2>1. RunnersTyped'
        <3>1. CASE OrphansSurvive
            BY <1>3, <3>1 DEF WorkerCrash
        <3>2. CASE ~OrphansSurvive
            BY <1>3, <3>2 DEF WorkerCrash
        <3> QED BY <3>1, <3>2
    <2>2. LoopTyped' /\ LoopOK'
        BY <1>3 DEF WorkerCrash, ForgetTurn
    <2>4. FlagsTyped'
        BY <1>3, Zenon DEF WorkerCrash, ForgetTurn
    <2>3. RowsTyped' /\ FilesTyped' /\ ApiTyped'
        BY <1>3 DEF WorkerCrash
    <2> QED BY <2>1, <2>2, <2>3, <2>4
<1>4. CASE \E j \in Jobs : GoStale(j)
    BY <1>4 DEF GoStale
<1>5. CASE \E j \in Jobs : Expire(j)
    BY <1>5 DEF Expire
<1> QED BY <1>1, <1>2, <1>3, <1>4, <1>5 DEF Environment

\* Every step keeps the types, stuttering included.
LEMMA TypeNext == TypeInv /\ [Next]_vars => TypeInv'
<1>1. TypeInv /\ UNCHANGED vars => TypeInv'
    BY DEF TypeInv, TypeOK, RowsTyped, FilesTyped, ApiTyped, LoopTyped, FlagsTyped, RunnersTyped, LoopOK,
           vars, rowVars, fileVars, apiVars, workerVars, loopVars, sweepVars, runnerVars, countVars
<1> QED BY <1>1, TypeUpload, TypeRequest, TypeWorker, TypeRunner, TypeEnvironment DEF Next

\* The columns, files, handlers and processes keep their types in every reachable state.
THEOREM TypeCorrect == Spec => []TypeOK
<1>1. TypeInv => TypeOK
    BY DEF TypeInv
<1> QED BY <1>1, TypeInit, TypeNext, PTL DEF Spec

(***************************************************************************)
(* Who may touch which row.                                                 *)
(***************************************************************************)

\* An upload touches its own row only, and that row is not in motion elsewhere.
LEMMA OwnUpload ==
    ASSUME ~OrphansSurvive, TypeInv, Ownership, UploadStep
    PROVE  Ownership'
<1> USE DEF TypeInv, TypeOK, RowsTyped, ApiTyped, LoopTyped, RunnersTyped, LoopOK,
            Ownership, UploadOwned, RunnerOwned, ClaimOwned, ProcessingOwned, SeenFresh, CancelJustified,
            SweepJustified, HasRow, RowStates, ActiveStates, rowVars, fileVars, apiVars, workerVars, loopVars,
            sweepVars, runnerVars, countVars
<1>1. CASE \E j \in Jobs : \E stamp \in Stamps : UploadInsert(j, stamp)
    <2> PICK j \in Jobs, stamp \in Stamps : UploadInsert(j, stamp)
        BY <1>1
    <2>1. status[j] = "absent" /\ status' = [status EXCEPT ![j] = "uploading"]
        BY DEF UploadInsert
    <2>2. upload' = [upload EXCEPT ![j] = "opening"]
        BY DEF UploadInsert
    <2>3. UNCHANGED <<expired, workerVars, runnerVars>>
        BY DEF UploadInsert
    <2>4. UploadOwned' /\ ProcessingOwned'
        BY <2>1, <2>2, <2>3
    <2>5. RunnerOwned' /\ ClaimOwned' /\ SeenFresh'
        BY <2>1, <2>3, NobodyIsNoOne
    <2>6. CancelJustified'
        BY <2>1, <2>3, NobodyIsNoOne
    <2>7. SweepJustified'
        BY <2>1, <2>3
    <2> QED BY <2>4, <2>5, <2>6, <2>7
<1>2. CASE \E j \in Jobs : UploadQueue(j)
    BY <1>2, NobodyIsNoOne DEF UploadQueue, SetStatus
<1>3. CASE \E j \in Jobs : UploadReply(j)
    BY <1>3, NobodyIsNoOne DEF UploadReply
<1>4. CASE \E j \in Jobs : UploadAbort(j)
    BY <1>4, NobodyIsNoOne DEF UploadAbort, RemoveFolder
<1>5. CASE \E j \in Jobs : UploadDrop(j)
    BY <1>5, NobodyIsNoOne DEF UploadDrop, DeleteRows
<1>6. CASE \E j \in Jobs : UploadOpen(j)
    BY <1>6, NobodyIsNoOne DEF UploadOpen
<1> QED BY <1>1, <1>2, <1>3, <1>4, <1>5, <1>6 DEF UploadStep

\* A request re-queues failed rows only, and only shortens a row's life.
LEMMA OwnRequest ==
    ASSUME ~OrphansSurvive, TypeInv, Ownership, RequestStep
    PROVE  Ownership'
<1> USE DEF TypeInv, TypeOK, RowsTyped, ApiTyped, LoopTyped, RunnersTyped, LoopOK,
            Ownership, UploadOwned, RunnerOwned, ClaimOwned, ProcessingOwned, SeenFresh, CancelJustified,
            SweepJustified, HasRow, RowStates, ActiveStates, rowVars, fileVars, apiVars, workerVars, loopVars,
            sweepVars, runnerVars, countVars
<1>1. CASE \E a \in Admins : \E op \in Operations, j \in Jobs : RequestCheck(a, op, j)
    BY <1>1, NobodyIsNoOne DEF RequestCheck
<1>2. CASE \E a \in Admins : RequestRetry(a)
    BY <1>2, NobodyIsNoOne DEF RequestRetry, Retryable
<1>3. CASE \E a \in Admins : RequestDelete(a)
    BY <1>3, NobodyIsNoOne DEF RequestDelete
<1>4. CASE \E a \in Admins : \E shown \in BOOLEAN : RequestEdit(a, shown)
    BY <1>4, NobodyIsNoOne DEF RequestEdit
<1> QED BY <1>1, <1>2, <1>3, <1>4 DEF RequestStep

\* The worker moves the row it claimed.
LEMMA OwnWorker ==
    ASSUME ~OrphansSurvive, TypeInv, Ownership, WorkerStep
    PROVE  Ownership'
<1> USE DEF TypeInv, TypeOK, RowsTyped, ApiTyped, LoopTyped, RunnersTyped, LoopOK,
            Ownership, UploadOwned, RunnerOwned, ClaimOwned, ProcessingOwned, SeenFresh, CancelJustified,
            SweepJustified, HasRow, RowStates, ActiveStates, rowVars, fileVars, apiVars, workerVars, loopVars,
            sweepVars, runnerVars, countVars
<1>1. CASE WorkerStart
    BY <1>1, NobodyIsNoOne DEF WorkerStart, Recovered
<1>2. CASE WorkerExit
    BY <1>2, NobodyIsNoOne DEF WorkerExit
<1>3. CASE CleanupSelect
    BY <1>3, NobodyIsNoOne DEF CleanupSelect, Sweepable
<1>4. CASE CleanupRow
    BY <1>4, NobodyIsNoOne DEF CleanupRow
<1>5. CASE CleanupCommit
    <2>1. \A j \in Jobs : status'[j] = status[j] \/ status'[j] = "gone"
        BY <1>5 DEF CleanupCommit, DeleteRows
    <2>2. worker = "sweep" /\ worker' = "claim" /\ sweep' = {} /\ dropped' = {} /\ wiping' = wiping
        BY <1>5 DEF CleanupCommit
    <2>3. UNCHANGED <<upload, running, cancelled>>
        BY <1>5 DEF CleanupCommit
    <2>4. UploadOwned' /\ ProcessingOwned' /\ RunnerOwned' /\ CancelJustified'
        BY <2>1, <2>2, <2>3
    <2>5. ClaimOwned' /\ SeenFresh'
        BY <2>2
    <2>6. SweepJustified'
        BY <2>2, <1>5 DEF CleanupCommit
    <2> QED BY <2>4, <2>5, <2>6
<1>6. CASE \E j \in Jobs : CleanupFolder(j)
    BY <1>6, NobodyIsNoOne DEF CleanupFolder, RemoveFolder
<1>7. CASE ClaimNothing
    BY <1>7, NobodyIsNoOne DEF ClaimNothing
<1>8. CASE \E j \in Jobs : Claim(j)
    BY <1>8, NobodyIsNoOne DEF Claim, Claimable
<1>9. CASE \E r \in Runners : Spawn(r)
    BY <1>9, NobodyIsNoOne DEF Spawn
<1>10. CASE MonitorCancel
    BY <1>10, NobodyIsNoOne DEF MonitorCancel
<1>11. CASE MonitorBreak
    BY <1>11, NobodyIsNoOne DEF MonitorBreak
<1>12. CASE StopProcess
    BY <1>12, NobodyIsNoOne DEF StopProcess, Ends
<1>13. CASE Inspect
    BY <1>13, NobodyIsNoOne DEF Inspect
<1>14. CASE Settle
    <2>1. worker' = "top" /\ cancelled' = FALSE
        BY <1>14 DEF Settle, ForgetTurn
    <2>2. \A j \in Jobs : status'[j] # status[j] =>
              /\ j = current
              /\ status[j] \notin {"absent", "uploading", "gone"}
              /\ status'[j] \in {"queued", "failed"}
        BY <1>14 DEF Settle, Verdict, SetStatus
    <2>3. \A j \in Jobs : status'[j] # "processing"
        <3>1. status'[current] # "processing"
            BY <1>14 DEF Settle, Verdict, SetStatus
        <3> QED BY <1>14, <2>2, <3>1 DEF Settle
    <2>4. UNCHANGED <<upload, sweepVars, running>>
        BY <1>14 DEF Settle
    <2>5. UploadOwned'
        BY <2>2, <2>4
    <2>6. RunnerOwned' /\ SweepJustified'
        BY <1>14, <2>4 DEF Settle
    <2>7. ClaimOwned' /\ ProcessingOwned' /\ SeenFresh' /\ CancelJustified'
        BY <2>1, <2>3
    <2> QED BY <2>5, <2>6, <2>7
<1> QED BY <1>1, <1>2, <1>3, <1>4, <1>5, <1>6, <1>7, <1>8, <1>9, <1>10, <1>11, <1>12, <1>13, <1>14 DEF WorkerStep

\* The runner moves the row the worker claimed, while the worker waits.
LEMMA OwnRunner ==
    ASSUME ~OrphansSurvive, TypeInv, Ownership, RunnerStep
    PROVE  Ownership'
<1> USE DEF TypeInv, TypeOK, RowsTyped, ApiTyped, LoopTyped, RunnersTyped, LoopOK,
            Ownership, UploadOwned, RunnerOwned, ClaimOwned, ProcessingOwned, SeenFresh, CancelJustified,
            SweepJustified, HasRow, RowStates, ActiveStates, rowVars, fileVars, apiVars, workerVars, loopVars,
            sweepVars, runnerVars, countVars
<1>1. CASE \E r \in Runners : RunnerConvert(r)
    BY <1>1, NobodyIsNoOne DEF RunnerConvert
<1>2. CASE \E r \in Runners : RunnerPublish(r)
    BY <1>2, NobodyIsNoOne DEF RunnerPublish
<1>3. CASE \E r \in Runners : RunnerComplete(r)
    BY <1>3, NobodyIsNoOne DEF RunnerComplete, SetStatus, Ends
<1>4. CASE \E r \in Runners : RunnerFail(r)
    BY <1>4, NobodyIsNoOne DEF RunnerFail, SetStatus, Ends
<1>5. CASE \E r \in Runners : RunnerDie(r)
    BY <1>5, NobodyIsNoOne DEF RunnerDie, Ends
<1> QED BY <1>1, <1>2, <1>3, <1>4, <1>5 DEF RunnerStep

\* Crashes take the worker's subprocess along; time only shortens lives.
LEMMA OwnEnvironment ==
    ASSUME ~OrphansSurvive, TypeInv, Ownership, Environment
    PROVE  Ownership'
<1> USE DEF TypeInv, TypeOK, RowsTyped, ApiTyped, LoopTyped, RunnersTyped, LoopOK,
            Ownership, UploadOwned, RunnerOwned, ClaimOwned, ProcessingOwned, SeenFresh, CancelJustified,
            SweepJustified, HasRow, RowStates, ActiveStates, rowVars, fileVars, apiVars, workerVars, loopVars,
            sweepVars, runnerVars, countVars
<1>1. CASE ApiCrash
    BY <1>1, NobodyIsNoOne DEF ApiCrash
<1>2. CASE Terminate
    BY <1>2, NobodyIsNoOne DEF Terminate
<1>3. CASE WorkerCrash
    BY <1>3, NobodyIsNoOne DEF WorkerCrash, ForgetTurn
<1>4. CASE \E j \in Jobs : GoStale(j)
    BY <1>4, NobodyIsNoOne DEF GoStale
<1>5. CASE \E j \in Jobs : Expire(j)
    BY <1>5, NobodyIsNoOne DEF Expire
<1> QED BY <1>1, <1>2, <1>3, <1>4, <1>5 DEF Environment

\* In the initial state nothing is in motion.
LEMMA OwnInit == Init => Ownership
BY DEF Init, Ownership, UploadOwned, RunnerOwned, ClaimOwned, ProcessingOwned, SeenFresh,
       CancelJustified, SweepJustified

\* Every step keeps the ownership, stuttering included.
LEMMA OwnNext ==
    ASSUME ~OrphansSurvive, TypeInv, Ownership, [Next]_vars
    PROVE  Ownership'
<1>1. CASE UNCHANGED vars
    BY <1>1 DEF Ownership, UploadOwned, RunnerOwned, ClaimOwned, ProcessingOwned, SeenFresh,
                CancelJustified, SweepJustified, HasRow, vars, rowVars, apiVars, workerVars, loopVars,
                sweepVars, runnerVars
<1> QED BY <1>1, OwnUpload, OwnRequest, OwnWorker, OwnRunner, OwnEnvironment DEF Next

\* Without orphans each row in motion has one process that may move it.
THEOREM OwnershipHolds == ASSUME ~OrphansSurvive PROVE Spec => []Ownership
<1>1. TypeInv /\ Ownership /\ [Next]_vars => (TypeInv /\ Ownership)'
    BY TypeNext, OwnNext
<1> QED BY <1>1, TypeInit, OwnInit, PTL DEF Spec

(***************************************************************************)
(* What follows.                                                            *)
(***************************************************************************)

\* No job is stranded in `processing': the worker is on it, or will re-queue it.
THEOREM NoJobStranded == ASSUME ~OrphansSurvive PROVE Spec => []ProcessingOwned
<1>1. Ownership => ProcessingOwned
    BY DEF Ownership
<1> QED BY <1>1, OwnershipHolds, PTL

\* A finished course leaves the catalogue only by deletion or expiry.
LEMMA CompletedStep ==
    ASSUME ~OrphansSurvive, TypeInv, Ownership, [Next]_vars,
           NEW j \in Jobs, status[j] = "completed", ~expired[j]
    PROVE  status'[j] = "completed"
<1> USE DEF TypeInv, TypeOK, RowsTyped, Ownership
<1>1. CASE UNCHANGED vars
    BY <1>1 DEF vars, rowVars
<1>2. CASE UploadStep
    BY <1>2 DEF UploadStep, UploadInsert, UploadOpen, UploadQueue, UploadReply, UploadAbort, UploadDrop, SetStatus,
                DeleteRows, rowVars, UploadOwned
<1>3. CASE RequestStep
    BY <1>3 DEF RequestStep, RequestCheck, RequestRetry, RequestDelete, RequestEdit, Retryable, rowVars
<1>4. CASE WorkerStep
    <2>1. CASE Settle
        <3>1. j # current => status'[j] = status[j]
            BY <2>1 DEF Settle, SetStatus
        <3>2. CASE j = current
            <4>1. ~cancelled /\ seen # "processing"
                BY <2>1, <3>2 DEF Settle, CancelJustified, SeenFresh, HasRow, RowStates
            <4>2. Verdict = "keep"
                BY <4>1 DEF Verdict
            <4> QED BY <2>1, <4>2 DEF Settle
        <3> QED BY <3>1, <3>2
    <2>2. CASE CleanupCommit
        BY <2>2 DEF CleanupCommit, DeleteRows, SweepJustified
    <2>3. CASE WorkerStart
        BY <2>3 DEF WorkerStart, Recovered
    <2>4. CASE \E k \in Jobs : Claim(k)
        BY <2>4 DEF Claim, Claimable
    <2>5. CASE \E r \in Runners : Spawn(r)
        BY <2>5 DEF Spawn, rowVars
    <2>6. CASE \/ WorkerExit \/ CleanupSelect \/ CleanupRow \/ ClaimNothing
               \/ MonitorCancel \/ MonitorBreak \/ StopProcess \/ Inspect
               \/ \E k \in Jobs : CleanupFolder(k)
        BY <2>6 DEF WorkerExit, CleanupSelect, CleanupRow, ClaimNothing, MonitorCancel, MonitorBreak,
                    StopProcess, Inspect, CleanupFolder, rowVars
    <2> QED BY <1>4, <2>1, <2>2, <2>3, <2>4, <2>5, <2>6 DEF WorkerStep
<1>5. CASE RunnerStep
    <2> PICK r \in Runners : \/ RunnerConvert(r) \/ RunnerPublish(r) \/ RunnerComplete(r)
                              \/ RunnerFail(r) \/ RunnerDie(r)
        BY <1>5 DEF RunnerStep
    <2>1. CASE RunnerConvert(r) \/ RunnerPublish(r) \/ RunnerDie(r)
        BY <2>1 DEF RunnerConvert, RunnerPublish, RunnerDie, rowVars
    <2>2. CASE RunnerComplete(r) \/ RunnerFail(r)
        <3>1. rjob[r] # j
            BY <2>2 DEF RunnerComplete, RunnerFail, RunnerOwned
        <3> QED BY <2>2, <3>1 DEF RunnerComplete, RunnerFail, SetStatus
    <2> QED BY <2>1, <2>2
<1>6. CASE Environment
    BY <1>6 DEF Environment, ApiCrash, Terminate, WorkerCrash, GoStale, Expire, rowVars
<1> QED BY <1>1, <1>2, <1>3, <1>4, <1>5, <1>6 DEF Next

\* A finished course stays in the catalogue until it is deleted or expires, whatever retries,
\* restarts and late reports do.
THEOREM CoursesStay == ASSUME ~OrphansSurvive PROVE Spec => CompletedStays
<1>1. /\ TypeInv /\ Ownership
      /\ [Next]_vars
      => [\A j \in Jobs : status[j] = "completed" /\ ~expired[j] => status'[j] = "completed"]_vars
    BY CompletedStep
<1>2. TypeInv /\ [Next]_vars => TypeInv'
    BY TypeNext
<1> QED BY <1>1, <1>2, TypeInit, OwnershipHolds, PTL DEF Spec, CompletedStays

\* A job enters the active set only through the admission test of upload and retry.
LEMMA ActiveStep ==
    ASSUME ~OrphansSurvive, TypeInv, Ownership, [Next]_vars
    PROVE  \/ Active' \subseteq Active
           \/ HasRoom /\ \E j \in Jobs : Active' \subseteq Active \cup {j}
<1> USE DEF TypeInv, TypeOK, RowsTyped, Ownership, Active, ActiveStates
<1>1. CASE UNCHANGED vars
    BY <1>1 DEF vars, rowVars
<1>2. CASE UploadStep
    <2> PICK j \in Jobs : \/ \E stamp \in Stamps : UploadInsert(j, stamp)
                          \/ UploadOpen(j) \/ UploadQueue(j) \/ UploadReply(j) \/ UploadAbort(j) \/ UploadDrop(j)
        BY <1>2 DEF UploadStep
    <2>1. CASE \E stamp \in Stamps : UploadInsert(j, stamp)
        BY <2>1 DEF UploadInsert
    <2>2. CASE UploadQueue(j)
        BY <2>2 DEF UploadQueue, SetStatus, UploadOwned, HasRow, RowStates
    <2>3. CASE UploadOpen(j) \/ UploadReply(j) \/ UploadAbort(j)
        BY <2>3 DEF UploadOpen, UploadReply, UploadAbort, rowVars
    <2>4. CASE UploadDrop(j)
        BY <2>4 DEF UploadDrop, DeleteRows
    <2> QED BY <2>1, <2>2, <2>3, <2>4
<1>3. CASE RequestStep
    <2>1. CASE \E a \in Admins : RequestRetry(a)
        BY <2>1 DEF RequestRetry
    <2>2. CASE ~ \E a \in Admins : RequestRetry(a)
        BY <1>3, <2>2 DEF RequestStep, RequestCheck, RequestDelete, RequestEdit, rowVars
    <2> QED BY <2>1, <2>2
<1>4. CASE WorkerStep
    <2>1. CASE Settle
        <3>1. \A j \in Jobs : status'[j] \in ActiveStates => status[j] \in ActiveStates
            <4>1. status'[current] = "queued" => status[current] \in ActiveStates
                BY <2>1 DEF Settle, Verdict, SetStatus, SeenFresh
            <4>2. status'[current] # status[current] => status'[current] \in {"queued", "failed"}
                BY <2>1 DEF Settle, Verdict, SetStatus
            <4>3. \A j \in Jobs : j # current => status'[j] = status[j]
                BY <2>1 DEF Settle, SetStatus
            <4> QED BY <4>1, <4>2, <4>3
        <3> QED BY <3>1
    <2>2. CASE CleanupCommit
        BY <2>2 DEF CleanupCommit, DeleteRows
    <2>3. CASE WorkerStart
        BY <2>3 DEF WorkerStart, Recovered
    <2>4. CASE \E k \in Jobs : Claim(k)
        BY <2>4 DEF Claim, Claimable
    <2>5. CASE \E r \in Runners : Spawn(r)
        BY <2>5 DEF Spawn, rowVars
    <2>6. CASE \/ WorkerExit \/ CleanupSelect \/ CleanupRow \/ ClaimNothing
               \/ MonitorCancel \/ MonitorBreak \/ StopProcess \/ Inspect
               \/ \E k \in Jobs : CleanupFolder(k)
        BY <2>6 DEF WorkerExit, CleanupSelect, CleanupRow, ClaimNothing, MonitorCancel, MonitorBreak,
                    StopProcess, Inspect, CleanupFolder, rowVars
    <2> QED BY <1>4, <2>1, <2>2, <2>3, <2>4, <2>5, <2>6 DEF WorkerStep
<1>5. CASE RunnerStep
    BY <1>5 DEF RunnerStep, RunnerConvert, RunnerPublish, RunnerComplete, RunnerFail, RunnerDie,
                SetStatus, rowVars
<1>6. CASE Environment
    BY <1>6 DEF Environment, ApiCrash, Terminate, WorkerCrash, GoStale, Expire, rowVars
<1> QED BY <1>1, <1>2, <1>3, <1>4, <1>5, <1>6 DEF Next

\* No step takes the active jobs past MAX_ACTIVE.
LEMMA ActiveBoundedStep ==
    ASSUME ~OrphansSurvive, TypeInv, Ownership, ActiveBounded, [Next]_vars
    PROVE  ActiveBounded'
<1>1. IsFiniteSet(Active) /\ Cardinality(Active) \in Nat
    BY JobsAreFinite, FS_Subset, FS_CardinalityType DEF Active
<1>2. CASE Active' \subseteq Active
    <2>1. Cardinality(Active') <= Cardinality(Active) /\ Cardinality(Active') \in Nat
        BY <1>1, <1>2, FS_Subset, FS_CardinalityType
    <2> QED BY <1>1, <2>1, BoundsAreNaturals DEF ActiveBounded
<1>3. CASE HasRoom /\ \E j \in Jobs : Active' \subseteq Active \cup {j}
    <2> PICK j \in Jobs : Active' \subseteq Active \cup {j}
        BY <1>3
    <2>1. /\ IsFiniteSet(Active \cup {j})
          /\ Cardinality(Active \cup {j}) \in Nat
          /\ Cardinality(Active \cup {j}) <= Cardinality(Active) + 1
        <3>1. /\ IsFiniteSet(Active \cup {j})
              /\ Cardinality(Active \cup {j}) =
                   IF j \in Active THEN Cardinality(Active) ELSE Cardinality(Active) + 1
            BY <1>1, FS_AddElement
        <3> QED BY <1>1, <3>1
    <2>2. Cardinality(Active') <= Cardinality(Active \cup {j}) /\ Cardinality(Active') \in Nat
        BY <2>1, FS_Subset, FS_CardinalityType
    <2> QED BY <1>1, <1>3, <2>1, <2>2, BoundsAreNaturals DEF HasRoom, ActiveBounded
<1> QED BY <1>2, <1>3, ActiveStep

\* MAX_ACTIVE holds over uploads, retries, restarts and timeouts together.
THEOREM CapacityKept == ASSUME ~OrphansSurvive PROVE Spec => []ActiveBounded
<1>1. Init => ActiveBounded
    <2> SUFFICES ASSUME Init PROVE ActiveBounded
        OBVIOUS
    <2>1. Active = {}
        BY DEF Init, Active, ActiveStates
    <2> QED BY <2>1, FS_EmptySet, BoundsAreNaturals DEF ActiveBounded
<1>2. TypeInv /\ Ownership /\ ActiveBounded /\ [Next]_vars => ActiveBounded'
    BY ActiveBoundedStep
<1>3. TypeInv /\ [Next]_vars => TypeInv'
    BY TypeNext
<1> QED BY <1>1, <1>2, <1>3, TypeInit, OwnershipHolds, PTL DEF Spec

(***************************************************************************)
(* The number of times a job is run.  `attempts' grows at the claim and the *)
(* cap is asked at the retry, so the argument follows a job around the      *)
(* queue: a waiting job has an attempt to spare, and so has an interrupted  *)
(* one, its interruption being counted in workerStops.                      *)
(***************************************************************************)
Ceiling == MaxAttempts + workerStops

AttemptsInv ==
    /\ \A j \in Jobs :
          /\ attempts[j] <= Ceiling
          /\ status[j] \in {"absent", "uploading"} => attempts[j] = 0
          /\ status[j] = "queued" => attempts[j] < Ceiling
          /\ status[j] = "queued" /\ stopping /\ worker \in {"sweep", "claim"} => attempts[j] + 1 < Ceiling
          /\ status[j] = "processing" /\ (stopping \/ worker = "down") => attempts[j] < Ceiling
    /\ stopping => workerStops > 0

\* A claim adds one attempt, to a job that had room for it.
LEMMA AttemptsStep ==
    ASSUME ~OrphansSurvive, TypeInv, Ownership, AttemptsInv, [Next]_vars
    PROVE  AttemptsInv'
<1> USE BoundsAreNaturals
        DEF TypeInv, TypeOK, RowsTyped, LoopTyped, LoopOK, ApiTyped, AttemptsInv, Ceiling, RowStates, ActiveStates,
            rowVars, fileVars, apiVars, workerVars, loopVars, sweepVars, runnerVars, countVars
<1>1. CASE UNCHANGED vars
    BY <1>1 DEF vars
<1>2. CASE UploadStep
    <2> PICK j \in Jobs : \/ \E stamp \in Stamps : UploadInsert(j, stamp)
                          \/ UploadOpen(j) \/ UploadQueue(j) \/ UploadReply(j) \/ UploadAbort(j) \/ UploadDrop(j)
        BY <1>2 DEF UploadStep
    <2>1. CASE \E stamp \in Stamps : UploadInsert(j, stamp)
        BY <2>1 DEF UploadInsert
    <2>2. CASE UploadQueue(j)
        BY <2>2 DEF UploadQueue, SetStatus, Ownership, UploadOwned, HasRow
    <2>3. CASE UploadOpen(j) \/ UploadReply(j) \/ UploadAbort(j)
        BY <2>3 DEF UploadOpen, UploadReply, UploadAbort
    <2>4. CASE UploadDrop(j)
        BY <2>4 DEF UploadDrop, DeleteRows
    <2> QED BY <2>1, <2>2, <2>3, <2>4
<1>3. CASE RequestStep
    <2>1. CASE \E a \in Admins : RequestRetry(a)
        BY <2>1 DEF RequestRetry, Retryable
    <2>2. CASE ~ \E a \in Admins : RequestRetry(a)
        BY <1>3, <2>2 DEF RequestStep, RequestCheck, RequestDelete, RequestEdit
    <2> QED BY <2>1, <2>2
<1>4. CASE WorkerStep
    <2>1. CASE Settle
        BY <2>1 DEF Settle, Verdict, SetStatus, Ownership, SeenFresh
    <2>2. CASE CleanupCommit
        BY <2>2 DEF CleanupCommit, DeleteRows
    <2>3. CASE WorkerStart
        BY <2>3 DEF WorkerStart, Recovered
    <2>4. CASE \E k \in Jobs : Claim(k)
        BY <2>4 DEF Claim, Claimable
    <2>5. CASE \E r \in Runners : Spawn(r)
        BY <2>5 DEF Spawn
    <2>6. CASE WorkerExit \/ CleanupSelect
        BY <2>6 DEF WorkerExit, CleanupSelect
    <2>7. CASE \/ CleanupRow \/ ClaimNothing \/ MonitorCancel \/ MonitorBreak \/ StopProcess \/ Inspect
               \/ \E k \in Jobs : CleanupFolder(k)
        BY <2>7 DEF CleanupRow, ClaimNothing, MonitorCancel, MonitorBreak,
                    StopProcess, Inspect, CleanupFolder
    <2> QED BY <1>4, <2>1, <2>2, <2>3, <2>4, <2>5, <2>6, <2>7 DEF WorkerStep
<1>5. CASE RunnerStep
    BY <1>5 DEF RunnerStep, RunnerConvert, RunnerPublish, RunnerComplete, RunnerFail, RunnerDie,
                SetStatus
<1>6. CASE Environment
    BY <1>6 DEF Environment, ApiCrash, Terminate, WorkerCrash, GoStale, Expire
<1> QED BY <1>1, <1>2, <1>3, <1>4, <1>5, <1>6 DEF Next

\* A job is run at most three times plus once per stop of the worker.
THEOREM AttemptsAreBounded == ASSUME ~OrphansSurvive PROVE Spec => []AttemptsBounded
<1>1. Init => AttemptsInv
    BY BoundsAreNaturals DEF Init, AttemptsInv, Ceiling
<1>2. TypeInv /\ Ownership /\ AttemptsInv /\ [Next]_vars => AttemptsInv'
    BY AttemptsStep
<1>3. TypeInv /\ [Next]_vars => TypeInv'
    BY TypeNext
<1>4. AttemptsInv => AttemptsBounded
    BY DEF AttemptsInv, AttemptsBounded, Ceiling
<1> QED BY <1>1, <1>2, <1>3, <1>4, TypeInit, OwnershipHolds, PTL DEF Spec

\* At most one subprocess runs, being the worker's child.
LEMMA OneChild == TypeInv /\ Ownership => OneRunner
<1> SUFFICES ASSUME TypeInv, Ownership PROVE OneRunner
    OBVIOUS
<1> DEFINE Live == {r \in Runners : running[r] # "off"}
<1>1. Live \subseteq {child}
    BY DEF Ownership, RunnerOwned
<1>2. IsFiniteSet({child}) /\ Cardinality({child}) = 1
    BY FS_Singleton
<1>3. Cardinality(Live) <= Cardinality({child})
    BY <1>1, <1>2, FS_Subset
<1> QED BY <1>2, <1>3 DEF OneRunner

\* One subprocess at a time, across time-outs, cancellations, shutdowns and crashes.
THEOREM RunsAlone == ASSUME ~OrphansSurvive PROVE Spec => []OneRunner
<1>1. TypeInv /\ [Next]_vars => TypeInv'
    BY TypeNext
<1> QED BY <1>1, OneChild, TypeInit, OwnershipHolds, PTL DEF Spec

(***************************************************************************)
(* Rows and files.  A folder is changed outside the transactions, so what   *)
(* ties it to its row is the place of the process at work on it.            *)
(***************************************************************************)
\* The folder is gone, or has escaped its removal.
Removed(j) == NoFiles(j) \/ escape[j] # "none"

FilesInv ==
    /\ CompletedHasBook /\ NothingLeftBehind
    /\ \A r \in Runners :
          /\ running[r] = "zip" => partial[rjob[r]] = "whole"
          /\ running[r] = "report" => book[rjob[r]] = "whole"
    /\ \A j \in Jobs :
          /\ upload[j] = "dropping" => Removed(j)
          /\ j \in dropped \/ j = wiping => Removed(j)
          /\ expired[j] => status[j] # "absent"

\* A course accepted is past its upload, and what was chosen for deletion has expired or turned
\* 660 s old while it was uploaded.
AcceptedInv ==
    \A j \in Jobs :
        /\ accepted[j] /\ ~expired[j] /\ ~stale[j] => HasRow(j)
        /\ accepted[j] \/ upload[j] = "replying" => status[j] \notin {"absent", "uploading"}
        /\ accepted[j] => upload[j] = "idle"
        /\ stale[j] => status[j] # "absent"
        /\ j \in sweep \cup dropped => expired[j] \/ stale[j]

\* An upload makes its folder while its row is `uploading', or too late and is noted, and removes
\* the folder before the row.
LEMMA FilesUpload ==
    ASSUME ~OrphansSurvive, TypeInv, Ownership, FilesInv, UploadStep
    PROVE  FilesInv'
<1> USE NobodyIsNoOne DEF TypeInv, TypeOK, RowsTyped, FilesTyped, ApiTyped, LoopTyped, RunnersTyped, LoopOK, Ownership,
            UploadOwned, RunnerOwned, SweepJustified, FilesInv, CompletedHasBook, NothingLeftBehind, NoFiles,
            Removed, HasRow, RowStates, ActiveStates, rowVars, fileVars, workerVars, loopVars, sweepVars, runnerVars
<1>1. CASE \E j \in Jobs : \E stamp \in Stamps : UploadInsert(j, stamp)
    BY <1>1 DEF UploadInsert
<1>2. CASE \E j \in Jobs : UploadQueue(j)
    BY <1>2 DEF UploadQueue, SetStatus
<1>3. CASE \E j \in Jobs : UploadReply(j)
    BY <1>3 DEF UploadReply
<1>4. CASE \E j \in Jobs : UploadAbort(j)
    BY <1>4 DEF UploadAbort, RemoveFolder
<1>5. CASE \E j \in Jobs : UploadDrop(j)
    BY <1>5 DEF UploadDrop, DeleteRows
<1>6. CASE \E j \in Jobs : UploadOpen(j)
    BY <1>6 DEF UploadOpen, RemovalOver
<1> QED BY <1>1, <1>2, <1>3, <1>4, <1>5, <1>6 DEF UploadStep

\* No request touches a file.
LEMMA FilesRequest ==
    ASSUME ~OrphansSurvive, TypeInv, Ownership, FilesInv, RequestStep
    PROVE  FilesInv'
<1> USE NobodyIsNoOne DEF TypeInv, TypeOK, RowsTyped, FilesTyped, ApiTyped, LoopTyped, RunnersTyped, LoopOK, Ownership,
            UploadOwned, RunnerOwned, SweepJustified, FilesInv, CompletedHasBook, NothingLeftBehind, NoFiles,
            Removed, HasRow, RowStates, ActiveStates, rowVars, fileVars, workerVars, loopVars, sweepVars, runnerVars
<1>1. CASE \E a \in Admins : \E op \in Operations, j \in Jobs : RequestCheck(a, op, j)
    BY <1>1 DEF RequestCheck
<1>2. CASE \E a \in Admins : RequestRetry(a)
    BY <1>2 DEF RequestRetry, Retryable
<1>3. CASE \E a \in Admins : RequestDelete(a)
    BY <1>3 DEF RequestDelete
<1>4. CASE \E a \in Admins : \E shown \in BOOLEAN : RequestEdit(a, shown)
    BY <1>4 DEF RequestEdit
<1> QED BY <1>1, <1>2, <1>3, <1>4 DEF RequestStep

\* The worker removes the folder of a row nobody works on, before the row.
LEMMA FilesWorker ==
    ASSUME ~OrphansSurvive, TypeInv, Ownership, FilesInv, WorkerStep
    PROVE  FilesInv'
<1> USE NobodyIsNoOne DEF TypeInv, TypeOK, RowsTyped, FilesTyped, ApiTyped, LoopTyped, RunnersTyped, LoopOK, Ownership,
            UploadOwned, RunnerOwned, SweepJustified, FilesInv, CompletedHasBook, NothingLeftBehind, NoFiles,
            Removed, HasRow, RowStates, ActiveStates, rowVars, fileVars, apiVars, loopVars, sweepVars, runnerVars
<1>1. CASE WorkerStart
    BY <1>1 DEF WorkerStart, Recovered
<1>2. CASE WorkerExit \/ CleanupSelect \/ ClaimNothing \/ MonitorCancel \/ MonitorBreak \/ Inspect
    BY <1>2 DEF WorkerExit, CleanupSelect, ClaimNothing, MonitorCancel, MonitorBreak, Inspect
<1>3. CASE CleanupRow
    BY <1>3 DEF CleanupRow
<1>4. CASE CleanupCommit
    BY <1>4 DEF CleanupCommit, DeleteRows
<1>5. CASE \E j \in Jobs : CleanupFolder(j)
    BY <1>5 DEF CleanupFolder, RemoveFolder
<1>6. CASE \E j \in Jobs : Claim(j)
    BY <1>6 DEF Claim, Claimable
<1>7. CASE \E r \in Runners : Spawn(r)
    BY <1>7 DEF Spawn
<1>8. CASE StopProcess
    BY <1>8 DEF StopProcess, Ends
<1>9. CASE Settle
    BY <1>9 DEF Settle, Verdict, SetStatus
<1> QED BY <1>1, <1>2, <1>3, <1>4, <1>5, <1>6, <1>7, <1>8, <1>9 DEF WorkerStep

\* The runner, which is alone, completes the row after the archive is in place.
LEMMA FilesRunner ==
    ASSUME ~OrphansSurvive, TypeInv, Ownership, FilesInv, RunnerStep
    PROVE  FilesInv'
<1> USE NobodyIsNoOne DEF TypeInv, TypeOK, RowsTyped, FilesTyped, ApiTyped, LoopTyped, RunnersTyped, LoopOK, Ownership,
            UploadOwned, RunnerOwned, SweepJustified, FilesInv, CompletedHasBook, NothingLeftBehind, NoFiles,
            Removed, HasRow, RowStates, ActiveStates, rowVars, fileVars, apiVars, workerVars, loopVars, sweepVars
<1>1. CASE \E r \in Runners : RunnerConvert(r)
    BY <1>1 DEF RunnerConvert
<1>2. CASE \E r \in Runners : RunnerPublish(r)
    BY <1>2 DEF RunnerPublish
<1>3. CASE \E r \in Runners : RunnerComplete(r)
    BY <1>3 DEF RunnerComplete, SetStatus, Ends
<1>4. CASE \E r \in Runners : RunnerFail(r)
    BY <1>4 DEF RunnerFail, SetStatus, Ends
<1>5. CASE \E r \in Runners : RunnerDie(r)
    BY <1>5 DEF RunnerDie, Ends
<1> QED BY <1>1, <1>2, <1>3, <1>4, <1>5 DEF RunnerStep

\* What crashes leave behind is what was there: a sweep rolled back keeps its rows.
LEMMA FilesEnvironment ==
    ASSUME ~OrphansSurvive, TypeInv, Ownership, FilesInv, Environment
    PROVE  FilesInv'
<1> USE NobodyIsNoOne DEF TypeInv, TypeOK, RowsTyped, FilesTyped, ApiTyped, LoopTyped, RunnersTyped, LoopOK, Ownership,
            UploadOwned, RunnerOwned, SweepJustified, FilesInv, CompletedHasBook, NothingLeftBehind, NoFiles,
            Removed, HasRow, RowStates, ActiveStates, rowVars, fileVars, apiVars, workerVars, loopVars, sweepVars, runnerVars
<1>1. CASE ApiCrash
    BY <1>1 DEF ApiCrash
<1>2. CASE Terminate
    BY <1>2 DEF Terminate
<1>3. CASE WorkerCrash
    BY <1>3 DEF WorkerCrash, ForgetTurn
<1>4. CASE \E j \in Jobs : GoStale(j)
    BY <1>4 DEF GoStale
<1>5. CASE \E j \in Jobs : Expire(j)
    BY <1>5 DEF Expire
<1> QED BY <1>1, <1>2, <1>3, <1>4, <1>5 DEF Environment

\* Every step keeps rows and files together, stuttering included.
LEMMA FilesNext ==
    ASSUME ~OrphansSurvive, TypeInv, Ownership, FilesInv, [Next]_vars
    PROVE  FilesInv'
<1>1. CASE UNCHANGED vars
    BY <1>1 DEF FilesInv, CompletedHasBook, NothingLeftBehind, NoFiles, Removed, HasRow, vars, rowVars, fileVars, apiVars,
                workerVars, loopVars, sweepVars, runnerVars
<1> QED BY <1>1, FilesUpload, FilesRequest, FilesWorker, FilesRunner, FilesEnvironment DEF Next

LEMMA FilesInit == Init => FilesInv
BY NobodyIsNoOne DEF Init, FilesInv, CompletedHasBook, NothingLeftBehind, NoFiles, Removed

\* Types, owners and files together: the invariant the theorems below rest on.
SafeInv == TypeInv /\ Ownership /\ FilesInv

LEMMA SafeInvariance == ASSUME ~OrphansSurvive PROVE Spec => []SafeInv
<1>1. Init => SafeInv
    BY TypeInit, OwnInit, FilesInit DEF SafeInv
<1>2. SafeInv /\ [Next]_vars => SafeInv'
    BY TypeNext, OwnNext, FilesNext DEF SafeInv
<1> QED BY <1>1, <1>2, PTL DEF Spec

\* What is completed can be downloaded whole; what is gone has left no file behind, unless its last
\* removal met an error or upload made the folder when the removal was over (worker.py:17,
\* main.py:307, main.py:321).
THEOREM RowsMatchFiles == ASSUME ~OrphansSurvive PROVE Spec => []FilesMatchRow
<1>1. SafeInv => FilesMatchRow
    BY DEF SafeInv, FilesInv, FilesMatchRow
<1> QED BY <1>1, SafeInvariance, PTL

\* The steps of a handler accept a course that is queued, and drop one that was never accepted.
LEMMA AcceptedUpload ==
    ASSUME ~OrphansSurvive, SafeInv, AcceptedInv, UploadStep
    PROVE  AcceptedInv'
<1> USE NobodyIsNoOne DEF TypeInv, TypeOK, RowsTyped, ApiTyped, LoopTyped, RunnersTyped, LoopOK, SafeInv, Ownership,
            UploadOwned, RunnerOwned, ClaimOwned, SweepJustified, FilesInv, AcceptedInv, HasRow, RowStates, ActiveStates,
            rowVars, fileVars, apiVars, workerVars, loopVars, sweepVars, runnerVars
<1>1. CASE \E j \in Jobs : \E stamp \in Stamps : UploadInsert(j, stamp)
    BY <1>1 DEF UploadInsert
<1>2. CASE \E j \in Jobs : UploadQueue(j)
    BY <1>2 DEF UploadQueue, SetStatus
<1>3. CASE \E j \in Jobs : UploadReply(j)
    BY <1>3 DEF UploadReply
<1>4. CASE \E j \in Jobs : UploadAbort(j)
    BY <1>4 DEF UploadAbort, RemoveFolder
<1>5. CASE \E j \in Jobs : UploadDrop(j)
    BY <1>5 DEF UploadDrop, DeleteRows
<1>6. CASE \E j \in Jobs : UploadOpen(j)
    BY <1>6 DEF UploadOpen, RemovalOver
<1> QED BY <1>1, <1>2, <1>3, <1>4, <1>5, <1>6 DEF UploadStep

\* A request re-queues what nobody chose for deletion, or it has expired.
LEMMA AcceptedRequest ==
    ASSUME ~OrphansSurvive, SafeInv, AcceptedInv, RequestStep
    PROVE  AcceptedInv'
<1> USE NobodyIsNoOne DEF TypeInv, TypeOK, RowsTyped, ApiTyped, LoopTyped, RunnersTyped, LoopOK, SafeInv, Ownership,
            UploadOwned, RunnerOwned, ClaimOwned, SweepJustified, FilesInv, AcceptedInv, HasRow, RowStates, ActiveStates,
            rowVars, fileVars, apiVars, workerVars, loopVars, sweepVars, runnerVars
<1>1. CASE \E a \in Admins : \E op \in Operations, j \in Jobs : RequestCheck(a, op, j)
    BY <1>1 DEF RequestCheck
<1>2. CASE \E a \in Admins : RequestRetry(a)
    BY <1>2 DEF RequestRetry, Retryable
<1>3. CASE \E a \in Admins : RequestDelete(a)
    BY <1>3 DEF RequestDelete
<1>4. CASE \E a \in Admins : \E shown \in BOOLEAN : RequestEdit(a, shown)
    BY <1>4 DEF RequestEdit
<1> QED BY <1>1, <1>2, <1>3, <1>4 DEF RequestStep

\* The worker's sweep takes expired rows, and uploads 660 s old.
LEMMA AcceptedWorker ==
    ASSUME ~OrphansSurvive, SafeInv, AcceptedInv, WorkerStep
    PROVE  AcceptedInv'
<1> USE NobodyIsNoOne DEF TypeInv, TypeOK, RowsTyped, ApiTyped, LoopTyped, RunnersTyped, LoopOK, SafeInv, Ownership,
            UploadOwned, RunnerOwned, ClaimOwned, SweepJustified, FilesInv, AcceptedInv, HasRow, RowStates, ActiveStates,
            rowVars, fileVars, apiVars, workerVars, loopVars, sweepVars, runnerVars
<1>1. CASE WorkerStart
    BY <1>1 DEF WorkerStart, Recovered
<1>2. CASE WorkerExit \/ ClaimNothing \/ MonitorCancel \/ MonitorBreak \/ Inspect
    BY <1>2 DEF WorkerExit, ClaimNothing, MonitorCancel, MonitorBreak, Inspect
<1>3. CASE CleanupSelect \/ CleanupRow
    BY <1>3 DEF CleanupSelect, Sweepable, CleanupRow
<1>4. CASE CleanupCommit
    BY <1>4 DEF CleanupCommit, DeleteRows
<1>5. CASE \E j \in Jobs : CleanupFolder(j)
    BY <1>5 DEF CleanupFolder
<1>6. CASE \E j \in Jobs : Claim(j)
    BY <1>6 DEF Claim, Claimable
<1>7. CASE \E r \in Runners : Spawn(r)
    BY <1>7 DEF Spawn
<1>8. CASE StopProcess
    BY <1>8 DEF StopProcess, Ends
<1>9. CASE Settle
    BY <1>9 DEF Settle, Verdict, SetStatus
<1> QED BY <1>1, <1>2, <1>3, <1>4, <1>5, <1>6, <1>7, <1>8, <1>9 DEF WorkerStep

\* A runner's report is about a row that is processing; the clock turns uploads stale only.
LEMMA AcceptedRest ==
    ASSUME ~OrphansSurvive, SafeInv, AcceptedInv, RunnerStep \/ Environment
    PROVE  AcceptedInv'
<1> USE NobodyIsNoOne DEF TypeInv, TypeOK, RowsTyped, ApiTyped, LoopTyped, RunnersTyped, LoopOK, SafeInv, Ownership,
            UploadOwned, RunnerOwned, ClaimOwned, SweepJustified, FilesInv, AcceptedInv, HasRow, RowStates, ActiveStates,
            rowVars, fileVars, apiVars, workerVars, loopVars, sweepVars, runnerVars
<1>1. CASE \E r \in Runners : RunnerConvert(r) \/ RunnerPublish(r) \/ RunnerDie(r)
    BY <1>1 DEF RunnerConvert, RunnerPublish, RunnerDie
<1>2. CASE \E r \in Runners : RunnerComplete(r) \/ RunnerFail(r)
    BY <1>2 DEF RunnerComplete, RunnerFail, SetStatus, Ends
<1>3. CASE ApiCrash
    BY <1>3 DEF ApiCrash
<1>4. CASE Terminate \/ WorkerCrash
    BY <1>4 DEF Terminate, WorkerCrash, ForgetTurn
<1>5. CASE \E j \in Jobs : GoStale(j) \/ Expire(j)
    BY <1>5 DEF GoStale, Expire
<1> QED BY <1>1, <1>2, <1>3, <1>4, <1>5 DEF RunnerStep, Environment

\* An upload answered 202 leaves the table only after its deletion or expiry, unless it was still
\* uploading 660 s after `created' (upload, cleanup, worker and runner of main.py, worker.py, runner.py).
THEOREM AcceptedStays == ASSUME ~OrphansSurvive PROVE Spec => []AcceptedKept
<1>1. Init => AcceptedInv
    BY NobodyIsNoOne DEF Init, AcceptedInv
<1>2. SafeInv /\ AcceptedInv /\ [Next]_vars => AcceptedInv'
    <2>1. CASE UNCHANGED vars
        BY <2>1 DEF AcceptedInv, HasRow, vars, rowVars, apiVars, workerVars, loopVars, sweepVars
    <2> QED BY <2>1, AcceptedUpload, AcceptedRequest, AcceptedWorker, AcceptedRest DEF Next
<1>3. AcceptedInv => AcceptedKept
    BY DEF AcceptedInv, AcceptedKept
<1> QED BY <1>1, <1>2, <1>3, SafeInvariance, PTL DEF Spec

(***************************************************************************)
(* The refinement of CourseCatalog.  What the users see of a row is a       *)
(* function of three of its columns; the lemmas named Maps... say which     *)
(* changes of the columns are which steps of the catalogue.                 *)
(***************************************************************************)
Visible(j) == HasRow(j) /\ ~expired[j] /\ available[j]

\* The phases of a row, one implication per phase.
PhasesAre ==
    \A j \in Jobs :
        /\ status[j] = "absent" => Phase(j) = "none"
        /\ status[j] = "gone" => Phase(j) = "removed"
        /\ HasRow(j) /\ expired[j] => Phase(j) = "removed"
        /\ status[j] \in ActiveStates /\ ~expired[j] => Phase(j) = "working"
        /\ status[j] = "completed" /\ ~expired[j] => Phase(j) = "ready"
        /\ status[j] = "failed" /\ ~expired[j] => Phase(j) = "failed"

LEMMA PhaseFacts == TypeInv => PhasesAre
BY DEF TypeInv, TypeOK, RowsTyped, PhasesAre, Phase, HasRow, RowStates, ActiveStates

\* A row seen as before.
Unmoved(j) == Phase(j)' = Phase(j) /\ Visible(j)' = Visible(j)

LEMMA MapsToStutter ==
    ASSUME \A j \in Jobs : Unmoved(j)
    PROVE  UNCHANGED Catalog!cvars
BY DEF Unmoved, Visible, Catalog!cvars

\* CourseCatalog counts as FiniteSets does.
LEMMA CountsAlike == \A S : Catalog!Cardinality(S) = Cardinality(S)
BY DEF Cardinality, Catalog!Cardinality

\* A row enters the pipeline behind the admission test.
LEMMA MapsToBegin ==
    ASSUME NEW c \in Jobs, TypeInv, HasRoom,
           Phase(c) \in {"none", "failed"}, Phase(c)' = "working",
           Visible(c)' = (IF Phase(c) = "none" THEN TRUE ELSE Visible(c)),
           \A j \in Jobs \ {c} : Unmoved(j)
    PROVE  Catalog!CatalogNext
<1>1. Cardinality(Catalog!Working) < MaxActive
    <2>1. Catalog!Working \subseteq Active
        BY PhaseFacts DEF Catalog!Working, Active, PhasesAre, TypeInv, TypeOK, RowsTyped, RowStates, ActiveStates, HasRow
    <2>2. IsFiniteSet(Active)
        BY JobsAreFinite, FS_Subset DEF Active
    <2>3. /\ Cardinality(Catalog!Working) \in Nat /\ Cardinality(Active) \in Nat
          /\ Cardinality(Catalog!Working) <= Cardinality(Active)
        BY <2>1, <2>2, FS_Subset, FS_CardinalityType
    <2> QED BY <2>3, BoundsAreNaturals DEF HasRoom
<1>2. Catalog!Begin(c)
    BY <1>1, CountsAlike DEF Catalog!Begin, Unmoved, Visible
<1> QED BY <1>2 DEF Catalog!CatalogNext

\* A conversion ends.
LEMMA MapsToFinish ==
    ASSUME NEW c \in Jobs, Phase(c) = "working", Phase(c)' \in {"ready", "failed"},
           Visible(c)' = Visible(c),
           \A j \in Jobs \ {c} : Unmoved(j)
    PROVE  Catalog!CatalogNext
<1>1. Catalog!Finish(c)
    BY DEF Catalog!Finish, Unmoved, Visible
<1> QED BY <1>1 DEF Catalog!CatalogNext

\* A course is shown or hidden.
LEMMA MapsToToggle ==
    ASSUME NEW c \in Jobs, Phase(c) \in Catalog!Present, Phase(c)' = Phase(c),
           Visible(c)' = ~Visible(c),
           \A j \in Jobs \ {c} : Unmoved(j)
    PROVE  Catalog!CatalogNext
<1>1. Catalog!Toggle(c)
    BY DEF Catalog!Toggle, Unmoved, Visible
<1> QED BY <1>1 DEF Catalog!CatalogNext

\* Some courses are removed for good.
LEMMA MapsToRemove ==
    ASSUME NEW gone \in SUBSET Jobs,
           \A c \in gone : Phase(c) \in Catalog!Present /\ Phase(c)' = "removed" /\ ~Visible(c)',
           \A j \in Jobs \ gone : Unmoved(j)
    PROVE  Catalog!CatalogNext
<1>1. Catalog!Remove(gone)
    BY DEF Catalog!Remove, Unmoved, Visible
<1> QED BY <1>1 DEF Catalog!CatalogNext

\* One course is removed.
LEMMA MapsToRemoveOne ==
    ASSUME NEW c \in Jobs, Phase(c) \in Catalog!Present, Phase(c)' = "removed", ~Visible(c)',
           \A j \in Jobs \ {c} : Unmoved(j)
    PROVE  Catalog!CatalogNext
<1>1. {c} \in SUBSET Jobs
    OBVIOUS
<1>2. \A d \in {c} : Phase(d) \in Catalog!Present /\ Phase(d)' = "removed" /\ ~Visible(d)'
    OBVIOUS
<1> QED BY <1>1, <1>2, MapsToRemove

\* The handler of an upload begins a course and gives up an upload, and nothing else of it is seen.
LEMMA SeenUpload ==
    ASSUME ~OrphansSurvive, SafeInv, PhasesAre, PhasesAre', UploadStep
    PROVE  [Catalog!CatalogNext]_Catalog!cvars
<1> USE DEF SafeInv, TypeInv, TypeOK, RowsTyped, Ownership, UploadOwned, FilesInv, HasRow, RowStates, ActiveStates,
            PhasesAre, Unmoved, Visible, rowVars
<1> PICK c \in Jobs : \/ \E stamp \in Stamps : UploadInsert(c, stamp)
                      \/ UploadOpen(c) \/ UploadQueue(c) \/ UploadReply(c) \/ UploadAbort(c) \/ UploadDrop(c)
    BY DEF UploadStep
<1>1. CASE \E stamp \in Stamps : UploadInsert(c, stamp)
    <2>1. HasRoom /\ status[c] = "absent" /\ ~expired[c]
        BY <1>1 DEF UploadInsert
    <2>2. /\ status' = [status EXCEPT ![c] = "uploading"]
          /\ available' = [available EXCEPT ![c] = TRUE] /\ expired' = expired
        BY <1>1 DEF UploadInsert
    <2>3. Phase(c) = "none" /\ Phase(c)' = "working" /\ Visible(c)' = TRUE
        BY <2>1, <2>2
    <2>4. \A j \in Jobs \ {c} : Unmoved(j)
        BY <2>2 DEF Phase
    <2> HIDE DEF Unmoved, Visible, PhasesAre, TypeInv
    <2> QED BY <2>1, <2>3, <2>4, MapsToBegin
<1>2. CASE UploadOpen(c) \/ UploadQueue(c) \/ UploadReply(c) \/ UploadAbort(c)
    <2>1. /\ UNCHANGED <<expired, available>>
          /\ \A j \in Jobs : \/ status'[j] = status[j]
                             \/ status[j] = "uploading" /\ status'[j] = "queued"
        BY <1>2 DEF UploadOpen, UploadQueue, UploadReply, UploadAbort, SetStatus
    <2>2. \A j \in Jobs : Unmoved(j)
        BY <2>1
    <2> HIDE DEF Unmoved
    <2> QED BY <2>2, MapsToStutter
<1>3. CASE UploadDrop(c)
    <2>1. /\ status' = [status EXCEPT ![c] = "gone"] /\ expired' = expired
          /\ \A j \in Jobs \ {c} : available'[j] = available[j]
        BY <1>3 DEF UploadDrop, DeleteRows
    <2>2. status[c] \in {"uploading", "gone"}
        BY <1>3 DEF UploadDrop
    <2>3. \A j \in Jobs \ {c} : Unmoved(j)
        BY <2>1 DEF Phase
    <2>4. Phase(c)' = "removed" /\ ~Visible(c)'
        BY <2>1
    <2>5. CASE status[c] = "uploading" /\ ~expired[c]
        <3>1. Phase(c) \in Catalog!Present
            BY <2>5 DEF Catalog!Present
        <3> HIDE DEF Unmoved, Visible, PhasesAre
        <3> QED BY <2>3, <2>4, <3>1, MapsToRemoveOne
    <2>6. CASE status[c] = "gone" \/ expired[c]
        <3>1. Unmoved(c)
            BY <2>1, <2>2, <2>4, <2>6
        <3> HIDE DEF Unmoved
        <3> QED BY <2>3, <3>1, MapsToStutter
    <2> QED BY <2>2, <2>5, <2>6
<1> QED BY <1>1, <1>2, <1>3

\* A request begins, hides, shows or removes the course it checked, or comes too late to be seen.
LEMMA SeenRequest ==
    ASSUME ~OrphansSurvive, SafeInv, PhasesAre, PhasesAre', RequestStep
    PROVE  [Catalog!CatalogNext]_Catalog!cvars
<1> USE DEF SafeInv, TypeInv, TypeOK, RowsTyped, ApiTyped, HasRow, RowStates, ActiveStates, PhasesAre, Unmoved, Visible, rowVars
<1>1. CASE \E a \in Admins : \E op \in Operations, j \in Jobs : RequestCheck(a, op, j)
    <2>1. \A j \in Jobs : Unmoved(j)
        BY <1>1 DEF RequestCheck, Phase
    <2> HIDE DEF Unmoved
    <2> QED BY <2>1, MapsToStutter
<1>2. ASSUME NEW a \in Admins, RequestRetry(a) PROVE [Catalog!CatalogNext]_Catalog!cvars
    <2> PICK c \in Jobs : c = request[a].job
        BY <1>2 DEF RequestRetry, Idle
    <2>1. UNCHANGED <<expired, available>>
        BY <1>2 DEF RequestRetry
    <2>2. CASE HasRoom /\ Retryable(c) /\ ~expired[c]
        <3>1. status[c] = "failed" /\ status' = [status EXCEPT ![c] = "queued"]
            BY <1>2, <2>2 DEF RequestRetry, Retryable
        <3>2. Phase(c) = "failed" /\ Phase(c)' = "working" /\ Visible(c)' = Visible(c)
            BY <2>1, <2>2, <3>1
        <3>3. \A j \in Jobs \ {c} : Unmoved(j)
            BY <2>1, <3>1 DEF Phase
        <3> HIDE DEF Unmoved, Visible, PhasesAre, TypeInv
        <3> QED BY <2>1, <2>2, <3>2, <3>3, MapsToBegin
    <2>3. CASE ~(HasRoom /\ Retryable(c)) \/ expired[c]
        <3>1. \A j \in Jobs : \/ status'[j] = status[j]
                              \/ expired[j] /\ status[j] = "failed" /\ status'[j] = "queued"
            BY <1>2, <2>1, <2>3 DEF RequestRetry, Retryable
        <3>2. \A j \in Jobs : Unmoved(j)
            BY <2>1, <3>1
        <3> HIDE DEF Unmoved
        <3> QED BY <3>2, MapsToStutter
    <2> QED BY <2>2, <2>3
<1>3. ASSUME NEW a \in Admins, RequestDelete(a) PROVE [Catalog!CatalogNext]_Catalog!cvars
    <2> PICK c \in Jobs : c = request[a].job
        BY <1>3 DEF RequestDelete, Idle
    <2>1. status' = status
        BY <1>3 DEF RequestDelete
    <2>2. /\ expired' = [expired EXCEPT ![c] = HasRow(c) \/ @]
          /\ available' = [available EXCEPT ![c] = ~HasRow(c) /\ @]
        BY <1>3 DEF RequestDelete
    <2>3. \A j \in Jobs \ {c} : Unmoved(j)
        BY <2>1, <2>2 DEF Phase
    <2>4. CASE HasRow(c) /\ ~expired[c]
        <3>1. Phase(c) \in Catalog!Present /\ Phase(c)' = "removed" /\ ~Visible(c)'
            BY <2>1, <2>2, <2>4 DEF Catalog!Present
        <3> HIDE DEF Unmoved, Visible, PhasesAre
        <3> QED BY <2>1, <2>3, <3>1, MapsToRemoveOne
    <2>5. CASE ~HasRow(c) \/ expired[c]
        <3>1. Unmoved(c)
            BY <2>1, <2>2, <2>5
        <3> HIDE DEF Unmoved
        <3> QED BY <2>3, <3>1, MapsToStutter
    <2> QED BY <2>4, <2>5
<1>4. ASSUME NEW a \in Admins, NEW shown \in BOOLEAN, RequestEdit(a, shown)
      PROVE  [Catalog!CatalogNext]_Catalog!cvars
    <2> PICK c \in Jobs : c = request[a].job
        BY <1>4 DEF RequestEdit, Idle
    <2>1. UNCHANGED <<status, expired>>
        BY <1>4 DEF RequestEdit
    <2>2. available' = [available EXCEPT ![c] = IF HasRow(c) THEN shown ELSE @]
        BY <1>4 DEF RequestEdit
    <2>3. \A j \in Jobs \ {c} : Unmoved(j)
        BY <2>1, <2>2 DEF Phase
    <2>4. CASE HasRow(c) /\ ~expired[c] /\ available[c] # shown
        <3>1. Phase(c) \in Catalog!Present /\ Phase(c)' = Phase(c) /\ Visible(c)' = ~Visible(c)
            BY <2>1, <2>2, <2>4 DEF Catalog!Present
        <3> HIDE DEF Unmoved, Visible, PhasesAre
        <3> QED BY <2>1, <2>3, <3>1, MapsToToggle
    <2>5. CASE ~(HasRow(c) /\ ~expired[c] /\ available[c] # shown)
        <3>1. Unmoved(c)
            BY <2>1, <2>2, <2>5
        <3> HIDE DEF Unmoved
        <3> QED BY <2>3, <3>1, MapsToStutter
    <2> QED BY <2>4, <2>5
<1> QED BY <1>1, <1>2, <1>3, <1>4 DEF RequestStep

\* Of the worker's steps the verdict on a job and the commit of a sweep are seen, the first as the
\* end of a conversion, the second as a removal of what nobody had deleted: uploads given up.
LEMMA SeenWorker ==
    ASSUME ~OrphansSurvive, SafeInv, PhasesAre, PhasesAre', WorkerStep
    PROVE  [Catalog!CatalogNext]_Catalog!cvars
<1> USE DEF SafeInv, TypeInv, TypeOK, RowsTyped, LoopTyped, LoopOK, HasRow, RowStates, ActiveStates, PhasesAre,
            Unmoved, Visible
<1>1. CASE CleanupCommit
    <2> DEFINE lost == {j \in dropped : HasRow(j) /\ ~expired[j]}
    <2>1. /\ expired' = expired
          /\ \A j \in dropped : status'[j] = "gone"
          /\ \A j \in Jobs \ dropped : status'[j] = status[j] /\ available'[j] = available[j]
        BY <1>1 DEF CleanupCommit, DeleteRows
    <2>2. \A j \in Jobs \ dropped : Unmoved(j)
        BY <2>1 DEF Phase
    <2>3. \A j \in dropped : Phase(j)' = "removed" /\ ~Visible(j)'
        BY <2>1
    <2>4. \A j \in dropped : expired[j] \/ status[j] \in {"uploading", "queued", "gone"}
        BY DEF Ownership, SweepJustified
    <2>5. \A j \in lost : Phase(j) \in Catalog!Present
        BY DEF Catalog!Present
    <2>6. \A j \in dropped \ lost : Phase(j) = "removed" /\ ~Visible(j)
        BY <2>4 DEF FilesInv
    <2>7. \A j \in Jobs \ lost : Unmoved(j)
        BY <2>2, <2>3, <2>6
    <2>8. lost \in SUBSET Jobs /\ \A j \in lost : Phase(j)' = "removed" /\ ~Visible(j)'
        BY <2>3
    <2> HIDE DEF Unmoved, Visible, PhasesAre, lost
    <2> QED BY <2>5, <2>7, <2>8, MapsToRemove
<1>2. CASE Settle
    <2> PICK c \in Jobs : c = current
        BY <1>2 DEF Settle
    <2>1. /\ UNCHANGED <<expired, available>>
          /\ \A j \in Jobs \ {c} : status'[j] = status[j]
        BY <1>2 DEF Settle, SetStatus
    <2>2. \A j \in Jobs \ {c} : Unmoved(j)
        BY <2>1 DEF Phase
    <2>3. CASE status[c] = "processing" /\ status'[c] = "failed" /\ ~expired[c]
        <3>1. Phase(c) = "working" /\ Phase(c)' = "failed" /\ Visible(c)' = Visible(c)
            BY <2>1, <2>3
        <3> HIDE DEF Unmoved, Visible, PhasesAre
        <3> QED BY <2>2, <3>1, MapsToFinish
    <2>4. CASE ~(status[c] = "processing" /\ status'[c] = "failed" /\ ~expired[c])
        <3>1. \/ status'[c] = status[c]
              \/ HasRow(c) /\ status'[c] \in RowStates
                 /\ (expired[c] \/ {status[c], status'[c]} \subseteq ActiveStates)
            <4>1. status[c] = "processing" <=> seen = "processing"
                BY <1>2 DEF Settle, Ownership, SeenFresh
            <4>2. cancelled => ~HasRow(c) \/ expired[c]
                BY DEF Ownership, CancelJustified
            <4>3. CASE Verdict = "keep" \/ ~HasRow(c)
                BY <1>2, <4>3 DEF Settle, SetStatus
            <4>4. CASE Verdict # "keep" /\ HasRow(c)
                <5>1. status'[c] = Verdict
                    BY <1>2, <4>4 DEF Settle, SetStatus
                <5>2. CASE Verdict = "queued"
                    BY <4>1, <5>1, <5>2, <4>4 DEF Verdict
                <5>3. CASE Verdict = "failed"
                    BY <4>1, <4>2, <4>4, <5>1, <5>3, <2>4 DEF Verdict
                <5> QED BY <4>4, <5>2, <5>3 DEF Verdict
            <4> QED BY <4>3, <4>4
        <3>2. Unmoved(c)
            <4>1. CASE status'[c] = status[c]
                BY <2>1, <4>1 DEF Phase
            <4>2. CASE status'[c] # status[c]
                BY <2>1, <3>1, <4>2
            <4> QED BY <4>1, <4>2
        <3> HIDE DEF Unmoved
        <3> QED BY <2>2, <3>2, MapsToStutter
    <2> QED BY <2>3, <2>4
<1>3. CASE WorkerStart \/ \E c \in Jobs : Claim(c)
    <2>1. /\ UNCHANGED <<expired, available>>
          /\ \A j \in Jobs : status'[j] = status[j] \/ {status[j], status'[j]} \subseteq ActiveStates
        BY <1>3 DEF WorkerStart, Recovered, Claim, Claimable
    <2>2. \A j \in Jobs : Unmoved(j)
        BY <2>1
    <2> HIDE DEF Unmoved
    <2> QED BY <2>2, MapsToStutter
<1>4. CASE \/ WorkerExit \/ CleanupSelect \/ CleanupRow \/ ClaimNothing \/ MonitorCancel \/ MonitorBreak
           \/ StopProcess \/ Inspect \/ (\E j \in Jobs : CleanupFolder(j)) \/ \E r \in Runners : Spawn(r)
    <2>1. UNCHANGED <<status, expired, available>>
        BY <1>4 DEF WorkerExit, CleanupSelect, CleanupRow, ClaimNothing, MonitorCancel, MonitorBreak, StopProcess,
                    Inspect, CleanupFolder, Spawn, rowVars
    <2>2. \A j \in Jobs : Unmoved(j)
        BY <2>1 DEF Phase
    <2> HIDE DEF Unmoved
    <2> QED BY <2>2, MapsToStutter
<1> QED BY <1>1, <1>2, <1>3, <1>4 DEF WorkerStep

\* A runner finishes the row it converts, which may have expired meanwhile.
LEMMA SeenRunner ==
    ASSUME ~OrphansSurvive, SafeInv, PhasesAre, PhasesAre', RunnerStep
    PROVE  [Catalog!CatalogNext]_Catalog!cvars
<1> USE DEF SafeInv, TypeInv, TypeOK, RowsTyped, LoopTyped, LoopOK, RunnersTyped, HasRow, RowStates, ActiveStates, PhasesAre,
            Unmoved, Visible
<1>1. ASSUME NEW r \in Runners, RunnerComplete(r) \/ RunnerFail(r) PROVE [Catalog!CatalogNext]_Catalog!cvars
    <2> PICK c \in Jobs : c = rjob[r] /\ status[c] = "processing"
        BY <1>1 DEF RunnerComplete, RunnerFail, Ownership, RunnerOwned
    <2>1. /\ UNCHANGED <<expired, available>>
          /\ \A j \in Jobs \ {c} : status'[j] = status[j]
          /\ status'[c] \in {"completed", "failed"}
        BY <1>1 DEF RunnerComplete, RunnerFail, SetStatus
    <2>2. \A j \in Jobs \ {c} : Unmoved(j)
        BY <2>1 DEF Phase
    <2>3. CASE ~expired[c]
        <3>1. Phase(c) = "working" /\ Phase(c)' \in {"ready", "failed"} /\ Visible(c)' = Visible(c)
            BY <2>1, <2>3
        <3> HIDE DEF Unmoved, Visible, PhasesAre
        <3> QED BY <2>2, <3>1, MapsToFinish
    <2>4. CASE expired[c]
        <3>1. Unmoved(c)
            BY <2>1, <2>4
        <3> HIDE DEF Unmoved
        <3> QED BY <2>2, <3>1, MapsToStutter
    <2> QED BY <2>3, <2>4
<1>2. CASE \E r \in Runners : RunnerConvert(r) \/ RunnerPublish(r) \/ RunnerDie(r)
    <2>1. UNCHANGED <<status, expired, available>>
        BY <1>2 DEF RunnerConvert, RunnerPublish, RunnerDie, rowVars
    <2>2. \A j \in Jobs : Unmoved(j)
        BY <2>1 DEF Phase
    <2> HIDE DEF Unmoved
    <2> QED BY <2>2, MapsToStutter
<1> QED BY <1>1, <1>2 DEF RunnerStep

\* The end of a course's retention removes it; crashes and signals are not seen.
LEMMA SeenEnvironment ==
    ASSUME ~OrphansSurvive, SafeInv, PhasesAre, PhasesAre', Environment
    PROVE  [Catalog!CatalogNext]_Catalog!cvars
<1> USE DEF SafeInv, TypeInv, TypeOK, RowsTyped, HasRow, RowStates, ActiveStates, PhasesAre, Unmoved, Visible
<1>1. ASSUME NEW c \in Jobs, Expire(c) PROVE [Catalog!CatalogNext]_Catalog!cvars
    <2>1. /\ UNCHANGED <<status, available>> /\ HasRow(c) /\ ~expired[c]
          /\ expired' = [expired EXCEPT ![c] = TRUE]
        BY <1>1 DEF Expire
    <2>2. \A j \in Jobs \ {c} : Unmoved(j)
        BY <2>1 DEF Phase
    <2>3. Phase(c) \in Catalog!Present /\ Phase(c)' = "removed" /\ ~Visible(c)'
        BY <2>1 DEF Catalog!Present
    <2> HIDE DEF Unmoved, Visible, PhasesAre
    <2> QED BY <2>2, <2>3, MapsToRemoveOne
<1>2. CASE ApiCrash \/ Terminate \/ WorkerCrash \/ \E j \in Jobs : GoStale(j)
    <2>1. UNCHANGED <<status, expired, available>>
        BY <1>2 DEF ApiCrash, Terminate, WorkerCrash, GoStale, rowVars
    <2>2. \A j \in Jobs : Unmoved(j)
        BY <2>1 DEF Phase
    <2> HIDE DEF Unmoved
    <2> QED BY <2>2, MapsToStutter
<1> QED BY <1>1, <1>2 DEF Environment

\* The endpoints, the worker and the runner together implement the catalogue their users see:
\* a removed course never returns, a ready one never goes back, the capacity is kept.
THEOREM PipelineImplementsCatalog == ASSUME ~OrphansSurvive PROVE Spec => ImplementsCatalog
<1>1. Init => Catalog!CatalogInit
    <2> SUFFICES ASSUME Init PROVE Catalog!CatalogInit
        OBVIOUS
    <2>1. \A j \in Jobs : Phase(j) = "none" /\ ~HasRow(j)
        BY TypeInit, PhaseFacts DEF Init, PhasesAre, HasRow, RowStates, ActiveStates
    <2> QED BY <2>1 DEF Catalog!CatalogInit
<1>2. SafeInv /\ PhasesAre /\ PhasesAre' /\ [Next]_vars => [Catalog!CatalogNext]_Catalog!cvars
    <2> SUFFICES ASSUME SafeInv, PhasesAre, PhasesAre', [Next]_vars
                 PROVE  [Catalog!CatalogNext]_Catalog!cvars
        OBVIOUS
    <2>1. CASE UNCHANGED vars
        <3>1. UNCHANGED <<status, expired, available>>
            BY <2>1 DEF vars, rowVars
        <3>2. \A j \in Jobs : Unmoved(j)
            BY <3>1 DEF Unmoved, Visible, Phase, HasRow
        <3> QED BY <3>2, MapsToStutter
    <2> QED BY <2>1, SeenUpload, SeenRequest, SeenWorker, SeenRunner, SeenEnvironment DEF Next
<1>3. SafeInv => PhasesAre
    BY PhaseFacts DEF SafeInv
<1> QED BY <1>1, <1>2, <1>3, SafeInvariance, PTL DEF Spec, ImplementsCatalog, Catalog!CatalogSpec
=============================================================================
