----------------------------- MODULE PageBuilds -----------------------------
(***************************************************************************)
(* The interactive pages of a course (app/enrich.py and its endpoints in    *)
(* app/main.py) beside the conversion of its book: the batch an             *)
(* administrator starts, the readers of single pages, each in a thread of   *)
(* its own, and the removal of the course under them.                       *)
(*                                                                         *)
(* A page is written to interactive-<n>.tmp and renamed.  The batch and the *)
(* readers share that name; readers of one page take turns under its lock,   *)
(* the batch takes no lock.  A thread writes to the file it opened, wherever *)
(* a rename has put it since.                                               *)
(***************************************************************************)
EXTENDS PageConversion

CONSTANTS
    Readers,         \* threads that answer GET .../interactive
    Batch,           \* the thread of start_batch()
    Nobody,
    Whole, Empty, Garbled,    \* a page; a file truncated; one written by two at once
    MaxRequests, MaxCrashes   \* bounds: requests, restarts of the API

ASSUME ThreadAssumption == Batch \notin Readers /\ Nobody \notin Readers \cup {Batch}
ASSUME FileAssumption == None \notin {Whole, Empty, Garbled} /\ Whole \notin {Empty, Garbled}
ASSUME RequestAssumption == MaxRequests \in Nat /\ MaxCrashes \in Nat

VARIABLES
    inter, tmp,      \* interactive-<n>.json and .tmp
    status,          \* enrich-status.json: what read_status() merges
    running,         \* is the course in _running?
    asked,           \* a request to build is past its checks
    thread,          \* what each thread is doing
    removed,         \* the row is gone, its folder was removed
    requests, crashes,
    sole, spoilt     \* observers, see Opened

buildVars == <<inter, tmp, status, running, asked, thread, removed, requests, crashes, sole, spoilt>>
vars == <<convVars, buildVars>>

Threads == Readers \cup {Batch}
Idle == [at |-> "idle", page |-> 1, admin |-> FALSE, file |-> "none", failed |-> FALSE]

BuildInit ==
    /\ Init
    /\ inter = NoFiles
    /\ tmp = NoFiles
    /\ status = "idle"
    /\ running = FALSE
    /\ asked = FALSE
    /\ thread = [t \in Threads |-> Idle]
    /\ removed = FALSE
    /\ requests = 0
    /\ crashes = 0
    /\ sole = [p \in Pages |-> Nobody]
    /\ spoilt = {}

-----------------------------------------------------------------------------
(* Writing one page.                                                       *)

Goes(t, step) == thread' = [thread EXCEPT ![t].at = step]

\* Who has the .tmp of page p open.
Writers(p) == {t \in Threads : thread[t].at \in {"fill", "replace"} /\ thread[t].page = p}

\* sole[p] is the writer of p whom nobody has joined; a page is spoilt from the moment the
\* batch and a reader write it at once until one of them writes it alone.
Opened(t, p) ==
    IF Writers(p) = {}
    THEN sole' = [sole EXCEPT ![p] = t] /\ UNCHANGED spoilt
    ELSE /\ sole' = [sole EXCEPT ![p] = Nobody]
         /\ spoilt' = IF Batch \in Writers(p) \cup {t} THEN spoilt \cup {p} ELSE spoilt

\* open(tmp, "w"), in a folder that is made when it is missing.
Open(t) ==
    /\ thread[t].at = "open"
    /\ LET p == thread[t].page
       IN tmp' = [tmp EXCEPT ![p] = Empty] /\ Opened(t, p)
    /\ thread' = [thread EXCEPT ![t].at = "fill", ![t].file = "tmp"]
    /\ UNCHANGED <<convVars, inter, status, running, asked, removed, requests, crashes>>

\* Two texts in one file may overlap.
Written(content) == IF content = Empty THEN {Whole} ELSE {Whole, Garbled}

Fill(t) ==
    /\ thread[t].at = "fill"
    /\ LET p == thread[t].page
           Into(file) == \E c \in Written(file[p]) : file' = [file EXCEPT ![p] = c]
       IN CASE thread[t].file = "tmp"  -> Into(tmp) /\ UNCHANGED inter
            [] thread[t].file = "json" -> Into(inter) /\ UNCHANGED tmp
            [] OTHER -> UNCHANGED <<inter, tmp>>
    /\ Goes(t, "replace")
    /\ UNCHANGED <<convVars, status, running, asked, removed, requests, crashes, sole, spoilt>>

Moved(file) == CASE file = "tmp" -> "json" [] file = "json" -> "lost" [] OTHER -> file

\* Without a .tmp the rename raises: the reader's request fails (500), the batch is over.
Replace(t) ==
    /\ thread[t].at = "replace"
    /\ LET p == thread[t].page
       IN IF tmp[p] = None
          THEN /\ thread' = IF t = Batch THEN [thread EXCEPT ![t].at = "raised"]
                                         ELSE [thread EXCEPT ![t] = Idle]
               /\ UNCHANGED <<inter, tmp, spoilt>>
          ELSE /\ inter' = [inter EXCEPT ![p] = tmp[p]]
               /\ tmp' = [tmp EXCEPT ![p] = None]
               /\ spoilt' = IF sole[p] = t THEN spoilt \ {p} ELSE spoilt
               /\ thread' = [u \in Threads |->
                     IF u = t THEN IF t = Batch THEN [thread[t] EXCEPT !.at = "report", !.file = "none"]
                                                ELSE Idle
                     ELSE IF u \in Writers(p) THEN [thread[u] EXCEPT !.file = Moved(@)] ELSE thread[u]]
    /\ UNCHANGED <<convVars, status, running, asked, removed, requests, crashes, sole>>

-----------------------------------------------------------------------------
(* A reader: GET /api/courses/{id}/pages/{n}/interactive.                   *)

\* Requests and interruptions share a bound.
Request == requests + stops < MaxRequests /\ requests' = requests + 1

\* Mutated form: whoever asks may have the page made.
ReadAnyway(t) ==
    /\ thread[t].at = "idle"
    /\ at = "done" /\ ~cloud /\ ~removed
    /\ Request
    /\ \E p \in Pages, admin \in BOOLEAN :
          thread' = [thread EXCEPT ![t] = [Idle EXCEPT !.at = "load", !.page = p, !.admin = admin]]
    /\ UNCHANGED <<convVars, inter, tmp, status, running, asked, removed, crashes, sole, spoilt>>

\* viewable(); a client is turned away (409) when the page is not there.
Read(t) ==
    /\ thread[t].at = "idle"
    /\ at = "done" /\ ~cloud /\ ~removed
    /\ Request
    /\ \E p \in Pages, admin \in BOOLEAN :
          /\ admin \/ inter[p] # None
          /\ thread' = [thread EXCEPT ![t] = [Idle EXCEPT !.at = "load", !.page = p, !.admin = admin]]
    /\ UNCHANGED <<convVars, inter, tmp, status, running, asked, removed, crashes, sole, spoilt>>

\* load_or_generate(): served from disk when the file can be read.
Load(t) ==
    /\ thread[t].at = "load"
    /\ thread' = [thread EXCEPT ![t] = IF inter[@.page] = Whole THEN Idle ELSE [@ EXCEPT !.at = "lock"]]
    /\ UNCHANGED <<convVars, inter, tmp, status, running, asked, removed, requests, crashes, sole, spoilt>>

\* Mutated form: the lock is let go before the rename.
LockedWhileMade(p) == \E r \in Readers : thread[r].page = p /\ thread[r].at \in {"make", "open", "fill"}

Locked(p) == \E r \in Readers : thread[r].page = p /\ thread[r].at \in {"make", "open", "fill", "replace"}

\* Mutated form: no lock.
LockNone(t) ==
    /\ thread[t].at = "lock"
    /\ thread' = [thread EXCEPT ![t] = IF inter[@.page] = Whole THEN Idle ELSE [@ EXCEPT !.at = "make"]]
    /\ UNCHANGED <<convVars, inter, tmp, status, running, asked, removed, requests, crashes, sole, spoilt>>

\* Under the page's lock the file is looked at again, and generate() called without it.
Lock(t) ==
    /\ thread[t].at = "lock"
    /\ ~Locked(thread[t].page)
    /\ thread' = [thread EXCEPT ![t] = IF inter[@.page] = Whole THEN Idle ELSE [@ EXCEPT !.at = "make"]]
    /\ UNCHANGED <<convVars, inter, tmp, status, running, asked, removed, requests, crashes, sole, spoilt>>

\* The model answers, or EnrichError is answered with 503.
Make(t) ==
    /\ thread[t].at = "make"
    /\ \/ Goes(t, "open")
       \/ thread' = [thread EXCEPT ![t] = Idle]
    /\ UNCHANGED <<convVars, inter, tmp, status, running, asked, removed, requests, crashes, sole, spoilt>>

Reader(t) == Read(t) \/ Load(t) \/ Lock(t) \/ Make(t) \/ Open(t) \/ Fill(t) \/ Replace(t)

-----------------------------------------------------------------------------
(* The batch.                                                              *)

\* read_status(): a build nobody runs was interrupted.
Shown == IF status = "building" /\ ~running THEN "interrupted" ELSE status

Reports(shown) ==
    /\ status' = shown
    /\ UNCHANGED <<convVars, inter, tmp, asked, removed, requests, crashes, sole, spoilt>>
BatchAt(step) == thread[Batch].at = step
Next1 == thread[Batch].page + 1

\* POST /api/admin/courses/{id}/enrich: admin_job() and a manifest are all it takes.
Ask ==
    /\ ~cloud /\ ~removed
    /\ manifest # None
    /\ Request
    /\ ~asked
    /\ asked' = TRUE
    /\ UNCHANGED <<convVars, inter, tmp, status, running, thread, removed, crashes, sole, spoilt>>

\* start_batch(): one at a time, or 409.
Start ==
    /\ asked
    /\ asked' = FALSE
    /\ IF running THEN UNCHANGED <<running, thread>>
       ELSE running' = TRUE /\ thread' = [thread EXCEPT ![Batch] = [Idle EXCEPT !.at = "begin"]]
    /\ UNCHANGED <<convVars, inter, tmp, status, removed, requests, crashes, sole, spoilt>>

BatchBegin ==
    /\ BatchAt("begin")
    /\ Goes(Batch, "make")
    /\ Reports("building")
    /\ UNCHANGED running

\* generate() of one page.
BatchMake ==
    /\ BatchAt("make")
    /\ thread[Batch].page \in Pages
    /\ Goes(Batch, "open")
    /\ Reports(status)
    /\ UNCHANGED running

\* EnrichError: no answer of use.
BatchFails ==
    /\ BatchAt("make")
    /\ thread[Batch].page \in Pages
    /\ thread' = [thread EXCEPT ![Batch].at = "report", ![Batch].failed = TRUE]
    /\ Reports(Shown)
    /\ UNCHANGED running

BatchReport ==
    /\ BatchAt("report")
    /\ thread' = [thread EXCEPT ![Batch].at = "make", ![Batch].page = Next1]
    /\ Reports(Shown)
    /\ UNCHANGED running

BatchEnd ==
    /\ BatchAt("make")
    /\ thread[Batch].page \notin Pages
    /\ Goes(Batch, "leave")
    /\ Reports(IF thread[Batch].failed THEN "partial" ELSE "done")
    /\ UNCHANGED running

\* An exception nobody expected, such as the rename's: told in the status, if that can be written.
BatchRaises ==
    /\ thread[Batch].at \in {"raised", "begin", "make", "report"}
    /\ Goes(Batch, "leave")
    /\ \E shown \in {status, "error"} : Reports(shown)
    /\ UNCHANGED running

\* Mutated form: the course leaves _running only when the build succeeds.
BatchLeaveDone ==
    /\ BatchAt("leave")
    /\ running' = (Shown = "error")
    /\ thread' = [thread EXCEPT ![Batch] = Idle]
    /\ Reports(status)

\* finally: _running.discard().
BatchLeave ==
    /\ BatchAt("leave")
    /\ running' = FALSE
    /\ thread' = [thread EXCEPT ![Batch] = Idle]
    /\ Reports(status)

BatchStep ==
    \/ BatchBegin \/ BatchMake \/ BatchFails \/ BatchReport \/ BatchEnd \/ BatchRaises \/ BatchLeave
    \/ Open(Batch) \/ Fill(Batch) \/ Replace(Batch)

-----------------------------------------------------------------------------
\* Open files outlive their names.
Lost(u) == [u EXCEPT !.file = IF @ = "none" THEN @ ELSE "lost"]

\* The course was deleted: the worker's cleanup() takes folder and row; threads go on.
Remove ==
    /\ at \in {"off", "done"} /\ manifest # None /\ ~cloud /\ ~removed
    /\ Request
    /\ removed' = TRUE
    /\ inter' = NoFiles /\ tmp' = NoFiles /\ status' = "idle"
    /\ thread' = [t \in Threads |-> Lost(thread[t])]
    /\ UNCHANGED <<convVars, running, asked, crashes, sole, spoilt>>

\* The API dies and starts again: no threads, no locks, an empty _running.
Crash ==
    /\ asked \/ \E t \in Threads : thread[t].at # "idle"
    /\ crashes < MaxCrashes
    /\ crashes' = crashes + 1
    /\ running' = FALSE
    /\ asked' = FALSE
    /\ thread' = [t \in Threads |-> Idle]
    /\ UNCHANGED <<convVars, inter, tmp, status, removed, requests, sole, spoilt>>

\* What the runner finds in output/ beside the files of the conversion.
BuildFilesHere == {p \in Pages : inter[p] # None} \cup {n \in {0} : status # "idle"}

BuildNext ==
    \/ Step(BuildFilesHere) /\ ~removed /\ UNCHANGED buildVars
    \/ \E r \in Readers : Reader(r)
    \/ Ask \/ Start \/ BatchStep
    \/ Remove \/ Crash

BuildSpec == BuildInit /\ [][BuildNext]_vars

\* Threads run on; a call of the model that stays silent for 120 s fails.
ReaderGoesOn(r) == Load(r) \/ Lock(r) \/ Make(r) \/ Open(r) \/ Fill(r) \/ Replace(r)
FairBuildSpec ==
    /\ BuildSpec
    /\ WF_vars(BatchStep)
    /\ \A r \in Readers : WF_vars(ReaderGoesOn(r))

-----------------------------------------------------------------------------
PagesOf == [Pages -> {None, Whole, Empty, Garbled}]
BuildTypeOK ==
    /\ TypeOK
    /\ inter \in PagesOf /\ tmp \in PagesOf
    /\ status \in {"idle", "building", "done", "partial", "error", "interrupted"}
    /\ thread \in [Threads ->
          [at : {"idle", "load", "lock", "begin", "make", "open", "fill", "replace", "report", "raised", "leave"},
           page : Nat, admin : BOOLEAN, file : {"none", "tmp", "json", "lost"}, failed : BOOLEAN]]
    /\ running \in BOOLEAN /\ asked \in BOOLEAN /\ removed \in BOOLEAN
    /\ requests \in 0..MaxRequests /\ crashes \in 0..MaxCrashes
    /\ sole \in [Pages -> Threads \cup {Nobody}] /\ spoilt \subseteq Pages

-----------------------------------------------------------------------------
\* A page that is served is a whole one, whoever is killed at whatever step: only the batch
\* and a reader that write it at once can spoil it, never two readers, and the next of them
\* that writes it alone repairs it (the .tmp of enrich.py:202 and 248).
PagesWhole == \A p \in Pages : inter[p] \in {None, Whole} \/ p \in spoilt

Makes(r) == thread[r].at = "lock" /\ thread'[r].at = "make"

\* The model works for a client only where a page was spoilt, or taken away with its course:
\* "An administrator can build them" (main.py:459), although nothing in load_or_generate() asks
\* who reads.
ClientsNeverPay ==
    [][ \A r \in Readers : Makes(r) /\ ~thread[r].admin => thread[r].page \in spoilt \/ removed ]_vars

\* What a thread has written is there for it to rename, and whole: no reader's request fails, and
\* no batch ends in an error, over a .tmp another renamed, truncated or wrote into, unless the
\* batch and a reader met on that page or the course was removed (enrich.py:203 and 252).
WrittenIsThere ==
    \A t \in Threads :
        thread[t].at = "replace" => \/ tmp[thread[t].page] = Whole
                                    \/ thread[t].page \in spoilt \/ removed

\* A batch ends and lets the next one start, whatever is raised in it, and every reader gets
\* an answer: no lock is kept and no thread waits for one that is gone.
BuildsEnd ==
    /\ running ~> ~running
    /\ \A r \in Readers : thread[r].at # "idle" ~> thread[r].at = "idle"
=============================================================================
