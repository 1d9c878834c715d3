---------------------------- MODULE LessonBuilds ----------------------------
(***************************************************************************)
(* The lesson plan of a course and the batch that builds its summary pages *)
(* (app/summary.py): lesson-plan.json, one summary-<n>.json for each built *)
(* lesson, summary-status.json, the set _running of the process, and the   *)
(* requests of administrators, which run in threads of their own.          *)
(*                                                                         *)
(* The API may be killed at any step: files stay, threads and _running are *)
(* gone.  A file is replaced by writing <name>.tmp and renaming it.  The   *)
(* status and the lessons have one writer, the batch, and are replaced in  *)
(* one step here; the plan's .tmp is shared by all who save, and its two   *)
(* writes and its rename are steps.                                        *)
(***************************************************************************)
EXTENDS LessonPlans

CONSTANTS
    Admins,      \* administrators, one request each at a time
    Books,       \* the books a course may be made of
    Candidates,  \* plans they may type; the suggested one is submitted as well
    None,        \* no such file; nobody
    Empty, Garbled,  \* a file truncated but not written, or written by two at once
    Explored,    \* bounds of the exploration: the books with requests,
    MaxRequests, MaxCrashes   \* how many of them, and of restarts

ASSUME AdminAssumption == None \notin Admins
ASSUME FileAssumption ==
    \A b \in Books : {None, Empty, Garbled} \cap (Candidates \cup {SuggestPlan(b)}) = {}
ASSUME BookAssumption == \A b \in Books : Len(b) \in Nat
ASSUME BoundAssumption == MaxRequests \in Nat /\ MaxCrashes \in Nat

VARIABLES
    book,        \* the pages in manifest.json
    plan, tmp,   \* content of lesson-plan.json and of lesson-plan.tmp
    built,       \* the summaries: lesson -> the pages it was built from
    status,      \* summary-status.json
    running,     \* is the course in _running?
    batch,       \* the thread of start_batch()
    req,         \* each administrator's request
    requests, crashes,
    sole, clean  \* observers, see Disturb

files == <<book, plan, tmp, built, status>>
vars == <<book, plan, tmp, built, status, running, batch, req, requests, crashes, sole, clean>>

\* The plans that may be submitted and pass validate_plan().
Plans == {p \in Candidates \cup {SuggestPlan(book)} : ValidPlan(p, Len(book))}

Readable == plan \notin {None, Empty, Garbled}

\* The pages of each lesson of a plan: its range and the plan's offset.
RangeOf(p, lesson) ==
    LET k == CHOOSE i \in DOMAIN p.lessons : p.lessons[i].index = lesson
    IN <<p.lessons[k].start, p.lessons[k].end, p.offset>>
LessonsOf(p) == {p.lessons[k].index : k \in DOMAIN p.lessons}

States == {"idle", "building", "done", "partial", "error", "interrupted"}
NoStatus == [state |-> "idle", done |-> 0, total |-> 0, failed |-> 0]
NoBatch == [at |-> "off", plan |-> None, next |-> 1, done |-> 0, failed |-> 0]
NoRequest == [at |-> "idle", plan |-> None, left |-> {}, file |-> "none"]

Init ==
    /\ book \in Books
    /\ plan = None
    /\ tmp = None
    /\ built = <<>>
    /\ status = NoStatus
    /\ running = FALSE
    /\ batch = NoBatch
    /\ req = [a \in Admins |-> NoRequest]
    /\ requests = 0
    /\ crashes = 0
    /\ sole = None
    /\ clean = TRUE

-----------------------------------------------------------------------------
(* Saving a plan.                                                          *)

Saving == {a \in Admins : req[a].at \in {"list", "prune", "open", "fill", "replace"}}
Loaded == {a \in Admins : req[a].at = "start"}

\* sole is the save that nothing else has touched so far, clean tells that the last
\* save which ended was such a one, with nothing half done since.
Disturb == sole' = None /\ clean' = FALSE

NewRequest == book \in Explored /\ requests < MaxRequests /\ requests' = requests + 1
Ends(a) == req' = [req EXCEPT ![a] = NoRequest]

\* Mutated form: the plan is saved while the lessons are being built.
SaveAnyway(a) ==
    /\ req[a].at = "idle"
    /\ NewRequest
    /\ \E p \in Plans : req' = [req EXCEPT ![a] = [NoRequest EXCEPT !.at = "list", !.plan = p]]
    /\ IF Saving = {} /\ Loaded = {}
       THEN sole' = a /\ UNCHANGED clean
       ELSE Disturb
    /\ UNCHANGED <<files, running, batch, crashes>>

\* validate_plan(), then save_plan() asks building().
SaveCheck(a) ==
    /\ req[a].at = "idle"
    /\ NewRequest
    /\ ~running
    /\ \E p \in Plans : req' = [req EXCEPT ![a] = [NoRequest EXCEPT !.at = "list", !.plan = p]]
    /\ IF Saving = {} /\ Loaded = {}
       THEN sole' = a /\ UNCHANGED clean
       ELSE Disturb
    /\ UNCHANGED <<files, running, batch, crashes>>

\* The summary files the loop will look at.
SaveList(a) ==
    /\ req[a].at = "list"
    /\ req' = [req EXCEPT ![a] = [@ EXCEPT !.at = IF DOMAIN built = {} THEN "open" ELSE "prune",
                                          !.left = DOMAIN built]]
    /\ UNCHANGED <<files, running, batch, requests, crashes, sole, clean>>

Keeps(p, l) == l \in LessonsOf(p) \cap DOMAIN built /\ built[l] = RangeOf(p, l)

\* One file: it goes when its pages are not those of the plan.
SavePrune(a) ==
    /\ req[a].at = "prune"
    /\ \E l \in req[a].left :
          /\ built' = IF Keeps(req[a].plan, l) THEN built
                      ELSE Restrict(built, DOMAIN built \ {l})
          /\ LET left == req[a].left \ {l}
             IN req' = [req EXCEPT ![a] = [@ EXCEPT !.left = left,
                                                   !.at = IF left = {} THEN "open" ELSE "prune"]]
    /\ UNCHANGED <<book, plan, tmp, status, running, batch, requests, crashes, sole, clean>>

\* open(tmp, "w"): a new file, or the one another save has open, truncated.
SaveOpen(a) ==
    /\ req[a].at = "open"
    /\ tmp' = Empty
    /\ req' = [req EXCEPT ![a] = [@ EXCEPT !.at = "fill", !.file = "tmp"]]
    /\ UNCHANGED <<book, plan, built, status, running, batch, requests, crashes, sole, clean>>

\* What a file holds when p was written to it: two texts may overlap.
Writes(content, p) == IF content \in {Empty, p} THEN {p} ELSE {p, Garbled}

\* The text goes to the file that was opened, wherever a rename has put it since.
SaveFill(a) ==
    /\ req[a].at = "fill"
    /\ CASE req[a].file = "tmp"  -> tmp' \in Writes(tmp, req[a].plan) /\ UNCHANGED plan
         [] req[a].file = "plan" -> plan' \in Writes(plan, req[a].plan) /\ UNCHANGED tmp
         [] OTHER -> UNCHANGED <<plan, tmp>>
    /\ req' = [req EXCEPT ![a] = [@ EXCEPT !.at = "replace"]]
    /\ UNCHANGED <<book, built, status, running, batch, requests, crashes, sole, clean>>

\* A rename moves the file the others have open as well.
Moved(file) == CASE file = "tmp" -> "plan" [] file = "plan" -> "gone" [] OTHER -> file

\* Without a .tmp to rename the request fails (500).
SaveReplace(a) ==
    /\ req[a].at = "replace"
    /\ IF tmp = None THEN Ends(a) /\ UNCHANGED <<plan, tmp>>
       ELSE /\ plan' = tmp
            /\ tmp' = None
            /\ req' = [b \in Admins |-> IF b = a THEN NoRequest
                                        ELSE [req[b] EXCEPT !.file = Moved(@)]]
    /\ IF sole = a THEN sole' = None /\ clean' = TRUE
       ELSE UNCHANGED <<sole, clean>>
    /\ UNCHANGED <<book, built, status, running, batch, requests, crashes>>

-----------------------------------------------------------------------------
(* Building the lessons.                                                   *)

\* Mutated form: the file is believed.
ShownAsWritten == status

\* read_status(): a build nobody runs was interrupted.
Shown ==
    IF status.state = "building" /\ ~running
    THEN [status EXCEPT !.state = "interrupted"]
    ELSE status

\* POST /summary: load_plan(); without a plan it is refused (409).
BuildRead(a) ==
    /\ req[a].at = "idle"
    /\ NewRequest
    /\ Readable
    /\ ValidPlan(plan, Len(book))
    /\ req' = [req EXCEPT ![a] = [NoRequest EXCEPT !.at = "start", !.plan = plan]]
    /\ IF Saving = {} THEN UNCHANGED <<sole, clean>> ELSE Disturb
    /\ UNCHANGED <<files, running, batch, crashes>>

\* start_batch(): one batch at a time, or 409.
BuildStart(a) ==
    /\ req[a].at = "start"
    /\ IF running
       THEN UNCHANGED <<running, batch, sole, clean>>
       ELSE /\ running' = TRUE
            /\ batch' = [NoBatch EXCEPT !.at = "begin", !.plan = req[a].plan]
            /\ IF Saving = {} THEN UNCHANGED <<sole, clean>> ELSE Disturb
    /\ Ends(a)
    /\ UNCHANGED <<files, requests, crashes>>

Rows == batch.plan.lessons
BatchGoes(step) ==
    /\ batch' = step
    /\ UNCHANGED <<book, plan, tmp, running, req, requests, crashes, sole, clean>>

BatchBegin ==
    /\ batch.at = "begin"
    /\ status' = [NoStatus EXCEPT !.state = "building", !.total = Len(Rows)]
    /\ UNCHANGED built
    /\ BatchGoes([batch EXCEPT !.at = "next"])

\* generate() and the file of one lesson.
BatchLesson ==
    /\ batch.at = "next"
    /\ batch.next <= Len(Rows)
    /\ LET lesson == Rows[batch.next].index
       IN built' = [l \in DOMAIN built \cup {lesson} |->
                       IF l = lesson THEN RangeOf(batch.plan, lesson) ELSE built[l]]
    /\ UNCHANGED status
    /\ BatchGoes([batch EXCEPT !.at = "report", !.done = @ + 1])

\* Mutated form: the failure is not counted.
BatchFailureForgotten ==
    /\ batch.at = "next"
    /\ batch.next <= Len(Rows)
    /\ status' = Shown
    /\ UNCHANGED built
    /\ BatchGoes([batch EXCEPT !.at = "report"])

\* SummaryError: no text, or no useful answer of the model.
BatchFailure ==
    /\ batch.at = "next"
    /\ batch.next <= Len(Rows)
    /\ status' = Shown
    /\ UNCHANGED built
    /\ BatchGoes([batch EXCEPT !.at = "report", !.failed = @ + 1])

BatchReport ==
    /\ batch.at = "report"
    /\ status' = [Shown EXCEPT !.done = batch.done, !.failed = batch.failed]
    /\ UNCHANGED built
    /\ BatchGoes([batch EXCEPT !.at = "next", !.next = @ + 1])

BatchEnd ==
    /\ batch.at = "next"
    /\ batch.next > Len(Rows)
    /\ status' = [Shown EXCEPT !.state = IF batch.failed = 0 THEN "done" ELSE "partial"]
    /\ UNCHANGED built
    /\ BatchGoes([batch EXCEPT !.at = "leave"])

\* Any other exception; the status that tells of it may not be writable either.
BatchRaises ==
    /\ batch.at \in {"begin", "next", "report"}
    /\ status' \in {status, [Shown EXCEPT !.state = "error"]}
    /\ UNCHANGED built
    /\ BatchGoes([batch EXCEPT !.at = "leave"])

\* finally: _running.discard().
BatchLeave ==
    /\ batch.at = "leave"
    /\ running' = FALSE
    /\ batch' = NoBatch
    /\ UNCHANGED <<files, req, requests, crashes, sole, clean>>

\* The process is killed; another one serves the same files.
Crash ==
    /\ crashes < MaxCrashes
    /\ crashes' = crashes + 1
    /\ running' = FALSE
    /\ batch' = NoBatch
    /\ req' = [a \in Admins |-> NoRequest]
    /\ sole' = None
    /\ UNCHANGED <<files, requests, clean>>

-----------------------------------------------------------------------------
SaveStep(a) == SaveCheck(a) \/ SaveList(a) \/ SavePrune(a) \/ SaveOpen(a) \/ SaveFill(a) \/ SaveReplace(a)
BuildStep(a) == BuildRead(a) \/ BuildStart(a)
BatchStep ==
    \/ BatchBegin \/ BatchLesson \/ BatchFailure \/ BatchReport
    \/ BatchEnd \/ BatchRaises \/ BatchLeave

Next == (\E a \in Admins : SaveStep(a) \/ BuildStep(a)) \/ BatchStep \/ Crash

Spec == Init /\ [][Next]_vars

\* The thread of a batch runs on: a call of the model that stays silent for 120 s fails.
FairSpec == Spec /\ WF_vars(BatchStep)

-----------------------------------------------------------------------------
Statuses == [state : States, done : Nat, total : Nat, failed : Nat]
Requests ==
    [at : {"idle", "list", "prune", "open", "fill", "replace", "start"},
     plan : Plans \cup {None}, left : SUBSET Int, file : {"none", "tmp", "plan", "gone"}]
Batches ==
    [at : {"off", "begin", "next", "report", "leave"},
     plan : Plans \cup {None}, next : Nat \ {0}, done : Nat, failed : Nat]

TypeOK ==
    /\ book \in Books
    /\ plan \in Plans \cup {None, Empty, Garbled}
    /\ tmp \in Plans \cup {None, Empty, Garbled}
    /\ DOMAIN built \subseteq Int
    /\ status \in Statuses
    /\ running \in BOOLEAN
    /\ batch \in Batches
    /\ req \in [Admins -> Requests]
    /\ requests \in 0..MaxRequests
    /\ crashes \in 0..MaxCrashes
    /\ sole \in Admins \cup {None}
    /\ clean \in BOOLEAN

-----------------------------------------------------------------------------
(* The inductive invariant of the theorems in LessonBuildsProofs. *)

\* The summaries are those of the plan p.
Match(p) == \A l \in DOMAIN built : l \in LessonsOf(p) /\ built[l] = RangeOf(p, l)

Threads ==
    /\ running <=> batch.at # "off"
    /\ batch.at # "off" => batch.plan \in Plans
    /\ batch.at = "begin" => batch.next = 1
    /\ \A a \in Saving \cup Loaded : req[a].plan \in Plans

\* A save nothing has touched: what it has done so far.
SoleSave ==
    sole # None =>
        /\ Saving = {sole} /\ Loaded = {} /\ ~running
        /\ req[sole].at = "prune" =>
              \A l \in DOMAIN built : l \in req[sole].left \/ Keeps(req[sole].plan, l)
        /\ req[sole].at \in {"open", "fill", "replace"} => Match(req[sole].plan)
        /\ req[sole].at = "fill" => req[sole].file = "tmp" /\ tmp = Empty
        /\ req[sole].at = "replace" => tmp = req[sole].plan

\* Nothing half done: everyone at work has the plan that is on disk.
CleanWork ==
    clean =>
        /\ plan \in Plans \cup {None}
        /\ plan = None => DOMAIN built = {}
        /\ plan # None => Match(plan)
        /\ Saving \subseteq {sole}
        /\ \A a \in Loaded : req[a].plan = plan
        /\ running => batch.plan = plan /\ Saving = {}

\* What the batch counts as built is built.
BatchDone ==
    clean /\ batch.failed = 0 =>
        /\ batch.at = "next" => \A k \in 1..(batch.next - 1) : k \in DOMAIN Rows => Keeps(plan, Rows[k].index)
        /\ batch.at = "report" => \A k \in 1..batch.next : k \in DOMAIN Rows => Keeps(plan, Rows[k].index)

IInv == TypeOK /\ Threads /\ SoleSave /\ CleanWork /\ BatchDone

-----------------------------------------------------------------------------
\* The summaries on disk are those of the plan on disk: each built lesson is in it, with
\* the pages it was built from, also when a save or a build was killed half way.  Only
\* saves and builds that overlap may break this, and the next save made alone repairs it.
\* (save_plan(), summary.py:145-159, against start_batch().)
BuiltMatchesPlan ==
    clean => \A l \in DOMAIN built :
                 Readable /\ l \in LessonsOf(plan) /\ built[l] = RangeOf(plan, l)

\* A save that is killed leaves the old plan or the new one, never a torn one; and a
\* plan torn by two saves at once is whole again after a save made alone (_write_json()).
PlanIntact == clean => plan \in Plans \cup {None}

\* A batch ends as "done" only when every lesson of the plan has its summary (build_all()).
DoneMeansBuilt ==
    [][ (status'.state = "done" /\ status.state # "done" /\ clean)
           => \A l \in LessonsOf(plan) : l \in DOMAIN built' /\ built'[l] = RangeOf(plan, l) ]_vars

\* Under a saved plan every PDF page is in exactly the lessons whose printed pages contain
\* it, so in one at most; the others are before the first lesson or after its beginning
\* (validate_plan(), plan_lessons(), build_course()).
PagesPlaced ==
    Readable =>
        LET course == BuildCourse(book, PlanLessons(plan))
            within(p, k) == p - plan.offset \in plan.lessons[k].start..plan.lessons[k].end
        IN \A p \in 1..Len(book) :
              /\ \A k \in DOMAIN plan.lessons :
                    within(p, k) <=> course.lesson[p] = plan.lessons[k].index
              /\ p \in course.front <=> \A k \in DOMAIN plan.lessons : p - plan.offset < plan.lessons[k].start
              /\ p \in course.other <=> /\ \A k \in DOMAIN plan.lessons : ~within(p, k)
                                       /\ p - plan.offset > plan.lessons[1].start

\* Without a plan a page belongs to lesson k exactly when k is the length of the longest
\* chain of pages up to it that open the lessons 1, 2, 3, ...: no lesson is lost and none
\* is invented, whatever other numbers the pages name (detect_lessons(), build_course()).
DetectionIsChain ==
    LET course == BuildCourse(book, DetectLessons(book))
        numbered(p) == {i \in 1..p : book[i].numbers # {}}
        chain(k, p) == \E c \in [1..k -> numbered(p)] :
                          /\ \A j \in 1..k : Opens(book[c[j]], j)
                          /\ \A i, j \in 1..k : i < j => c[i] < c[j]
    IN \A p \in 1..Len(book), k \in 1..Len(book) :
          chain(k, p) <=> course.lesson[p] >= k

\* With a plan or without, the course follows the book.
CourseFollowsBook == PagesPlaced /\ DetectionIsChain

\* A suggested plan can be saved as it is when the contents pages that were read leave
\* each garbled lesson a page, lie within the book and lead from a lesson 1 or later to at
\* most a hundred: interpolation, rounding and the guessed length of the last lesson make
\* no range validate_plan() refuses (suggest_plan()).
SuggestionSaves ==
    LET known == TocEntries(book)
        suggested == SuggestPlan(book)
        roomy == \A n, m \in DOMAIN known : n < m => known[m] - known[n] >= m - n
        inside == \A n \in DOMAIN known : known[n] \in (1 - suggested.offset)..(Len(book) - suggested.offset)
        few == DOMAIN known \subseteq Indexes /\ Max(DOMAIN known) - Min(DOMAIN known) < MaxPlanLessons
    IN DOMAIN known # {} /\ roomy /\ inside /\ few => ValidPlan(suggested, Len(book))

\* Whatever happens in it, a build ends, a new one may start, and no reader is shown
\* "building" for ever: not after an exception, not after a restart (read_status()).
BuildEnds == (running \/ Shown.state = "building") ~> (~running /\ Shown.state # "building")
=============================================================================
