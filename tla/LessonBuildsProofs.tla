------------------------- MODULE LessonBuildsProofs -------------------------
(***************************************************************************)
(* For any books, plans, administrators and restarts: the summaries on     *)
(* disk are those of the plan on disk, and the plan is never torn, unless  *)
(* saves and builds overlapped since the last save made alone; and a batch *)
(* that ends as "done" has built every lesson.                             *)
(*                                                                         *)
(* None of this is inductive: it rests on what a save made alone has       *)
(* already done (SoleSave) and on the plan held by whoever is half way     *)
(* through a request or a batch (CleanWork).                               *)
(*                                                                         *)
(* The second half is about the functions of LessonPlans, for every book:  *)
(* pages are placed where the printed pages of a valid plan put them, the  *)
(* loop of detect_lessons() finds the longest chain of lessons, and a      *)
(* suggestion from roomy contents pages is valid.  Induction is the choice *)
(* of a least counterexample (LeastNat).                                   *)
(***************************************************************************)
EXTENDS LessonBuilds, SequenceTheorems, FiniteSetTheorems, WellFoundedInduction, TLAPS

SavingAt == {"list", "prune", "open", "fill", "replace"}

\* A plan is none of the marks for a missing or torn file, and has rows.
LEMMA PlanFacts ==
    ASSUME TypeOK, NEW p \in Plans
    PROVE  /\ p # None /\ p # Empty /\ p # Garbled
           /\ p.lessons \in Seq(LessonRow)
           /\ \A k \in DOMAIN p.lessons : p.lessons[k].index \in LessonsOf(p)
           /\ LessonsOf(p) \subseteq Int
<1>1. p \notin {None, Empty, Garbled}
  BY FileAssumption DEF TypeOK, Plans
<1>2. p.lessons \in Seq(LessonRow)
  BY DEF Plans, ValidPlan
<1>3. \A k \in DOMAIN p.lessons : p.lessons[k] \in LessonRow
  BY <1>2
<1> QED BY <1>1, <1>2, <1>3 DEF LessonsOf, LessonRow

\* One request changes.
LEMMA MoveFacts ==
    ASSUME TypeOK, book' = book, NEW a \in Admins, NEW r \in Requests,
           req' = [req EXCEPT ![a] = r]
    PROVE  /\ Plans' = Plans /\ Requests' = Requests /\ Batches' = Batches
           /\ req' \in [Admins -> Requests]
           /\ req'[a] = r
           /\ \A b \in Admins : b # a => req'[b] = req[b]
           /\ Saving' = IF r.at \in SavingAt THEN Saving \cup {a} ELSE Saving \ {a}
           /\ Loaded' = IF r.at = "start" THEN Loaded \cup {a} ELSE Loaded \ {a}
<1>1. Plans' = Plans /\ Requests' = Requests /\ Batches' = Batches
  BY DEF Plans, Requests, Batches
<1>2. /\ req' \in [Admins -> Requests]
      /\ req'[a] = r
      /\ \A b \in Admins : b # a => req'[b] = req[b]
  BY DEF TypeOK
<1> QED BY <1>1, <1>2 DEF Saving, Loaded, SavingAt

\* A save goes on to its next step.
LEMMA SaveMoves ==
    ASSUME TypeOK, book' = book, NEW a \in Saving, NEW r \in Requests,
           r.at \in SavingAt, r.plan = req[a].plan, req' = [req EXCEPT ![a] = r]
    PROVE  /\ Plans' = Plans /\ Requests' = Requests /\ Batches' = Batches
           /\ req' \in [Admins -> Requests]
           /\ req'[a] = r
           /\ \A b \in Admins : b # a => req'[b] = req[b]
           /\ Saving' = Saving /\ Loaded' = Loaded /\ a \notin Loaded
           /\ \A b \in Admins : req'[b].plan = req[b].plan
           /\ Saving \subseteq Admins /\ Loaded \subseteq Admins
<1>1. a \in Admins /\ a \notin Loaded /\ Saving \subseteq Admins /\ Loaded \subseteq Admins
  BY DEF Saving, Loaded
<1>2. r.at # "start"
  BY DEF SavingAt
<1>3. Saving \cup {a} = Saving /\ Loaded \ {a} = Loaded
  BY <1>1
<1>4. /\ Plans' = Plans /\ Requests' = Requests /\ Batches' = Batches
      /\ req' \in [Admins -> Requests]
      /\ req'[a] = r
      /\ \A b \in Admins : b # a => req'[b] = req[b]
      /\ Saving' = Saving /\ Loaded' = Loaded
  BY <1>1, <1>2, <1>3, MoveFacts
<1> QED BY <1>1, <1>4

\* The requests do not change.
LEMMA StayFacts ==
    ASSUME book' = book, req' = req
    PROVE  /\ Plans' = Plans /\ Requests' = Requests /\ Batches' = Batches
           /\ Saving' = Saving /\ Loaded' = Loaded
BY DEF Plans, Requests, Batches, Saving, Loaded

LEMMA IdleTyped == NoRequest \in Requests
BY DEF NoRequest, Requests

-----------------------------------------------------------------------------
LEMMA InitIInv == Init => IInv
<1> SUFFICES ASSUME Init PROVE IInv
  OBVIOUS
<1>1. req \in [Admins -> Requests] /\ Saving = {} /\ Loaded = {}
  BY IdleTyped DEF Init, NoRequest, Saving, Loaded
<1>2. DOMAIN built = {}
  BY DEF Init
<1>3. TypeOK
  <2>1. NoBatch \in Batches
    BY DEF NoBatch, Batches
  <2>2. NoStatus \in Statuses
    BY DEF NoStatus, Statuses, States
  <2>3. /\ book \in Books /\ plan = None /\ tmp = None /\ status = NoStatus /\ running = FALSE
        /\ batch = NoBatch /\ requests = 0 /\ crashes = 0 /\ sole = None /\ clean = TRUE
    BY DEF Init
  <2>4. requests \in 0..MaxRequests /\ crashes \in 0..MaxCrashes
    BY <2>3, BoundAssumption
  <2>5. running \in BOOLEAN /\ clean \in BOOLEAN
    BY <2>3
  <2>6. status \in Statuses
    BY <2>2, <2>3
  <2> QED BY <1>1, <1>2, <2>1, <2>3, <2>4, <2>5, <2>6 DEF TypeOK
<1> QED BY <1>1, <1>2, <1>3 DEF Init, IInv, Threads, SoleSave, CleanWork, BatchDone, NoBatch

LEMMA SaveCheckStep == ASSUME IInv, NEW a \in Admins, SaveCheck(a) PROVE IInv'
<1> USE DEF IInv
<1> PICK p \in Plans : req' = [req EXCEPT ![a] = [NoRequest EXCEPT !.at = "list", !.plan = p]]
  BY DEF SaveCheck
<1> DEFINE r == [NoRequest EXCEPT !.at = "list", !.plan = p]
<1>1. r \in Requests /\ r.at = "list" /\ r.plan = p
  BY IdleTyped DEF NoRequest, Requests
<1> HIDE DEF r
<1>2. req' = [req EXCEPT ![a] = r] /\ book' = book
  BY DEF r, SaveCheck, files
<1>3. /\ Plans' = Plans /\ Requests' = Requests /\ Batches' = Batches
      /\ req' \in [Admins -> Requests]
      /\ req'[a] = r
      /\ \A b \in Admins : b # a => req'[b] = req[b]
      /\ Saving' = Saving \cup {a}
      /\ Loaded' = Loaded \ {a}
  BY <1>1, <1>2, MoveFacts DEF SavingAt
<1>4. /\ ~running /\ UNCHANGED <<book, plan, tmp, built, status, running, batch, crashes>>
      /\ requests' \in 0..MaxRequests
      /\ IF Saving = {} /\ Loaded = {} THEN sole' = a /\ clean' = clean
         ELSE sole' = None /\ clean' = FALSE
  BY BoundAssumption DEF SaveCheck, NewRequest, files, Disturb, TypeOK
<1>5. TypeOK'
  BY <1>3, <1>4 DEF TypeOK
<1>6. Threads'
  BY <1>1, <1>3, <1>4 DEF Threads, Saving, Loaded
<1>7. SoleSave'
  BY <1>1, <1>3, <1>4, AdminAssumption DEF SoleSave
<1>8. CleanWork'
  BY <1>3, <1>4 DEF CleanWork, Match
<1>9. BatchDone'
  BY <1>4 DEF BatchDone, Keeps, Rows
<1> QED BY <1>5, <1>6, <1>7, <1>8, <1>9

LEMMA SaveListStep == ASSUME IInv, NEW a \in Admins, SaveList(a) PROVE IInv'
<1> USE DEF IInv
<1> DEFINE r == [req[a] EXCEPT !.at = IF DOMAIN built = {} THEN "open" ELSE "prune",
                               !.left = DOMAIN built]
<1>1. /\ r \in Requests /\ r.plan = req[a].plan /\ r.left = DOMAIN built
      /\ r.at = IF DOMAIN built = {} THEN "open" ELSE "prune"
      /\ req[a].at = "list" /\ a \in Saving
  BY DEF SaveList, TypeOK, Requests, Saving
<1> HIDE DEF r
<1>2. req' = [req EXCEPT ![a] = r] /\ book' = book
  BY DEF r, SaveList, files
<1>3. /\ Plans' = Plans /\ Requests' = Requests /\ Batches' = Batches
      /\ req' \in [Admins -> Requests]
      /\ req'[a] = r
      /\ \A b \in Admins : b # a => req'[b] = req[b]
      /\ Saving' = Saving /\ Loaded' = Loaded /\ a \notin Loaded
      /\ \A b \in Admins : req'[b].plan = req[b].plan
      /\ Saving \subseteq Admins /\ Loaded \subseteq Admins
  BY <1>1, <1>2, SaveMoves DEF SavingAt
<1>4. UNCHANGED <<book, plan, tmp, built, status, running, batch, requests, crashes, sole, clean>>
  BY DEF SaveList, files
<1>5. TypeOK'
  BY <1>3, <1>4 DEF TypeOK
<1>6. Threads'
  BY <1>1, <1>3, <1>4 DEF Threads
<1>7. SoleSave'
  BY <1>1, <1>3, <1>4 DEF SoleSave, Match
<1>8. CleanWork'
  BY <1>3, <1>4 DEF CleanWork, Match
<1>9. BatchDone'
  BY <1>4 DEF BatchDone, Keeps, Rows
<1> QED BY <1>5, <1>6, <1>7, <1>8, <1>9

LEMMA SavePruneStep == ASSUME IInv, NEW a \in Admins, SavePrune(a) PROVE IInv'
<1> USE DEF IInv
<1> DEFINE p == req[a].plan
<1> PICK l \in req[a].left :
          /\ built' = IF Keeps(p, l) THEN built ELSE Restrict(built, DOMAIN built \ {l})
          /\ LET left == req[a].left \ {l}
             IN req' = [req EXCEPT ![a] = [@ EXCEPT !.left = left,
                                                   !.at = IF left = {} THEN "open" ELSE "prune"]]
  BY DEF SavePrune
<1> DEFINE left == req[a].left \ {l}
           r == [req[a] EXCEPT !.left = left, !.at = IF left = {} THEN "open" ELSE "prune"]
<1>1. /\ r \in Requests /\ r.plan = req[a].plan /\ r.plan = p /\ r.left = left
      /\ r.at = IF left = {} THEN "open" ELSE "prune"
      /\ req[a].at = "prune" /\ a \in Saving
  BY DEF SavePrune, TypeOK, Requests, Saving
<1>2. req' = [req EXCEPT ![a] = r] /\ book' = book
  BY DEF SavePrune
<1>a. /\ DOMAIN built' \subseteq DOMAIN built
      /\ \A m \in DOMAIN built' : built'[m] = built[m]
      /\ l \in DOMAIN built' => Keeps(p, l)
  BY DEF Restrict
<1>b. left \subseteq req[a].left /\ \A m \in req[a].left : m = l \/ m \in left
  OBVIOUS
<1> HIDE DEF r, left, p
<1>3. /\ Plans' = Plans /\ Requests' = Requests /\ Batches' = Batches
      /\ req' \in [Admins -> Requests]
      /\ req'[a] = r
      /\ \A b \in Admins : b # a => req'[b] = req[b]
      /\ Saving' = Saving /\ Loaded' = Loaded /\ a \notin Loaded
      /\ \A b \in Admins : req'[b].plan = req[b].plan
      /\ Saving \subseteq Admins /\ Loaded \subseteq Admins
  BY <1>1, <1>2, SaveMoves DEF SavingAt
<1>4. UNCHANGED <<book, plan, tmp, status, running, batch, requests, crashes, sole, clean>>
  BY DEF SavePrune
<1>5. TypeOK'
  BY <1>3, <1>4, <1>a DEF TypeOK
<1>6. Threads'
  BY <1>1, <1>3, <1>4 DEF Threads, p
<1>7. SoleSave'
  <2> SUFFICES ASSUME sole # None PROVE SoleSave'
    BY <1>4 DEF SoleSave
  <2>1. sole = a /\ Saving = {a} /\ Loaded = {} /\ ~running
    BY <1>1 DEF SoleSave
  <2>2. \A m \in DOMAIN built : m \in req[a].left \/ Keeps(p, m)
    BY <1>1, <2>1 DEF SoleSave, p
  <2>3. \A m \in DOMAIN built' : m \in left \/ (m \in LessonsOf(p) /\ built'[m] = RangeOf(p, m))
    BY <2>2, <1>a, <1>b DEF Keeps
  <2>4. r.at = "prune" => \A m \in DOMAIN built' :
            m \in r.left \/ (m \in LessonsOf(r.plan) \cap DOMAIN built' /\ built'[m] = RangeOf(r.plan, m))
    BY <2>3, <1>1
  <2>5. r.at = "open" => \A m \in DOMAIN built' : m \in LessonsOf(r.plan) /\ built'[m] = RangeOf(r.plan, m)
    BY <2>3, <1>1
  <2>6. /\ sole' = a /\ req'[sole'] = r
        /\ Saving' = {a} /\ Loaded' = {} /\ ~running'
        /\ r.at \in {"prune", "open"}
    BY <2>1, <1>1, <1>3, <1>4
  <2> QED BY <2>4, <2>5, <2>6 DEF SoleSave, Match, Keeps
<1>8. CleanWork'
  BY <1>1, <1>3, <1>4, <1>a DEF CleanWork, Match
<1>9. BatchDone'
  BY <1>1, <1>4 DEF BatchDone, CleanWork, Threads
<1> QED BY <1>5, <1>6, <1>7, <1>8, <1>9

LEMMA SaveOpenStep == ASSUME IInv, NEW a \in Admins, SaveOpen(a) PROVE IInv'
<1> USE DEF IInv
<1> DEFINE r == [req[a] EXCEPT !.at = "fill", !.file = "tmp"]
<1>1. /\ r \in Requests /\ r.plan = req[a].plan /\ r.at = "fill" /\ r.file = "tmp"
      /\ req[a].at = "open" /\ a \in Saving
  BY DEF SaveOpen, TypeOK, Requests, Saving
<1> HIDE DEF r
<1>2. req' = [req EXCEPT ![a] = r] /\ book' = book
  BY DEF r, SaveOpen
<1>3. /\ Plans' = Plans /\ Requests' = Requests /\ Batches' = Batches
      /\ req' \in [Admins -> Requests]
      /\ req'[a] = r
      /\ \A b \in Admins : b # a => req'[b] = req[b]
      /\ Saving' = Saving /\ Loaded' = Loaded /\ a \notin Loaded
      /\ \A b \in Admins : req'[b].plan = req[b].plan
      /\ Saving \subseteq Admins /\ Loaded \subseteq Admins
  BY <1>1, <1>2, SaveMoves DEF SavingAt
<1>4. /\ tmp' = Empty
      /\ UNCHANGED <<book, plan, built, status, running, batch, requests, crashes, sole, clean>>
  BY DEF SaveOpen
<1>5. TypeOK'
  BY <1>3, <1>4 DEF TypeOK
<1>6. Threads'
  BY <1>1, <1>3, <1>4 DEF Threads
<1>7. SoleSave'
  BY <1>1, <1>3, <1>4 DEF SoleSave, Match
<1>8. CleanWork'
  BY <1>3, <1>4 DEF CleanWork, Match
<1>9. BatchDone'
  BY <1>4 DEF BatchDone, Keeps, Rows
<1> QED BY <1>5, <1>6, <1>7, <1>8, <1>9

LEMMA SaveFillStep == ASSUME IInv, NEW a \in Admins, SaveFill(a) PROVE IInv'
<1> USE DEF IInv
<1> DEFINE r == [req[a] EXCEPT !.at = "replace"]
<1>1. /\ r \in Requests /\ r.plan = req[a].plan /\ r.at = "replace"
      /\ req[a].at = "fill" /\ a \in Saving /\ req[a].plan \in Plans
  BY DEF SaveFill, TypeOK, Requests, Saving, Threads
<1> HIDE DEF r
<1>2. req' = [req EXCEPT ![a] = r] /\ book' = book
  BY DEF r, SaveFill
<1>3. /\ Plans' = Plans /\ Requests' = Requests /\ Batches' = Batches
      /\ req' \in [Admins -> Requests]
      /\ req'[a] = r
      /\ \A b \in Admins : b # a => req'[b] = req[b]
      /\ Saving' = Saving /\ Loaded' = Loaded /\ a \notin Loaded
      /\ \A b \in Admins : req'[b].plan = req[b].plan
      /\ Saving \subseteq Admins /\ Loaded \subseteq Admins
  BY <1>1, <1>2, SaveMoves DEF SavingAt
<1>4. UNCHANGED <<book, built, status, running, batch, requests, crashes, sole, clean>>
  BY DEF SaveFill
<1>a. /\ plan' \in Plans \cup {None, Empty, Garbled}
      /\ tmp' \in Plans \cup {None, Empty, Garbled}
      /\ req[a].file = "tmp" => plan' = plan
      /\ req[a].file = "tmp" /\ tmp = Empty => tmp' = req[a].plan
  <2>1. CASE req[a].file = "tmp"
    BY <1>1, <2>1 DEF SaveFill, Writes, TypeOK
  <2>2. CASE req[a].file = "plan"
    BY <1>1, <2>2 DEF SaveFill, Writes, TypeOK
  <2>3. CASE req[a].file \notin {"tmp", "plan"}
    BY <1>1, <2>3 DEF SaveFill, TypeOK
  <2> QED BY <2>1, <2>2, <2>3
<1>5. TypeOK'
  BY <1>3, <1>4, <1>a DEF TypeOK
<1>6. Threads'
  BY <1>1, <1>3, <1>4 DEF Threads
<1>b. sole # None => sole = a /\ req[a].file = "tmp" /\ tmp = Empty
  BY <1>1 DEF SoleSave
<1>7. SoleSave'
  BY <1>1, <1>3, <1>4, <1>a, <1>b DEF SoleSave, Match
<1>c. clean => plan' = plan
  BY <1>1, <1>a, <1>b, AdminAssumption DEF CleanWork
<1>8. CleanWork'
  BY <1>3, <1>4, <1>c DEF CleanWork, Match
<1>9. BatchDone'
  BY <1>4, <1>c DEF BatchDone, Keeps, Rows
<1> QED BY <1>5, <1>6, <1>7, <1>8, <1>9

LEMMA SaveReplaceStep == ASSUME IInv, NEW a \in Admins, SaveReplace(a) PROVE IInv'
<1> USE DEF IInv
<1>1. req[a].at = "replace" /\ a \in Saving /\ req[a].plan \in Plans
  BY DEF SaveReplace, Saving, Threads
<1>2. UNCHANGED <<book, built, status, running, batch, requests, crashes>>
  BY DEF SaveReplace
<1>3. Plans' = Plans /\ Requests' = Requests /\ Batches' = Batches
  BY <1>2 DEF Plans, Requests, Batches
<1>4. /\ req' \in [Admins -> Requests]
      /\ req'[a] = NoRequest
      /\ \A b \in Admins : b # a => /\ req'[b].at = req[b].at
                                    /\ req'[b].plan = req[b].plan
                                    /\ req'[b].left = req[b].left
      /\ plan' \in {plan, tmp} /\ tmp' \in {None, tmp}
  <2>1. CASE tmp = None
    BY <2>1, IdleTyped DEF SaveReplace, Ends, TypeOK
  <2>2. CASE tmp # None
    <3>1. req' = [b \in Admins |-> IF b = a THEN NoRequest ELSE [req[b] EXCEPT !.file = Moved(@)]]
      BY <2>2 DEF SaveReplace
    <3>2. \A b \in Admins : [req[b] EXCEPT !.file = Moved(@)] \in Requests
      BY DEF TypeOK, Requests, Moved
    <3>3. plan' = tmp /\ tmp' = None
      BY <2>2 DEF SaveReplace
    <3>4. \A b \in Admins : LET q == [req[b] EXCEPT !.file = Moved(@)]
                            IN q.at = req[b].at /\ q.plan = req[b].plan /\ q.left = req[b].left
      BY DEF TypeOK, Requests
    <3>5. req' \in [Admins -> Requests]
      BY <3>1, <3>2, IdleTyped
    <3> QED BY <3>1, <3>3, <3>4, <3>5
  <2> QED BY <2>1, <2>2
<1>5. /\ Saving' = Saving \ {a} /\ Loaded' = Loaded /\ a \notin Loaded
      /\ Saving \subseteq Admins /\ Loaded \subseteq Admins
  BY <1>1, <1>4 DEF Saving, Loaded, NoRequest
<1>6. /\ sole' \in {sole, None} /\ clean' \in BOOLEAN
      /\ sole = a => sole' = None /\ clean' = TRUE
      /\ sole # a => sole' = sole /\ clean' = clean
  BY DEF SaveReplace, TypeOK
<1>7. TypeOK'
  BY <1>2, <1>3, <1>4, <1>6 DEF TypeOK
<1>8. Threads'
  <2>1. \A b \in Saving' \cup Loaded' : b \in Saving \cup Loaded /\ req'[b].plan = req[b].plan
    BY <1>4, <1>5
  <2> QED BY <1>2, <1>3, <2>1 DEF Threads
<1>9. sole' = None
  BY <1>1, <1>6 DEF SoleSave
<1>10. CASE sole # a
  <2>1. ~clean'
    BY <1>1, <1>6, <1>10 DEF CleanWork
  <2> QED BY <1>7, <1>8, <1>9, <2>1 DEF SoleSave, CleanWork, BatchDone
<1>11. CASE sole = a
  <2>1. /\ Saving = {a} /\ Loaded = {} /\ ~running
        /\ Match(req[a].plan) /\ tmp = req[a].plan
    BY <1>1, <1>11, AdminAssumption DEF SoleSave
  <2>2. tmp # None
    BY <1>1, <2>1, PlanFacts
  <2>3. plan' = req[a].plan /\ plan' # None
    BY <2>1, <2>2 DEF SaveReplace
  <2>4. CleanWork'
    BY <1>1, <1>2, <1>3, <1>5, <2>1, <2>3 DEF CleanWork, Match
  <2>5. BatchDone'
    BY <1>2, <2>1 DEF BatchDone, Threads
  <2> QED BY <1>7, <1>8, <1>9, <2>4, <2>5 DEF SoleSave
<1> QED BY <1>10, <1>11

-----------------------------------------------------------------------------
LEMMA BuildReadStep == ASSUME IInv, NEW a \in Admins, BuildRead(a) PROVE IInv'
<1> USE DEF IInv
<1> DEFINE r == [NoRequest EXCEPT !.at = "start", !.plan = plan]
<1>1. plan \in Plans
  BY DEF BuildRead, Readable, TypeOK
<1>2. r \in Requests /\ r.at = "start" /\ r.plan = plan /\ req[a].at = "idle"
  BY <1>1, IdleTyped DEF NoRequest, Requests, BuildRead
<1> HIDE DEF r
<1>3. req' = [req EXCEPT ![a] = r] /\ book' = book
  BY DEF r, BuildRead, files
<1>4. /\ Plans' = Plans /\ Requests' = Requests /\ Batches' = Batches
      /\ req' \in [Admins -> Requests]
      /\ req'[a] = r
      /\ \A b \in Admins : b # a => req'[b] = req[b]
      /\ Saving' = Saving \ {a}
      /\ Loaded' = Loaded \cup {a}
  BY <1>2, <1>3, MoveFacts DEF SavingAt
<1>5. Saving' = Saving /\ Saving \subseteq Admins /\ Loaded \subseteq Admins /\ a \notin Saving
  BY <1>2, <1>4 DEF Saving, Loaded
<1>6. /\ UNCHANGED <<book, plan, tmp, built, status, running, batch, crashes>>
      /\ requests' \in 0..MaxRequests
      /\ IF Saving = {} THEN sole' = sole /\ clean' = clean
         ELSE sole' = None /\ clean' = FALSE
  BY BoundAssumption DEF BuildRead, NewRequest, files, Disturb, TypeOK
<1>7. TypeOK'
  BY <1>4, <1>6 DEF TypeOK
<1>8. Threads'
  <2>1. \A b \in Saving' \cup Loaded' : req'[b].plan \in Plans
    BY <1>1, <1>2, <1>4, <1>5 DEF Threads
  <2> QED BY <1>4, <1>6, <2>1 DEF Threads
<1>9. sole' = None
  BY <1>6 DEF SoleSave
<1>10. CleanWork'
  BY <1>1, <1>2, <1>4, <1>5, <1>6 DEF CleanWork, Match
<1>11. BatchDone'
  BY <1>6 DEF BatchDone, Keeps, Rows
<1> QED BY <1>7, <1>8, <1>9, <1>10, <1>11 DEF SoleSave

\* The batch goes to another place and one of its fields changes.
LEMMA BatchMoves ==
    ASSUME NEW b \in Batches, NEW s \in {"begin", "next", "report"}
    PROVE  /\ \A p \in Plans : [b EXCEPT !.at = s, !.plan = p] \in Batches
           /\ [b EXCEPT !.at = s, !.done = @ + 1] \in Batches
           /\ [b EXCEPT !.at = s, !.failed = @ + 1] \in Batches
           /\ [b EXCEPT !.at = s, !.next = @ + 1] \in Batches
<1> DEFINE x == [b EXCEPT !.at = s]
<1>1. /\ x \in Batches
      /\ x.plan = b.plan /\ x.next = b.next /\ x.done = b.done /\ x.failed = b.failed
  BY DEF Batches
<1> HIDE DEF x
<1>2. \A p \in Plans : [x EXCEPT !.plan = p] \in Batches
  BY <1>1 DEF Batches
<1>3. [x EXCEPT !.done = x.done + 1] \in Batches
  BY <1>1 DEF Batches
<1>4. [x EXCEPT !.failed = x.failed + 1] \in Batches
  BY <1>1 DEF Batches
<1>5. [x EXCEPT !.next = x.next + 1] \in Batches
  BY <1>1 DEF Batches
<1> QED BY <1>2, <1>3, <1>4, <1>5 DEF x

LEMMA NoBatchTyped == NoBatch \in Batches /\ NoBatch.at = "off"
BY DEF NoBatch, Batches

LEMMA BuildStartStep == ASSUME IInv, NEW a \in Admins, BuildStart(a) PROVE IInv'
<1> USE DEF IInv
<1>1. a \in Loaded /\ req[a].plan \in Plans
  BY DEF BuildStart, Loaded, Threads
<1>2. req' = [req EXCEPT ![a] = NoRequest] /\ book' = book
  BY DEF BuildStart, Ends, files
<1>3. NoRequest.at = "idle"
  BY DEF NoRequest
<1>4. /\ Plans' = Plans /\ Requests' = Requests /\ Batches' = Batches
      /\ req' \in [Admins -> Requests]
      /\ \A b \in Admins : b # a => req'[b] = req[b]
      /\ Saving' = Saving \ {a}
      /\ Loaded' = Loaded \ {a}
  BY <1>2, <1>3, IdleTyped, MoveFacts DEF SavingAt
<1>5. Saving' = Saving /\ Saving \subseteq Admins /\ Loaded \subseteq Admins
  BY <1>1, <1>4 DEF Saving, Loaded
<1>6. UNCHANGED <<book, plan, tmp, built, status, requests, crashes>>
  BY DEF BuildStart, files
<1>7. sole = None
  BY <1>1 DEF SoleSave
<1>8. \A b \in Saving' \cup Loaded' : b \in Saving \cup Loaded /\ req'[b].plan = req[b].plan
  <2>1. a \notin Saving
    BY <1>1 DEF Saving, Loaded
  <2> QED BY <1>4, <1>5, <2>1
<1>9. CASE running
  <2>1. UNCHANGED <<running, batch, sole, clean>>
    BY <1>9 DEF BuildStart
  <2>2. TypeOK'
    BY <1>4, <1>6, <2>1 DEF TypeOK
  <2>3. Threads'
    BY <1>4, <1>6, <1>8, <2>1 DEF Threads
  <2>4. CleanWork'
    BY <1>4, <1>5, <1>6, <1>8, <2>1 DEF CleanWork, Match
  <2>5. BatchDone'
    BY <1>6, <2>1 DEF BatchDone, Keeps, Rows
  <2> QED BY <1>7, <2>1, <2>2, <2>3, <2>4, <2>5 DEF SoleSave
<1>10. CASE ~running
  <2> DEFINE new == [NoBatch EXCEPT !.at = "begin", !.plan = req[a].plan]
  <2>1. new \in Batches /\ new.at = "begin" /\ new.plan = req[a].plan /\ new.next = 1
    <3>1. new \in Batches
      BY <1>1, NoBatchTyped, BatchMoves
    <3> QED BY NoBatchTyped, <3>1 DEF NoBatch, Batches
  <2> HIDE DEF new
  <2>2. /\ running' = TRUE /\ batch' = new
        /\ IF Saving = {} THEN sole' = sole /\ clean' = clean ELSE sole' = None /\ clean' = FALSE
    BY <1>10 DEF BuildStart, Disturb, new
  <2>3. TypeOK'
    BY <1>4, <1>6, <2>1, <2>2 DEF TypeOK
  <2>4. Threads'
    BY <1>1, <1>4, <1>6, <1>8, <2>1, <2>2 DEF Threads
  <2>5. CleanWork'
    BY <1>1, <1>4, <1>5, <1>6, <1>8, <2>1, <2>2 DEF CleanWork, Match
  <2>6. BatchDone'
    BY <2>1, <2>2 DEF BatchDone
  <2>7. sole' = None
    BY <1>7, <2>2
  <2> QED BY <2>3, <2>4, <2>5, <2>6, <2>7 DEF SoleSave
<1> QED BY <1>9, <1>10

-----------------------------------------------------------------------------
\* The statuses the batch writes.
LEMMA StatusFacts ==
    ASSUME TypeOK
    PROVE  /\ Shown \in Statuses
           /\ \A s \in States : [Shown EXCEPT !.state = s] \in Statuses
           /\ \A d, f \in Nat : [Shown EXCEPT !.done = d, !.failed = f] \in Statuses
           /\ \A n \in Nat : [NoStatus EXCEPT !.state = "building", !.total = n] \in Statuses
<1>1. Shown \in Statuses
  BY DEF TypeOK, Shown, Statuses, States
<1>2. \A s \in States : [Shown EXCEPT !.state = s] \in Statuses
  BY <1>1 DEF Statuses
<1>3. \A d, f \in Nat : [Shown EXCEPT !.done = d, !.failed = f] \in Statuses
  BY <1>1 DEF Statuses
<1>4. \A n \in Nat : [NoStatus EXCEPT !.state = "building", !.total = n] \in Statuses
  BY DEF Statuses, States, NoStatus
<1> QED BY <1>1, <1>2, <1>3, <1>4

\* Everything but the batch, the status and the summaries stays.
LEMMA BatchFacts ==
    ASSUME IInv, NEW step \in Batches, BatchGoes(step), running, step.at # "off",
           step.at # "begin", step.plan = batch.plan, status' \in Statuses,
           DOMAIN built' \subseteq Int
    PROVE  /\ TypeOK' /\ Threads' /\ SoleSave'
           /\ UNCHANGED <<book, plan, clean, running>> /\ batch' = step
           /\ batch.plan \in Plans /\ Saving' = Saving /\ Loaded' = Loaded
           /\ req' = req /\ sole' = sole
<1>1. /\ UNCHANGED <<book, plan, tmp, running, req, requests, crashes, sole, clean>>
      /\ batch' = step
  BY DEF BatchGoes
<1>2. Plans' = Plans /\ Requests' = Requests /\ Batches' = Batches /\ Saving' = Saving /\ Loaded' = Loaded
  BY <1>1, StayFacts
<1>3. TypeOK'
  BY <1>1, <1>2 DEF IInv, TypeOK, Statuses
<1>4. batch.plan \in Plans
  BY DEF IInv, Threads
<1>5. Threads'
  BY <1>1, <1>2, <1>4 DEF IInv, Threads
<1>6. SoleSave'
  BY <1>1 DEF IInv, SoleSave
<1> QED BY <1>1, <1>2, <1>3, <1>4, <1>5, <1>6

LEMMA BatchBeginStep == ASSUME IInv, BatchBegin PROVE IInv'
<1> DEFINE step == [batch EXCEPT !.at = "next"]
<1>1. /\ step \in Batches /\ step.at = "next" /\ step.plan = batch.plan
      /\ step.next = 1 /\ running
  BY DEF IInv, TypeOK, Threads, Batches, BatchBegin
<1> HIDE DEF step
<1>2. batch.plan \in Plans
  BY DEF IInv, Threads, BatchBegin
<1>3. Len(Rows) \in Nat
  BY <1>2, PlanFacts, LenProperties DEF IInv, Rows
<1>4. /\ BatchGoes(step) /\ built' = built /\ status' \in Statuses
  BY <1>3, StatusFacts DEF IInv, BatchBegin, step
<1>5. /\ TypeOK' /\ Threads' /\ SoleSave'
      /\ UNCHANGED <<book, plan, clean, running>> /\ batch' = step
      /\ Saving' = Saving /\ Loaded' = Loaded /\ req' = req /\ sole' = sole
  BY <1>1, <1>4, BatchFacts DEF IInv, TypeOK
<1>6. CleanWork'
  BY <1>1, <1>4, <1>5 DEF IInv, CleanWork, Match, TypeOK, Plans
<1>7. BatchDone'
  BY <1>1, <1>5 DEF BatchDone
<1> QED BY <1>5, <1>6, <1>7 DEF IInv

\* A lesson of the batch's plan is added to the summaries.
LEMMA BatchLessonStep == ASSUME IInv, BatchLesson PROVE IInv'
<1> DEFINE step == [batch EXCEPT !.at = "report", !.done = @ + 1]
           lesson == Rows[batch.next].index
<1>1. /\ step \in Batches /\ step.at = "report" /\ step.plan = batch.plan
      /\ step.next = batch.next /\ step.failed = batch.failed /\ running
      /\ batch.at = "next" /\ batch.next \in Nat \ {0} /\ batch.next <= Len(Rows)
  <2>1. batch \in Batches /\ running
    BY DEF IInv, TypeOK, Threads, BatchLesson
  <2>2. step \in Batches
    BY <2>1, BatchMoves
  <2> QED BY <2>1, <2>2 DEF Batches, BatchLesson
<1>2. batch.plan \in Plans
  BY <1>1 DEF IInv, Threads
<1>3. Rows \in Seq(LessonRow) /\ LessonsOf(batch.plan) \subseteq Int
  BY <1>2, PlanFacts DEF IInv, Rows
<1>4. batch.next \in DOMAIN Rows
  BY <1>1, <1>3, LenProperties
<1>5. lesson \in LessonsOf(batch.plan) /\ lesson \in Int
  BY <1>2, <1>3, <1>4, PlanFacts DEF IInv, Rows
<1>6. /\ BatchGoes(step) /\ status' = status
      /\ built' = [l \in DOMAIN built \cup {lesson} |->
                      IF l = lesson THEN RangeOf(batch.plan, lesson) ELSE built[l]]
  BY DEF BatchLesson
<1> HIDE DEF step, lesson
<1>7. /\ DOMAIN built' = DOMAIN built \cup {lesson}
      /\ built'[lesson] = RangeOf(batch.plan, lesson)
      /\ \A l \in DOMAIN built : l # lesson => built'[l] = built[l]
  BY <1>6
<1>8. DOMAIN built' \subseteq Int /\ status' \in Statuses
  BY <1>5, <1>6, <1>7 DEF IInv, TypeOK
<1>9. /\ TypeOK' /\ Threads' /\ SoleSave'
      /\ UNCHANGED <<book, plan, clean, running>> /\ batch' = step
      /\ Saving' = Saving /\ Loaded' = Loaded /\ req' = req /\ sole' = sole
  BY <1>1, <1>6, <1>8, BatchFacts
<1>10. clean => plan = batch.plan
  BY <1>1 DEF IInv, CleanWork
<1>11. clean => \A l \in DOMAIN built' : l \in LessonsOf(plan) /\ built'[l] = RangeOf(plan, l)
  <2> SUFFICES ASSUME clean, NEW l \in DOMAIN built'
               PROVE  l \in LessonsOf(plan) /\ built'[l] = RangeOf(plan, l)
    OBVIOUS
  <2>1. plan # None
    BY <1>2, <1>10, PlanFacts DEF IInv
  <2>2. CASE l = lesson
    BY <2>2, <1>5, <1>7, <1>10
  <2>3. CASE l # lesson
    BY <2>1, <2>3, <1>7 DEF IInv, CleanWork, Match
  <2> QED BY <2>2, <2>3
<1>12. CleanWork'
  <2>1. clean => plan # None
    BY <1>2, <1>10, PlanFacts DEF IInv
  <2>2. Plans' = Plans
    BY <1>9 DEF Plans
  <2> QED BY <1>1, <1>9, <1>11, <2>1, <2>2 DEF IInv, CleanWork, Match
<1>13. BatchDone'
  <2>1. Rows' = Rows
    BY <1>1, <1>9 DEF Rows
  <2> SUFFICES ASSUME clean, batch.failed = 0,
                      NEW k \in 1..batch.next, k \in DOMAIN Rows
               PROVE  /\ Rows[k].index \in LessonsOf(plan) \cap DOMAIN built'
                      /\ built'[Rows[k].index] = RangeOf(plan, Rows[k].index)
    BY <1>1, <1>9, <2>1 DEF BatchDone, Keeps
  <2>2. CASE k = batch.next
    BY <2>2, <1>5, <1>7, <1>10 DEF lesson
  <2>3. CASE k # batch.next
    <3>1. k \in 1..(batch.next - 1)
      BY <2>3, <1>1
    <3>2. Keeps(plan, Rows[k].index)
      BY <3>1, <1>1 DEF IInv, BatchDone
    <3>3. Rows[k].index \in DOMAIN built'
      BY <3>2, <1>7 DEF Keeps
    <3> QED BY <1>11, <3>3
  <2> QED BY <2>2, <2>3
<1> QED BY <1>9, <1>12, <1>13 DEF IInv

LEMMA BatchFailureStep == ASSUME IInv, BatchFailure PROVE IInv'
<1> DEFINE step == [batch EXCEPT !.at = "report", !.failed = @ + 1]
<1>1. /\ step \in Batches /\ step.at = "report" /\ step.plan = batch.plan
      /\ step.failed # 0 /\ running
  <2>1. batch \in Batches /\ running
    BY DEF IInv, TypeOK, Threads, BatchFailure
  <2>2. step \in Batches
    BY <2>1, BatchMoves
  <2> QED BY <2>1, <2>2 DEF Batches, BatchFailure
<1>2. BatchGoes(step) /\ built' = built /\ status' \in Statuses
  BY StatusFacts DEF IInv, BatchFailure
<1> HIDE DEF step
<1>3. /\ TypeOK' /\ Threads' /\ SoleSave'
      /\ UNCHANGED <<book, plan, clean, running>> /\ batch' = step
      /\ Saving' = Saving /\ Loaded' = Loaded /\ req' = req /\ sole' = sole
  BY <1>1, <1>2, BatchFacts DEF IInv, TypeOK
<1>4. CleanWork'
  BY <1>1, <1>2, <1>3 DEF IInv, CleanWork, Match, Plans
<1>5. BatchDone'
  BY <1>1, <1>3 DEF BatchDone
<1> QED BY <1>3, <1>4, <1>5 DEF IInv

LEMMA BatchReportStep == ASSUME IInv, BatchReport PROVE IInv'
<1> DEFINE step == [batch EXCEPT !.at = "next", !.next = @ + 1]
<1>1. /\ step \in Batches /\ step.at = "next" /\ step.plan = batch.plan
      /\ step.next = batch.next + 1 /\ step.failed = batch.failed /\ running
      /\ batch.at = "report" /\ batch.next \in Nat /\ batch.done \in Nat /\ batch.failed \in Nat
  <2>1. batch \in Batches /\ running /\ batch.at = "report"
    BY DEF IInv, TypeOK, Threads, BatchReport
  <2>2. step \in Batches
    BY <2>1, BatchMoves
  <2> QED BY <2>1, <2>2 DEF Batches, BatchReport
<1>2. BatchGoes(step) /\ built' = built /\ status' \in Statuses
  BY <1>1, StatusFacts DEF IInv, BatchReport
<1> HIDE DEF step
<1>3. /\ TypeOK' /\ Threads' /\ SoleSave'
      /\ UNCHANGED <<book, plan, clean, running>> /\ batch' = step
      /\ Saving' = Saving /\ Loaded' = Loaded /\ req' = req /\ sole' = sole
  BY <1>1, <1>2, BatchFacts DEF IInv, TypeOK
<1>4. CleanWork'
  BY <1>1, <1>2, <1>3 DEF IInv, CleanWork, Match, Plans
<1>5. BatchDone'
  <2>1. Rows' = Rows
    BY <1>1, <1>3 DEF Rows
  <2>2. (batch.next + 1) - 1 = batch.next
    BY <1>1
  <2>3. \A l : Keeps(plan, l)' <=> Keeps(plan, l)
    BY <1>2, <1>3 DEF Keeps
  <2> QED BY <1>1, <1>3, <2>1, <2>2, <2>3 DEF IInv, BatchDone
<1> QED BY <1>3, <1>4, <1>5 DEF IInv

\* The batch is over, as "done", "partial" or "error".
LEMMA BatchOverStep == ASSUME IInv, BatchEnd \/ BatchRaises PROVE IInv'
<1> DEFINE step == [batch EXCEPT !.at = "leave"]
<1>1. step \in Batches /\ step.at = "leave" /\ step.plan = batch.plan /\ running
  BY DEF IInv, TypeOK, Threads, Batches, BatchEnd, BatchRaises
<1>2. {"done", "partial", "error"} \subseteq States
  BY DEF States
<1>3. BatchGoes(step) /\ built' = built /\ status' \in Statuses
  BY <1>2, StatusFacts DEF IInv, TypeOK, BatchEnd, BatchRaises
<1> HIDE DEF step
<1>4. /\ TypeOK' /\ Threads' /\ SoleSave'
      /\ UNCHANGED <<book, plan, clean, running>> /\ batch' = step
      /\ Saving' = Saving /\ Loaded' = Loaded /\ req' = req /\ sole' = sole
  BY <1>1, <1>3, BatchFacts DEF IInv, TypeOK
<1>5. CleanWork'
  BY <1>1, <1>3, <1>4 DEF IInv, CleanWork, Match, Plans
<1>6. BatchDone'
  BY <1>1, <1>4 DEF BatchDone
<1> QED BY <1>4, <1>5, <1>6 DEF IInv

LEMMA BatchLeaveStep == ASSUME IInv, BatchLeave PROVE IInv'
<1>1. /\ UNCHANGED <<book, plan, tmp, built, status, req, requests, crashes, sole, clean>>
      /\ running' = FALSE /\ batch' = NoBatch /\ batch.at = "leave"
  BY DEF BatchLeave, files
<1>2. Plans' = Plans /\ Requests' = Requests /\ Batches' = Batches /\ Saving' = Saving /\ Loaded' = Loaded
  BY <1>1, StayFacts
<1>3. TypeOK'
  BY <1>1, <1>2, NoBatchTyped DEF IInv, TypeOK, Statuses
<1>4. Threads'
  BY <1>1, <1>2, NoBatchTyped DEF IInv, Threads
<1>5. sole = None
  BY <1>1 DEF IInv, SoleSave, Threads
<1>6. CleanWork'
  BY <1>1, <1>2 DEF IInv, CleanWork, Match
<1>7. BatchDone'
  BY <1>1, NoBatchTyped DEF BatchDone
<1> QED BY <1>1, <1>3, <1>4, <1>5, <1>6, <1>7 DEF IInv, SoleSave

LEMMA CrashStep == ASSUME IInv, Crash PROVE IInv'
<1>1. /\ UNCHANGED <<book, plan, tmp, built, status, requests, clean>>
      /\ running' = FALSE /\ batch' = NoBatch /\ sole' = None
      /\ req' = [a \in Admins |-> NoRequest]
  BY DEF Crash, files
<1>2. crashes' \in 0..MaxCrashes
  BY BoundAssumption DEF IInv, TypeOK, Crash
<1>3. Plans' = Plans /\ Requests' = Requests /\ Batches' = Batches
  BY <1>1 DEF Plans, Requests, Batches
<1>4. Saving' = {} /\ Loaded' = {}
  BY <1>1 DEF Saving, Loaded, NoRequest
<1>5. req' \in [Admins -> Requests]
  BY <1>1, IdleTyped
<1>6. TypeOK'
  BY <1>1, <1>2, <1>3, <1>5, NoBatchTyped DEF IInv, TypeOK, Statuses
<1>7. Threads'
  BY <1>1, <1>4, NoBatchTyped DEF Threads
<1>8. CleanWork'
  BY <1>1, <1>3, <1>4 DEF IInv, CleanWork, Match
<1>9. BatchDone'
  BY <1>1, NoBatchTyped DEF BatchDone
<1> QED BY <1>1, <1>6, <1>7, <1>8, <1>9 DEF IInv, SoleSave

-----------------------------------------------------------------------------
LEMMA NextIInv == IInv /\ [Next]_vars => IInv'
<1> SUFFICES ASSUME IInv, [Next]_vars PROVE IInv'
  OBVIOUS
<1>1. ASSUME NEW a \in Admins, SaveStep(a) PROVE IInv'
  BY <1>1, SaveCheckStep, SaveListStep, SavePruneStep, SaveOpenStep, SaveFillStep,
     SaveReplaceStep DEF SaveStep
<1>2. ASSUME NEW a \in Admins, BuildStep(a) PROVE IInv'
  BY <1>2, BuildReadStep, BuildStartStep DEF BuildStep
<1>3. CASE BatchStep
  BY <1>3, BatchBeginStep, BatchLessonStep, BatchFailureStep, BatchReportStep,
     BatchOverStep, BatchLeaveStep DEF BatchStep
<1>4. CASE Crash
  BY <1>4, CrashStep
<1>5. CASE UNCHANGED vars
  <2>1. UNCHANGED <<book, plan, tmp, built, status, running, batch, req, requests, crashes, sole, clean>>
    BY <1>5 DEF vars
  <2>2. Plans' = Plans /\ Requests' = Requests /\ Batches' = Batches /\ Saving' = Saving /\ Loaded' = Loaded
    BY <2>1, StayFacts
  <2>3. TypeOK' /\ Threads'
    BY <2>1, <2>2 DEF IInv, TypeOK, Threads, Statuses
  <2>4. SoleSave' /\ CleanWork'
    BY <2>1, <2>2 DEF IInv, SoleSave, CleanWork, Match, Keeps
  <2>5. BatchDone'
    BY <2>1 DEF IInv, BatchDone, Keeps, Rows
  <2> QED BY <2>3, <2>4, <2>5 DEF IInv
<1> QED BY <1>1, <1>2, <1>3, <1>4, <1>5 DEF Next

\* The requests, the files and the batch always have a shape the code can meet.
THEOREM AlwaysIInv == Spec => []IInv
BY InitIInv, NextIInv, PTL DEF Spec

THEOREM TypeCorrect == Spec => []TypeOK
<1>1. IInv => TypeOK
  BY DEF IInv
<1> QED BY <1>1, AlwaysIInv, PTL

\* Unless saves and builds overlapped since the last save made alone, each summary on disk
\* is of a lesson of the plan on disk and was built from the pages it has there.
THEOREM SummariesMatchPlan == Spec => []BuiltMatchesPlan
<1>1. IInv => BuiltMatchesPlan
  <2> SUFFICES ASSUME IInv, clean, NEW l \in DOMAIN built
               PROVE  Readable /\ l \in LessonsOf(plan) /\ built[l] = RangeOf(plan, l)
    BY DEF BuiltMatchesPlan
  <2>1. plan \in Plans /\ Match(plan)
    BY DEF IInv, CleanWork
  <2>2. Readable
    BY <2>1, PlanFacts DEF IInv, Readable
  <2> QED BY <2>1, <2>2 DEF Match
<1> QED BY <1>1, AlwaysIInv, PTL

\* The plan on disk is one that was saved whole, whenever the process was killed.
THEOREM PlanStaysWhole == Spec => []PlanIntact
<1>1. IInv => PlanIntact
  BY DEF IInv, CleanWork, PlanIntact
<1> QED BY <1>1, AlwaysIInv, PTL

\* When the status turns to "done" every lesson of the plan has its summary.
THEOREM DoneIsBuilt == Spec => DoneMeansBuilt
<1> DEFINE Built == (status'.state = "done" /\ status.state # "done" /\ clean)
               => \A l \in LessonsOf(plan) : l \in DOMAIN built' /\ built'[l] = RangeOf(plan, l)
<1>1. IInv /\ [Next]_vars => [Built]_vars
  <2> SUFFICES ASSUME IInv, Next, status'.state = "done", status.state # "done", clean,
                      NEW l \in LessonsOf(plan)
               PROVE  l \in DOMAIN built' /\ built'[l] = RangeOf(plan, l)
    OBVIOUS
  <2>1. Shown.state # "done"
    BY DEF Shown, IInv, TypeOK, Statuses
  <2>2. BatchEnd /\ batch.failed = 0
    <3>1. ASSUME NEW a \in Admins, SaveStep(a) \/ BuildStep(a) PROVE FALSE
      BY <3>1 DEF SaveStep, BuildStep, SaveCheck, SaveList, SavePrune, SaveOpen, SaveFill,
                  SaveReplace, BuildRead, BuildStart, files
    <3>2. ~BatchBegin /\ ~BatchLesson /\ ~BatchLeave /\ ~Crash
      BY DEF BatchBegin, BatchLesson, BatchLeave, Crash, files, NoStatus
    <3>3. Shown \in Statuses
      BY StatusFacts DEF IInv
    <3>4. ~BatchFailure /\ ~BatchReport /\ ~BatchRaises
      BY <2>1, <3>3 DEF BatchFailure, BatchReport, BatchRaises, Statuses
    <3>5. BatchEnd
      BY <3>1, <3>2, <3>4 DEF Next, BatchStep
    <3>6. batch.failed = 0
      BY <3>3, <3>5 DEF BatchEnd, Statuses
    <3> QED BY <3>5, <3>6
  <2>3. /\ batch.at = "next" /\ batch.next > Len(Rows) /\ built' = built
        /\ batch.next \in Nat /\ plan = batch.plan /\ batch.plan \in Plans
    BY <2>2 DEF BatchEnd, IInv, TypeOK, Batches, CleanWork, Threads
  <2>4. Rows \in Seq(LessonRow)
    BY <2>3, PlanFacts DEF IInv, Rows
  <2>5. PICK k \in DOMAIN Rows : l = Rows[k].index
    BY <2>3 DEF LessonsOf, Rows
  <2>6. k \in 1..(batch.next - 1)
    BY <2>3, <2>4, <2>5, LenProperties
  <2>7. Keeps(plan, l)
    BY <2>2, <2>3, <2>5, <2>6 DEF IInv, BatchDone
  <2> QED BY <2>3, <2>7 DEF Keeps
<1> QED BY <1>1, AlwaysIInv, PTL DEF Spec, DoneMeansBuilt

-----------------------------------------------------------------------------
(* The pages of a valid plan.                                              *)

\* A set of naturals has a least element.
LEMMA LeastNat ==
    ASSUME NEW T \in SUBSET Nat, T # {}
    PROVE  \E x \in T : \A y \in T : x <= y
<1> DEFINE less == OpToRel(<, Nat)
<1>1. IsWellFoundedOn(less, Nat)
  BY NatLessThanWellFounded
<1>2. \A x, y \in Nat : <<x, y>> \in less <=> x < y
  BY DEF OpToRel
<1> HIDE DEF less
<1>3. PICK x \in T : \A y \in T : ~(<<y, x>> \in less)
  BY <1>1, WFMin
<1>4. \A y \in T : ~(y < x)
  BY <1>2, <1>3
<1> QED BY <1>4

LEMMA OffsetFact == Offsets \subseteq Int
BY DEF Offsets

LEMMA IndexFact == \A x \in Indexes : x # 0
BY DEF Indexes

\* The rows of a valid plan.
LEMMA RowFacts ==
    ASSUME NEW p, NEW n \in Nat, ValidPlan(p, n)
    PROVE  /\ Len(p.lessons) \in Nat \ {0}
           /\ DOMAIN p.lessons = 1..Len(p.lessons)
           /\ p.offset \in Int
           /\ \A k \in DOMAIN p.lessons :
                 /\ p.lessons[k].index # 0
                 /\ p.lessons[k].start \in Int /\ p.lessons[k].end \in Int
                 /\ p.lessons[k].start <= p.lessons[k].end
                 /\ k > 1 => k - 1 \in DOMAIN p.lessons /\ p.lessons[k].start > p.lessons[k-1].end
<1> DEFINE rows == p.lessons
<1>1. rows \in Seq(LessonRow) /\ p.offset \in Offsets /\ Len(rows) \in 1..MaxPlanLessons
  BY DEF ValidPlan
<1>2. p.offset \in Int
  BY <1>1, OffsetFact
<1>3. MaxPlanLessons \in Int
  BY DEF MaxPlanLessons
<1>4. 1 <= Len(rows)
  BY <1>1, <1>3
<1>5. DOMAIN rows = 1..Len(rows) /\ Len(rows) \in Nat
  BY <1>1, LenProperties
<1>6. Len(rows) \in Nat \ {0}
  BY <1>4, <1>5
<1>7. ASSUME NEW k \in DOMAIN rows
      PROVE  /\ rows[k].index # 0
             /\ rows[k].start \in Int /\ rows[k].end \in Int
             /\ rows[k].start <= rows[k].end
             /\ k > 1 => k - 1 \in DOMAIN rows /\ rows[k].start > rows[k-1].end
  <2>1. rows[k] \in LessonRow
    BY <1>1, <1>5
  <2>2. k > 1 => k - 1 \in DOMAIN rows
    BY <1>5
  <2>3. rows[k].index \in Indexes
    BY DEF ValidPlan
  <2>4. rows[k].index # 0
    BY <2>3, IndexFact
  <2>5. rows[k].start <= rows[k].end /\ (k > 1 => rows[k].start > rows[k-1].end)
    BY DEF ValidPlan
  <2> HIDE DEF rows
  <2> QED BY <2>1, <2>2, <2>4, <2>5 DEF LessonRow
<1> QED BY <1>2, <1>5, <1>6, <1>7

\* A lesson ends before any later one starts: consecutive rows do, by ValidPlan; of the
\* rows that would not, the least has a predecessor that does.
LEMMA RowsApart ==
    ASSUME NEW p, NEW n \in Nat, ValidPlan(p, n),
           NEW i \in DOMAIN p.lessons, NEW j \in DOMAIN p.lessons, i < j
    PROVE  p.lessons[i].end < p.lessons[j].start
<1> DEFINE rows == p.lessons
           T == {m \in DOMAIN rows : i < m /\ ~(rows[i].end < rows[m].start)}
<1>1. /\ Len(rows) \in Nat
      /\ DOMAIN rows = 1..Len(rows)
      /\ \A k \in DOMAIN rows :
            /\ rows[k].start \in Int /\ rows[k].end \in Int
            /\ rows[k].start <= rows[k].end
            /\ k > 1 => k - 1 \in DOMAIN rows /\ rows[k].start > rows[k-1].end
  BY RowFacts
<1> HIDE DEF rows
<1>2. SUFFICES ASSUME T # {} PROVE FALSE
  BY DEF rows
<1>3. T \in SUBSET Nat
  BY <1>1
<1>4. PICK m \in T : \A y \in T : m <= y
  BY <1>2, <1>3, LeastNat
<1>5. m \in Nat /\ i \in Nat /\ i \in DOMAIN rows /\ m \in DOMAIN rows /\ i < m
  BY <1>1, <1>4 DEF rows
<1>6. m - 1 \in DOMAIN rows /\ rows[m].start > rows[m-1].end
  BY <1>1, <1>5
<1>7. CASE m - 1 = i
  BY <1>1, <1>4, <1>5, <1>6, <1>7
<1>8. CASE m - 1 # i
  <2>1. m - 1 \notin T
    BY <1>4, <1>5
  <2>2. i < m - 1
    BY <1>5, <1>8
  <2>3. rows[i].end < rows[m-1].start
    BY <1>6, <2>1, <2>2
  <2> QED BY <1>1, <1>4, <1>5, <1>6, <2>3
<1> QED BY <1>7, <1>8

\* A page is in one lesson at most, and that lesson's index is the one it gets.
LEMMA LessonOfPage ==
    ASSUME NEW p, NEW n \in Nat, ValidPlan(p, n), NEW x \in Int
    PROVE  LET within(k) == x - p.offset \in p.lessons[k].start..p.lessons[k].end
               lesson == LessonOf(PlanLessons(p), x)
           IN /\ \A k \in DOMAIN p.lessons : within(k) <=> lesson = p.lessons[k].index
              /\ lesson = 0 <=> \A k \in DOMAIN p.lessons : ~within(k)
<1> DEFINE rows == p.lessons
           within(k) == x - p.offset \in rows[k].start..rows[k].end
           lessons == PlanLessons(p)
           lesson == LessonOf(lessons, x)
           here == {k \in DOMAIN lessons : lessons[k].start <= x /\ x <= lessons[k].end}
<1>1. /\ DOMAIN rows = 1..Len(rows) /\ Len(rows) \in Nat
      /\ p.offset \in Int
      /\ \A k \in DOMAIN rows : /\ rows[k].index # 0
                                /\ rows[k].start \in Int /\ rows[k].end \in Int
                                /\ rows[k].start <= rows[k].end
  BY RowFacts
<1>2. \A i, j \in DOMAIN rows : i < j => rows[i].end < rows[j].start
  BY RowsApart
<1>3. \A i, j \in DOMAIN rows : i # j => rows[i].index # rows[j].index
  <2>1. \A i \in DOMAIN rows : \A j \in 1..(i-1) : rows[j].index # rows[i].index
    BY DEF ValidPlan
  <2>2. \A i, j \in DOMAIN rows : j < i => j \in 1..(i-1)
    BY <1>1
  <2>3. \A i, j \in DOMAIN rows : i # j => i < j \/ j < i
    BY <1>1
  <2> QED BY <2>1, <2>2, <2>3
<1>4. DOMAIN lessons = DOMAIN rows
      /\ \A k \in DOMAIN rows : /\ lessons[k].index = rows[k].index
                                /\ lessons[k].start = rows[k].start + p.offset
                                /\ lessons[k].end = rows[k].end + p.offset
  BY DEF PlanLessons
<1>5. lesson = IF here = {} THEN 0 ELSE lessons[Min(here)].index
  BY DEF LessonOf
<1> HIDE DEF rows, lessons, lesson
<1>6. \A k \in DOMAIN rows : within(k) <=> k \in here
  BY <1>1, <1>4
<1>7. here \subseteq DOMAIN rows
  BY <1>4
<1>8. \A i, j \in DOMAIN rows : i \in here /\ j \in here => i = j
  <2> SUFFICES ASSUME NEW i \in DOMAIN rows, NEW j \in DOMAIN rows, i \in here, j \in here, i < j
               PROVE  FALSE
    BY <1>1
  <2>1. rows[i].end < rows[j].start
    BY <1>2
  <2>2. /\ rows[i].start \in Int /\ rows[i].end \in Int /\ rows[j].start \in Int /\ rows[j].end \in Int
        /\ p.offset \in Int
    BY <1>1
  <2>3. x <= rows[i].end + p.offset /\ rows[j].start + p.offset <= x
    BY <1>4
  <2> QED BY <2>1, <2>2, <2>3
<1>9. ASSUME NEW k \in here
      PROVE  lesson = rows[k].index
  <2>1. k \in DOMAIN rows /\ k \in Int
    BY <1>1, <1>7
  <2>2. here = {k}
    BY <1>7, <1>8
  <2>3. Min(here) = k
    BY <2>1, <2>2 DEF Min
  <2> HIDE DEF here
  <2> QED BY <1>4, <1>5, <2>1, <2>2, <2>3
<1> HIDE DEF here, within
<1>10. \A k \in DOMAIN rows : within(k) <=> lesson = rows[k].index
  <2> SUFFICES ASSUME NEW k \in DOMAIN rows, lesson = rows[k].index PROVE k \in here
    BY <1>6, <1>9
  <2>1. rows[k].index # 0
    BY <1>1
  <2>2. here # {}
    BY <1>5, <2>1
  <2>3. PICK h \in here : h \in DOMAIN rows
    BY <1>7, <2>2
  <2>4. rows[h].index = rows[k].index
    BY <1>9, <2>3
  <2> QED BY <1>3, <2>3, <2>4
<1>11. lesson = 0 <=> \A k \in DOMAIN rows : ~within(k)
  <2>1. (\A k \in DOMAIN rows : ~within(k)) <=> here = {}
    BY <1>6, <1>7
  <2>2. here # {} => lesson # 0
    BY <1>1, <1>7, <1>9
  <2> QED BY <1>5, <2>1, <2>2
<1> QED BY <1>10, <1>11 DEF rows, lessons, lesson, within

\* Every page of a book with a valid plan is where the printed pages of its lessons put it.
LEMMA PlanPlaces ==
    ASSUME NEW pages, Len(pages) \in Nat, NEW p, ValidPlan(p, Len(pages)), NEW x \in 1..Len(pages)
    PROVE  LET course == BuildCourse(pages, PlanLessons(p))
               within(k) == x - p.offset \in p.lessons[k].start..p.lessons[k].end
           IN /\ \A k \in DOMAIN p.lessons : within(k) <=> course.lesson[x] = p.lessons[k].index
              /\ x \in course.front <=> \A k \in DOMAIN p.lessons : x - p.offset < p.lessons[k].start
              /\ x \in course.other <=> /\ \A k \in DOMAIN p.lessons : ~within(k)
                                        /\ x - p.offset > p.lessons[1].start
<1> DEFINE rows == p.lessons
           within(k) == x - p.offset \in rows[k].start..rows[k].end
           lessons == PlanLessons(p)
           course == BuildCourse(pages, lessons)
<1>1. /\ DOMAIN rows = 1..Len(rows) /\ Len(rows) \in Nat \ {0}
      /\ p.offset \in Int
      /\ \A k \in DOMAIN rows : /\ rows[k].start \in Int /\ rows[k].end \in Int
                                /\ rows[k].start <= rows[k].end
  BY RowFacts
<1>2. \A k \in DOMAIN rows : k # 1 => rows[1].end < rows[k].start
  BY <1>1, RowsApart
<1>3. 1 \in DOMAIN rows /\ x \in Int
  BY <1>1
<1>4. /\ \A k \in DOMAIN rows : within(k) <=> LessonOf(lessons, x) = rows[k].index
      /\ LessonOf(lessons, x) = 0 <=> \A k \in DOMAIN rows : ~within(k)
  BY <1>3, LessonOfPage
<1>5. lessons # <<>> /\ lessons[1].start = rows[1].start + p.offset
  BY <1>3 DEF PlanLessons
<1>6. /\ course.lesson[x] = LessonOf(lessons, x)
      /\ x \in course.front <=> LessonOf(lessons, x) = 0 /\ x < lessons[1].start
      /\ x \in course.other <=> LessonOf(lessons, x) = 0 /\ x > lessons[1].start
  BY <1>5 DEF BuildCourse
<1> HIDE DEF rows, lessons, course
<1>7. x < lessons[1].start <=> \A k \in DOMAIN rows : x - p.offset < rows[k].start
  <2>1. x < lessons[1].start <=> x - p.offset < rows[1].start
    BY <1>1, <1>3, <1>5
  <2>2. ASSUME x - p.offset < rows[1].start, NEW k \in DOMAIN rows
        PROVE  x - p.offset < rows[k].start
    <3>1. CASE k = 1
      BY <2>2, <3>1
    <3>2. CASE k # 1
      BY <1>1, <1>2, <1>3, <2>2, <3>2
    <3> QED BY <3>1, <3>2
  <2> QED BY <1>3, <2>1, <2>2
<1>8. (\A k \in DOMAIN rows : x - p.offset < rows[k].start) => \A k \in DOMAIN rows : ~within(k)
  BY <1>1, <1>3
<1>9. x > lessons[1].start <=> x - p.offset > rows[1].start
  BY <1>1, <1>3, <1>5
<1> HIDE DEF within
<1> QED BY <1>4, <1>6, <1>7, <1>8, <1>9 DEF rows, lessons, course, within

\* Under every plan that comes to lie on disk, whoever saved it and whatever was killed,
\* each page is in the one lesson whose printed pages contain it, or in none (build_course()).
THEOREM PagesWhereTheyBelong == Spec => []PagesPlaced
<1>1. TypeOK => PagesPlaced
  <2> SUFFICES ASSUME TypeOK, Readable PROVE PagesPlaced
    BY DEF PagesPlaced
  <2>1. ValidPlan(plan, Len(book))
    BY DEF TypeOK, Readable, Plans
  <2>2. Len(book) \in Nat
    BY BookAssumption DEF TypeOK
  <2> QED BY <2>1, <2>2, PlanPlaces DEF PagesPlaced
<1> QED BY <1>1, TypeCorrect, PTL

-----------------------------------------------------------------------------
(* The lessons found in a book.                                            *)

\* What the loop of detect_lessons() counts from one page to the next.
Grows(pages, f, n) ==
    f = [i \in 0..n |-> IF i = 0 THEN 0
                        ELSE IF Opens(pages[i], f[i-1] + 1) THEN f[i-1] + 1 ELSE f[i-1]]

\* There is such a function for every number of pages: one page more extends it.
LEMMA GrowsExists == ASSUME NEW pages, NEW n \in Nat PROVE \E f : Grows(pages, f, n)
<1> DEFINE T == {m \in Nat : ~\E f : Grows(pages, f, m)}
<1> SUFFICES ASSUME T # {} PROVE FALSE
  OBVIOUS
<1>1. PICK m \in T : \A y \in T : m <= y
  BY LeastNat
<1>2. m \in Nat /\ ~\E f : Grows(pages, f, m)
  BY <1>1
<1>3. CASE m = 0
  <2> DEFINE f == [i \in 0..0 |-> 0]
  <2>1. Grows(pages, f, 0)
    BY DEF Grows
  <2> QED BY <1>2, <1>3, <2>1
<1>4. CASE m # 0
  <2>1. m - 1 \in Nat /\ m - 1 \notin T
    BY <1>1, <1>2, <1>4
  <2>2. PICK g : Grows(pages, g, m - 1)
    BY <2>1
  <2> DEFINE last == IF Opens(pages[m], g[m-1] + 1) THEN g[m-1] + 1 ELSE g[m-1]
             f == [i \in 0..m |-> IF i = m THEN last ELSE g[i]]
             step(i) == IF i = 0 THEN 0
                        ELSE IF Opens(pages[i], f[i-1] + 1) THEN f[i-1] + 1 ELSE f[i-1]
  <2>3. ASSUME NEW i \in 0..m PROVE f[i] = step(i)
    <3>1. CASE i = m
      <4>1. f[i-1] = g[i-1] /\ i # 0
        BY <1>2, <1>4, <3>1
      <4>2. f[i] = last
        BY <3>1
      <4> HIDE DEF f
      <4> QED BY <3>1, <4>1, <4>2
    <3>2. CASE i # m
      <4>1. i \in 0..(m-1)
        BY <1>2, <3>2
      <4>2. g[i] = IF i = 0 THEN 0
                   ELSE IF Opens(pages[i], g[i-1] + 1) THEN g[i-1] + 1 ELSE g[i-1]
        BY <2>2, <4>1 DEF Grows
      <4>3. f[i] = g[i]
        BY <3>2
      <4>4. i # 0 => i - 1 \in 0..m /\ i - 1 # m
        BY <1>2, <4>1
      <4>5. i # 0 => f[i-1] = g[i-1]
        BY <4>4
      <4> HIDE DEF f
      <4> QED BY <4>2, <4>3, <4>5
    <3> QED BY <3>1, <3>2
  <2>4. f = [i \in 0..m |-> f[i]]
    OBVIOUS
  <2> HIDE DEF f
  <2>5. f = [i \in 0..m |-> step(i)]
    BY <2>3, <2>4
  <2>6. Grows(pages, f, m)
    BY <2>5 DEF Grows
  <2> QED BY <1>2, <2>6
<1> QED BY <1>3, <1>4

\* Opened() is such a function.
LEMMA OpenedGrows == ASSUME NEW pages, Len(pages) \in Nat PROVE Grows(pages, Opened(pages), Len(pages))
<1>1. \E f : Grows(pages, f, Len(pages))
  BY GrowsExists
<1> QED BY <1>1 DEF Opened, Grows

\* The count starts at 0, and a page adds one exactly when it opens the lesson expected.
LEMMA CountStep ==
    ASSUME NEW pages, Len(pages) \in Nat
    PROVE  LET o == Opened(pages)
           IN /\ o[0] = 0
              /\ \A i \in 1..Len(pages) :
                    o[i] = IF Opens(pages[i], o[i-1] + 1) THEN o[i-1] + 1 ELSE o[i-1]
<1>1. PICK o : o = Opened(pages)
  OBVIOUS
<1>2. Grows(pages, o, Len(pages))
  BY <1>1, OpenedGrows
<1>3. o[0] = 0
  BY <1>2 DEF Grows
<1>4. ASSUME NEW i \in 1..Len(pages)
      PROVE  o[i] = IF Opens(pages[i], o[i-1] + 1) THEN o[i-1] + 1 ELSE o[i-1]
  BY <1>2 DEF Grows
<1> QED BY <1>1, <1>3, <1>4

LEMMA CountNat ==
    ASSUME NEW pages, Len(pages) \in Nat, NEW i \in 0..Len(pages)
    PROVE  Opened(pages)[i] \in Nat
<1>1. PICK o : o = Opened(pages)
  OBVIOUS
<1>2. /\ o[0] = 0
      /\ \A k \in 1..Len(pages) : o[k] = o[k-1] + 1 \/ o[k] = o[k-1]
  BY <1>1, CountStep
<1> DEFINE T == {m \in 0..Len(pages) : o[m] \notin Nat}
<1> SUFFICES ASSUME T # {} PROVE FALSE
  BY <1>1
<1> T \in SUBSET Nat
  OBVIOUS
<1>3. PICK m \in T : \A y \in T : m <= y
  BY LeastNat
<1>4. CASE m = 0
  BY <1>2, <1>3, <1>4
<1>5. CASE m # 0
  <2>1. m \in 1..Len(pages) /\ m - 1 \in 0..Len(pages) /\ m - 1 \notin T
    BY <1>3, <1>5
  <2>2. o[m-1] \in Nat
    BY <2>1
  <2> QED BY <1>2, <1>3, <2>1, <2>2
<1> QED BY <1>4, <1>5

\* The count never falls.
LEMMA CountRises ==
    ASSUME NEW pages, Len(pages) \in Nat,
           NEW i \in 0..Len(pages), NEW j \in 0..Len(pages), i <= j
    PROVE  Opened(pages)[i] <= Opened(pages)[j]
<1>1. PICK o : o = Opened(pages)
  OBVIOUS
<1>2. \A k \in 1..Len(pages) : o[k] = o[k-1] + 1 \/ o[k] = o[k-1]
  BY <1>1, CountStep
<1>3. \A k \in 0..Len(pages) : o[k] \in Nat
  BY <1>1, CountNat
<1> DEFINE T == {m \in i..Len(pages) : o[m] < o[i]}
<1> SUFFICES ASSUME T # {} PROVE FALSE
  BY <1>1, <1>3
<1> T \in SUBSET Nat
  OBVIOUS
<1>4. PICK m \in T : \A y \in T : m <= y
  BY LeastNat
<1>5. m # i
  BY <1>3, <1>4
<1>6. m \in 1..Len(pages) /\ m - 1 \in i..Len(pages) /\ m - 1 \notin T /\ m - 1 \in 0..Len(pages)
  BY <1>4, <1>5
<1>7. o[m-1] \in Nat /\ o[m] \in Nat /\ o[i] \in Nat
  BY <1>3, <1>6
<1>8. o[m-1] >= o[i]
  BY <1>6, <1>7
<1> QED BY <1>2, <1>4, <1>6, <1>7, <1>8

\* Every lesson counted was opened by one page: the last step up to it is not skipped.
LEMMA CountReaches ==
    ASSUME NEW pages, Len(pages) \in Nat, NEW i \in 0..Len(pages), NEW k \in 1..Opened(pages)[i]
    PROVE  \E s \in 1..i : Opened(pages)[s] = k /\ Opened(pages)[s-1] = k - 1
<1>1. PICK o : o = Opened(pages)
  OBVIOUS
<1>2. \A s \in 1..Len(pages) : o[s] = o[s-1] + 1 \/ o[s] = o[s-1]
  BY <1>1, CountStep
<1>3. o[0] = 0 /\ \A s \in 0..Len(pages) : o[s] \in Nat
  BY <1>1, CountNat, CountStep
<1>4. k \in Nat /\ 1 <= k /\ k <= o[i]
  BY <1>1, <1>3
<1> DEFINE T == {s \in 0..i : o[s] >= k}
<1>5. T # {} /\ T \in SUBSET Nat
  BY <1>4
<1>6. PICK s \in T : \A y \in T : s <= y
  BY <1>5, LeastNat
<1>7. s # 0
  BY <1>3, <1>4, <1>6
<1>8. s \in 1..i /\ s \in 1..Len(pages) /\ s - 1 \in 0..i /\ s - 1 \in 0..Len(pages) /\ s - 1 \notin T
  BY <1>6, <1>7
<1>9. o[s] \in Nat /\ o[s-1] \in Nat /\ o[s] >= k /\ ~(o[s-1] >= k)
  BY <1>3, <1>6, <1>8
<1>10. o[s] = o[s-1] + 1 \/ o[s] = o[s-1]
  BY <1>2, <1>8
<1>11. o[s] = k /\ o[s-1] = k - 1
  BY <1>4, <1>9, <1>10
<1> QED BY <1>1, <1>8, <1>11

\* A count of k belongs to the pages from the k-th lesson's first one on.
LEMMA CountFrom ==
    ASSUME NEW pages, Len(pages) \in Nat, NEW k \in Nat \ {0},
           NEW s \in 1..Len(pages), Opened(pages)[s] = k, Opened(pages)[s-1] = k - 1,
           NEW x \in 0..Len(pages)
    PROVE  s <= x <=> Opened(pages)[x] >= k
<1>1. s <= x => Opened(pages)[s] <= Opened(pages)[x]
  BY CountRises
<1>2. ~(s <= x) => Opened(pages)[x] <= Opened(pages)[s-1]
  <2>1. s - 1 \in 0..Len(pages) /\ (~(s <= x) => x <= s - 1)
    OBVIOUS
  <2> QED BY <2>1, CountRises
<1>3. Opened(pages)[x] \in Nat
  BY CountNat
<1> QED BY <1>1, <1>2, <1>3

\* The lessons found are those counted, each from the page that opens it to the page before
\* the next one's.
LEMMA FoundLessons ==
    ASSUME NEW pages, Len(pages) \in Nat
    PROVE  LET o == Opened(pages)
               found == DetectLessons(pages)
               count == o[Len(pages)]
           IN /\ DOMAIN found = 1..count
              /\ \A k \in 1..count :
                    /\ found[k].index = k
                    /\ found[k].start \in 1..Len(pages)
                    /\ o[found[k].start] = k /\ o[found[k].start - 1] = k - 1
                    /\ found[k].end = IF k < count THEN found[k+1].start - 1 ELSE Len(pages)
<1>1. PICK o : o = Opened(pages)
  OBVIOUS
<1> DEFINE found == DetectLessons(pages)
           count == o[Len(pages)]
           start(k) == CHOOSE i \in 1..Len(pages) : o[i] = k /\ o[i-1] = k - 1
<1>2. count \in Nat
  BY <1>1, CountNat
<1>3. ASSUME NEW k \in 1..count
      PROVE  start(k) \in 1..Len(pages) /\ o[start(k)] = k /\ o[start(k) - 1] = k - 1
  <2>1. \E s \in 1..Len(pages) : o[s] = k /\ o[s-1] = k - 1
    BY <1>1, CountReaches
  <2> QED BY <2>1
<1>4. found = [k \in 1..count |-> [index |-> k, start |-> start(k),
                                   end |-> IF k < count THEN start(k+1) - 1 ELSE Len(pages)]]
  BY <1>1 DEF DetectLessons
<1> HIDE DEF found, start, count
<1>5. DOMAIN found = 1..count
  BY <1>4
<1>6. ASSUME NEW k \in 1..count
      PROVE  /\ found[k].index = k
             /\ found[k].start \in 1..Len(pages)
             /\ o[found[k].start] = k /\ o[found[k].start - 1] = k - 1
             /\ found[k].end = IF k < count THEN found[k+1].start - 1 ELSE Len(pages)
  <2>1. /\ found[k].index = k
        /\ found[k].start = start(k)
        /\ found[k].end = IF k < count THEN start(k+1) - 1 ELSE Len(pages)
    BY <1>4
  <2>2. k < count => k + 1 \in 1..count
    BY <1>2
  <2>3. k < count => found[k+1].start = start(k+1)
    BY <1>4, <2>2
  <2> QED BY <1>3, <2>1, <2>3
<1> QED BY <1>1, <1>5, <1>6 DEF found, count

\* So a page belongs to the lesson the count has reached there.
LEMMA FoundLessonOf ==
    ASSUME NEW pages, Len(pages) \in Nat, NEW x \in 1..Len(pages)
    PROVE  LessonOf(DetectLessons(pages), x) = Opened(pages)[x]
<1>1. PICK o : o = Opened(pages)
  OBVIOUS
<1>2. PICK found : found = DetectLessons(pages)
  OBVIOUS
<1>3. PICK count : count = o[Len(pages)]
  OBVIOUS
<1>4. count \in Nat /\ o[x] \in Nat /\ o[x] <= count
  BY <1>1, <1>3, CountNat, CountRises
<1>5. /\ DOMAIN found = 1..count
      /\ \A k \in 1..count :
            /\ found[k].index = k
            /\ found[k].start \in 1..Len(pages)
            /\ o[found[k].start] = k /\ o[found[k].start - 1] = k - 1
            /\ found[k].end = IF k < count THEN found[k+1].start - 1 ELSE Len(pages)
  BY <1>1, <1>2, <1>3, FoundLessons
<1> DEFINE here == {k \in DOMAIN found : found[k].start <= x /\ x <= found[k].end}
<1>6. ASSUME NEW k \in 1..count
      PROVE  found[k].start <= x <=> o[x] >= k
  <2>1. PICK s : s = found[k].start
    OBVIOUS
  <2>2. s \in 1..Len(pages) /\ o[s] = k /\ o[s-1] = k - 1
    BY <1>5, <2>1
  <2>3. k \in Nat \ {0} /\ x \in 0..Len(pages)
    BY <1>4
  <2> QED BY <1>1, <2>1, <2>2, <2>3, CountFrom
<1>7. ASSUME NEW k \in 1..count
      PROVE  x <= found[k].end <=> o[x] <= k
  <2>1. CASE k = count
    BY <1>4, <1>5, <2>1
  <2>2. CASE k # count
    <3>1. k < count /\ k + 1 \in 1..count
      BY <1>4, <2>2
    <3>2. found[k].end = found[k+1].start - 1 /\ found[k+1].start \in 1..Len(pages)
      BY <1>5, <3>1
    <3>3. found[k+1].start <= x <=> o[x] >= k + 1
      BY <1>6, <3>1
    <3> QED BY <1>4, <3>2, <3>3
  <2> QED BY <2>1, <2>2
<1>8. \A k \in 1..count : k \in here <=> k = o[x]
  BY <1>4, <1>5, <1>6, <1>7
<1>9. here \subseteq 1..count
  BY <1>5
<1>10. LessonOf(found, x) = IF here = {} THEN 0 ELSE found[Min(here)].index
  BY DEF LessonOf
<1> HIDE DEF here
<1>11. CASE o[x] = 0
  <2>1. here = {}
    BY <1>8, <1>9, <1>11
  <2> QED BY <1>1, <1>2, <1>10, <1>11, <2>1
<1>12. CASE o[x] # 0
  <2>1. o[x] \in 1..count
    BY <1>4, <1>12
  <2>2. here = {o[x]}
    BY <1>8, <1>9, <2>1
  <2>3. Min(here) = o[x]
    BY <1>4, <2>2 DEF Min
  <2>4. here # {}
    BY <2>2
  <2> QED BY <1>1, <1>2, <1>5, <1>10, <2>1, <2>3, <2>4
<1> QED BY <1>11, <1>12

\* A chain of openings of lessons 1, 2, ... k up to a page and a count of k there are the same:
\* no page of a chain comes too early to be counted, and the pages counted are a chain.
LEMMA ChainIsCount ==
    ASSUME NEW pages, Len(pages) \in Nat, NEW x \in 1..Len(pages), NEW k \in 1..Len(pages)
    PROVE  LET numbered == {i \in 1..x : pages[i].numbers # {}}
           IN (\E c \in [1..k -> numbered] : /\ \A j \in 1..k : Opens(pages[c[j]], j)
                                             /\ \A i, j \in 1..k : i < j => c[i] < c[j])
                  <=> Opened(pages)[x] >= k
<1> DEFINE numbered == {i \in 1..x : pages[i].numbers # {}}
           Chain(c) == /\ \A j \in 1..k : Opens(pages[c[j]], j)
                       /\ \A i, j \in 1..k : i < j => c[i] < c[j]
<1>1. PICK o : o = Opened(pages)
  OBVIOUS
<1>2. /\ o[0] = 0
      /\ \A i \in 1..Len(pages) :
            o[i] = IF Opens(pages[i], o[i-1] + 1) THEN o[i-1] + 1 ELSE o[i-1]
  BY <1>1, CountStep
<1>3. \A i \in 0..Len(pages) : o[i] \in Nat
  BY <1>1, CountNat
<1>4. \A i, j \in 0..Len(pages) : i <= j => o[i] <= o[j]
  BY <1>1, CountRises
<1>5. ASSUME NEW c \in [1..k -> numbered], Chain(c)
      PROVE  o[x] >= k
  <2> DEFINE T == {j \in 1..k : ~(o[c[j]] >= j)}
  <2>1. \A j \in 1..k : c[j] \in 1..x /\ c[j] \in 1..Len(pages) /\ c[j] - 1 \in 0..Len(pages)
    BY <1>5
  <2>2. T = {}
    <3> SUFFICES ASSUME T # {} PROVE FALSE
      OBVIOUS
    <3> T \in SUBSET Nat
      OBVIOUS
    <3>1. PICK j \in T : \A y \in T : j <= y
      BY LeastNat
    <3>2. j \in 1..k /\ j \in Nat /\ ~(o[c[j]] >= j)
      BY <3>1
    <3>3. PICK i : i = c[j]
      OBVIOUS
    <3>4. i \in 1..Len(pages) /\ i - 1 \in 0..Len(pages) /\ i \in 0..Len(pages)
      BY <2>1, <3>2, <3>3
    <3>5. o[i-1] >= j - 1
      <4>1. CASE j = 1
        BY <1>3, <3>4, <4>1
      <4>2. CASE j # 1
        <5>1. j - 1 \in 1..k /\ j - 1 \notin T
          BY <3>1, <3>2, <4>2
        <5>2. PICK h : h = c[j-1]
          OBVIOUS
        <5>3. h \in 1..Len(pages) /\ o[h] >= j - 1
          BY <2>1, <5>1, <5>2
        <5>4. h < i
          BY <1>5, <3>2, <3>3, <5>1, <5>2
        <5>5. h <= i - 1 /\ h \in 0..Len(pages)
          BY <3>4, <5>3, <5>4
        <5>6. o[h] <= o[i-1] /\ o[h] \in Nat /\ o[i-1] \in Nat
          BY <1>3, <1>4, <3>4, <5>5
        <5> QED BY <3>2, <5>3, <5>6
      <4> QED BY <4>1, <4>2
    <3>6. Opens(pages[i], j)
      BY <1>5, <3>2, <3>3
    <3>7. o[i] = IF Opens(pages[i], o[i-1] + 1) THEN o[i-1] + 1 ELSE o[i-1]
      BY <1>2, <3>4
    <3>8. o[i-1] \in Nat
      BY <1>3, <3>4
    <3>9. CASE o[i-1] = j - 1
      <4>1. o[i-1] + 1 = j
        BY <3>2, <3>9
      <4> QED BY <3>2, <3>3, <3>6, <3>7, <4>1
    <3>10. CASE o[i-1] # j - 1
      BY <3>2, <3>3, <3>5, <3>7, <3>8, <3>10
    <3> QED BY <3>9, <3>10
  <2>3. k \in 1..k
    OBVIOUS
  <2>4. PICK i : i = c[k]
    OBVIOUS
  <2>5. i \in 1..x /\ i \in 0..Len(pages) /\ x \in 0..Len(pages) /\ o[i] >= k
    <3>1. i \in 1..x /\ i \in 0..Len(pages) /\ x \in 0..Len(pages)
      BY <2>1, <2>3, <2>4
    <3>2. o[c[k]] >= k
      BY <2>2, <2>3
    <3> QED BY <2>4, <3>1, <3>2
  <2>6. o[i] <= o[x] /\ o[i] \in Nat /\ o[x] \in Nat
    BY <1>3, <1>4, <2>5
  <2> QED BY <2>5, <2>6
<1>6. ASSUME o[x] >= k
      PROVE  \E c \in [1..k -> numbered] : Chain(c)
  <2> DEFINE start(j) == CHOOSE s \in 1..x : o[s] = j /\ o[s-1] = j - 1
             c == [j \in 1..k |-> start(j)]
  <2>1. x \in 0..Len(pages) /\ o[x] \in Nat
    BY <1>3
  <2>2. ASSUME NEW j \in 1..k
        PROVE  start(j) \in 1..x /\ o[start(j)] = j /\ o[start(j) - 1] = j - 1
    <3>1. j \in 1..o[x]
      BY <1>6, <2>1
    <3>2. \E s \in 1..x : o[s] = j /\ o[s-1] = j - 1
      BY <1>1, <2>1, <3>1, CountReaches
    <3> QED BY <3>2
  <2> HIDE DEF start
  <2>3. ASSUME NEW j \in 1..k
        PROVE  start(j) \in numbered /\ Opens(pages[start(j)], j)
    <3>1. start(j) \in 1..Len(pages)
      BY <2>2
    <3>2. PICK s : s = start(j)
      OBVIOUS
    <3>3. o[s] = j /\ o[s-1] = j - 1 /\ s \in 1..Len(pages)
      BY <2>2, <3>1, <3>2
    <3>4. o[s] = IF Opens(pages[s], o[s-1] + 1) THEN o[s-1] + 1 ELSE o[s-1]
      BY <1>2, <3>3
    <3>5. o[s-1] + 1 = j /\ j # j - 1
      BY <3>3
    <3>6. Opens(pages[s], j)
      BY <3>3, <3>4, <3>5
    <3>7. pages[s].numbers # {}
      BY <3>6 DEF Opens
    <3> QED BY <2>2, <3>2, <3>6, <3>7
  <2>4. ASSUME NEW i \in 1..k, NEW j \in 1..k, i < j
        PROVE  start(i) < start(j)
    <3>1. start(i) \in 0..Len(pages) /\ start(j) \in 0..Len(pages)
      BY <2>2
    <3>2. start(j) <= start(i) => o[start(j)] <= o[start(i)]
      BY <1>4, <3>1
    <3>3. o[start(i)] = i /\ o[start(j)] = j
      BY <2>2
    <3> QED BY <2>4, <3>1, <3>2, <3>3
  <2>5. c \in [1..k -> numbered]
    BY <2>3
  <2>6. Chain(c)
    BY <2>3, <2>4
  <2> QED BY <2>5, <2>6
<1> QED BY <1>1, <1>5, <1>6

\* Whatever is on the pages of a book, detection finds the longest chain of lessons and places
\* every page in it (detect_lessons(), build_course()).
THEOREM DetectionFindsTheChain == Spec => []DetectionIsChain
<1>1. TypeOK => DetectionIsChain
  <2> SUFFICES ASSUME TypeOK PROVE DetectionIsChain
    OBVIOUS
  <2>1. Len(book) \in Nat
    BY BookAssumption DEF TypeOK
  <2>2. ASSUME NEW x \in 1..Len(book)
        PROVE  BuildCourse(book, DetectLessons(book)).lesson[x] = Opened(book)[x]
    BY <2>1, FoundLessonOf DEF BuildCourse
  <2>3. ASSUME NEW x \in 1..Len(book), NEW k \in 1..Len(book)
        PROVE  (\E c \in [1..k -> {i \in 1..x : book[i].numbers # {}}] :
                    /\ \A j \in 1..k : Opens(book[c[j]], j)
                    /\ \A i, j \in 1..k : i < j => c[i] < c[j])
                  <=> BuildCourse(book, DetectLessons(book)).lesson[x] >= k
    BY <2>1, <2>2, ChainIsCount
  <2> QED BY <2>3 DEF DetectionIsChain
<1> QED BY <1>1, TypeCorrect, PTL

\* With a plan or without one, however many pages and lessons the book has, its course is what the
\* plan or the longest chain says (build_course()).
THEOREM CourseIsOfTheBook == Spec => []CourseFollowsBook
<1>1. PagesPlaced /\ DetectionIsChain => CourseFollowsBook
  BY DEF CourseFollowsBook
<1> QED BY <1>1, PagesWhereTheyBelong, DetectionFindsTheChain, PTL

-----------------------------------------------------------------------------
(* The suggested plan.                                                     *)

LEMMA GreatestOf ==
    ASSUME NEW T \in SUBSET Int, T # {}, NEW high \in Int, \A y \in T : y <= high
    PROVE  Max(T) \in T /\ \A y \in T : y <= Max(T)
<1> DEFINE U == {high - y : y \in T}
<1>1. U \in SUBSET Nat /\ U # {}
  <2>1. \A y \in T : high - y \in Nat
    OBVIOUS
  <2>2. PICK y \in T : TRUE
    OBVIOUS
  <2>3. high - y \in U
    OBVIOUS
  <2> QED BY <2>1, <2>3
<1>2. PICK u \in U : \A v \in U : u <= v
  BY <1>1, LeastNat
<1>3. PICK x \in T : u = high - x
  BY <1>2
<1>4. ASSUME NEW y \in T PROVE x >= y
  <2>1. high - y \in U
    OBVIOUS
  <2>2. high - x <= high - y /\ x \in Int /\ y \in Int
    BY <1>2, <1>3, <2>1
  <2> QED BY <2>2
<1>5. \E m \in T : \A y \in T : m >= y
  BY <1>4
<1>6. Max(T) \in T /\ \A y \in T : Max(T) >= y
  BY <1>5 DEF Max
<1> QED BY <1>6

LEMMA LeastOf ==
    ASSUME NEW T \in SUBSET Int, T # {}, NEW low \in Int, \A y \in T : low <= y
    PROVE  Min(T) \in T /\ \A y \in T : Min(T) <= y
<1> DEFINE U == {y - low : y \in T}
<1>1. U \in SUBSET Nat /\ U # {}
  <2>1. \A y \in T : y - low \in Nat
    OBVIOUS
  <2>2. PICK y \in T : TRUE
    OBVIOUS
  <2>3. y - low \in U
    OBVIOUS
  <2> QED BY <2>1, <2>3
<1>2. PICK u \in U : \A v \in U : u <= v
  BY <1>1, LeastNat
<1>3. PICK x \in T : u = x - low
  BY <1>2
<1>4. ASSUME NEW y \in T PROVE x <= y
  <2>1. y - low \in U
    OBVIOUS
  <2>2. x - low <= y - low /\ x \in Int /\ y \in Int
    BY <1>2, <1>3, <2>1
  <2> QED BY <2>2
<1>5. \E m \in T : \A y \in T : m <= y
  BY <1>4
<1> QED BY <1>5 DEF Min

LEMMA OneGreatest == ASSUME NEW T \in SUBSET Int, NEW x \in T, \A y \in T : y <= x PROVE Max(T) = x
<1>1. PICK m : m = Max(T)
  OBVIOUS
<1>2. m \in T /\ x <= m
  BY <1>1, GreatestOf
<1>3. m \in Int /\ x \in Int /\ x <= m /\ m <= x
  BY <1>2
<1> QED BY <1>1, <1>3

LEMMA OneLeast == ASSUME NEW T \in SUBSET Int, NEW x \in T, \A y \in T : x <= y PROVE Min(T) = x
<1>1. PICK m : m = Min(T)
  OBVIOUS
<1>2. m \in T /\ m <= x
  BY <1>1, LeastOf
<1>3. m \in Int /\ x \in Int /\ x <= m /\ m <= x
  BY <1>2
<1> QED BY <1>1, <1>3

LEMMA Division ==
    ASSUME NEW x \in Int, NEW b \in Nat \ {0}
    PROVE  /\ x \div b \in Int /\ x % b \in 0..(b-1)
           /\ x = b * (x \div b) + (x % b)
           /\ (b * x) % b = 0 /\ (b * x) \div b = x
OBVIOUS

LEMMA Multiples ==
    ASSUME NEW x \in Int, NEW y \in Int, NEW b \in Nat \ {0}
    PROVE  /\ x < y => b * x + b <= b * y
           /\ b * (x + y) = b * x + b * y
OBVIOUS

\* round() is at most a half away, and exact on whole numbers.
LEMMA RoundFacts ==
    ASSUME NEW a \in Int, NEW b \in Nat \ {0}
    PROVE  /\ Round(a, b) \in Int
           /\ 2 * a - b <= 2 * (b * Round(a, b))
           /\ 2 * (b * Round(a, b)) <= 2 * a + b
           /\ Round(b * a, b) = a
<1>1. PICK q : q = a \div b
  OBVIOUS
<1>2. PICK r : r = a % b
  OBVIOUS
<1>3. q \in Int /\ r \in 0..(b-1) /\ a = b * q + r
  BY <1>1, <1>2, Division
<1>4. PICK s : s = b * q
  OBVIOUS
<1>5. s \in Int /\ a = s + r /\ b * (q + 1) = s + b
  <2>1. s \in Int
    BY <1>3, <1>4
  <2>2. b * (q + 1) = b * q + b * 1
    BY <1>3, Multiples
  <2> QED BY <1>3, <1>4, <2>1, <2>2
<1>6. Round(a, b) = IF 2*r > b \/ (2*r = b /\ q % 2 = 1) THEN q + 1 ELSE q
  BY <1>1, <1>2 DEF Round
<1>7. Round(b * a, b) = a
  <2>1. (b * a) % b = 0 /\ (b * a) \div b = a
    BY Division
  <2> QED BY <2>1 DEF Round
<1>8. CASE 2*r > b \/ (2*r = b /\ q % 2 = 1)
  <2>1. Round(a, b) = q + 1 /\ b * Round(a, b) = s + b
    BY <1>5, <1>6, <1>8
  <2>2. 2*r >= b /\ r < b /\ r \in Int
    BY <1>3, <1>8
  <2>3. 2 * a - b <= 2 * (s + b) /\ 2 * (s + b) <= 2 * a + b
    BY <1>5, <2>2
  <2> QED BY <1>3, <1>7, <2>1, <2>3
<1>9. CASE ~(2*r > b \/ (2*r = b /\ q % 2 = 1))
  <2>1. Round(a, b) = q /\ b * Round(a, b) = s
    BY <1>4, <1>6, <1>9
  <2>2. 2*r <= b /\ 0 <= r /\ r \in Int
    BY <1>3, <1>9
  <2>3. 2 * a - b <= 2 * s /\ 2 * s <= 2 * a + b
    BY <1>5, <2>2
  <2> QED BY <1>3, <1>7, <2>1, <2>3
<1> QED BY <1>8, <1>9

\* One step along an interpolation that rises by at least one per lesson rises by at least one:
\* the difference d of the numerators is at least the denominator w, and if it is just w the
\* values are whole.
LEMMA RoundRises ==
    ASSUME NEW w \in Nat \ {0}, NEW d \in Int, w <= d, NEW c \in Int, NEW t \in Nat
    PROVE  Round(w * c + d * t, w) < Round(w * c + d * (t + 1), w)
<1>1. PICK a : a = w * c + d * t
  OBVIOUS
<1>2. a \in Int /\ w * c + d * (t + 1) = a + d
  BY <1>1
<1>3. CASE d = w
  <2>1. a = w * (c + t) /\ a + d = w * (c + t + 1)
    BY <1>1, <1>2, <1>3
  <2>2. c + t \in Int /\ c + t + 1 \in Int
    OBVIOUS
  <2>3. Round(w * (c + t), w) = c + t /\ Round(w * (c + t + 1), w) = c + t + 1
    BY <2>2, RoundFacts
  <2>4. c + t < c + t + 1
    BY <2>2
  <2> QED BY <1>1, <1>2, <2>1, <2>3, <2>4
<1>4. CASE d # w
  <2>1. PICK x : x = Round(a, w)
    OBVIOUS
  <2>2. PICK y : y = Round(a + d, w)
    OBVIOUS
  <2>3. /\ x \in Int /\ y \in Int
        /\ 2 * (w * x) <= 2 * a + w
        /\ 2 * (a + d) - w <= 2 * (w * y)
    BY <1>2, <2>1, <2>2, RoundFacts
  <2>4. w * x \in Int /\ w * y \in Int /\ w * x < w * y
    <3>1. PICK m : m = w * x
      OBVIOUS
    <3>2. PICK n : n = w * y
      OBVIOUS
    <3>3. m \in Int /\ n \in Int /\ d > w
      BY <1>4, <2>3, <3>1, <3>2
    <3>4. 2 * m <= 2 * a + w /\ 2 * (a + d) - w <= 2 * n
      BY <2>3, <3>1, <3>2
    <3>5. m < n
      BY <1>2, <3>3, <3>4
    <3> QED BY <3>1, <3>2, <3>3, <3>5
  <2>5. ~(y < x) /\ x # y
    BY <2>3, <2>4, Multiples
  <2> QED BY <1>1, <1>2, <2>1, <2>2, <2>3, <2>5
<1> QED BY <1>3, <1>4

\* A garbled lesson and the readable one that ends its gap are on one line.
LEMMA StartInGap ==
    ASSUME NEW f, DOMAIN f \subseteq Int, \A m \in DOMAIN f : f[m] \in Int,
           NEW b \in DOMAIN f, NEW a \in DOMAIN f, b < a,
           \A m \in DOMAIN f : m <= b \/ a <= m,
           NEW n \in b..a
    PROVE  StartOf(f, n) = Round((a - b) * f[b] + (f[a] - f[b]) * (n - b), a - b)
<1>1. PICK w : w = a - b
  OBVIOUS
<1>2. PICK d : d = f[a] - f[b]
  OBVIOUS
<1>3. PICK low : low = f[b]
  OBVIOUS
<1>4. w \in Nat \ {0} /\ d \in Int /\ low \in Int /\ f[a] = low + d /\ a \in Int /\ b \in Int /\ n \in Int
  BY <1>1, <1>2, <1>3
<1>5. CASE n \in DOMAIN f
  <2>1. n = b \/ n = a
    BY <1>5
  <2>2. StartOf(f, n) = f[n]
    BY <1>5 DEF StartOf
  <2>3. CASE n = b
    <3>1. w * low + d * (n - b) = w * low
      BY <1>4, <2>3
    <3>2. Round(w * low, w) = low
      BY <1>4, RoundFacts
    <3> QED BY <1>1, <1>2, <1>3, <2>2, <2>3, <3>1, <3>2
  <2>4. CASE n = a
    <3>1. w * low + d * (n - b) = w * (low + d)
      BY <1>1, <1>4, <2>4
    <3>2. low + d \in Int
      BY <1>4
    <3>3. Round(w * (low + d), w) = low + d
      BY <1>4, <3>2, RoundFacts
    <3> QED BY <1>1, <1>2, <1>3, <1>4, <2>2, <2>4, <3>1, <3>3
  <2> QED BY <2>1, <2>3, <2>4
<1>6. CASE n \notin DOMAIN f
  <2>1. b < n /\ n < a
    BY <1>4, <1>6
  <2> DEFINE B == {m \in DOMAIN f : m < n}
             A == {m \in DOMAIN f : m > n}
  <2>2. B \in SUBSET Int /\ b \in B /\ \A m \in B : m <= b
    BY <1>4, <2>1
  <2>3. A \in SUBSET Int /\ a \in A /\ \A m \in A : a <= m
    BY <1>4, <2>1
  <2> HIDE DEF A, B
  <2>4. Max(B) = b
    BY <2>2, OneGreatest
  <2>5. Min(A) = a
    BY <2>3, OneLeast
  <2>6. StartOf(f, n) = Round(f[b] * (a - b) + (f[a] - f[b]) * (n - b), a - b)
    BY <1>6, <2>4, <2>5 DEF StartOf, A, B
  <2>7. low * w = w * low
    BY <1>4
  <2> QED BY <1>1, <1>3, <2>6, <2>7
<1> QED BY <1>5, <1>6

\* What a contents page must be like: it lists lessons of this book, in order, with a page for each.
Roomy(f, low, high) ==
    /\ DOMAIN f \subseteq low..high /\ low \in DOMAIN f /\ high \in DOMAIN f
    /\ \A m \in DOMAIN f : f[m] \in Int
    /\ \A m, n \in DOMAIN f : m < n => f[n] - f[m] >= n - m

\* Each lesson is in a gap, or at the beginning of one.
LEMMA GapOf ==
    ASSUME NEW low \in Int, NEW high \in Int, NEW f, Roomy(f, low, high), NEW n \in low..(high-1)
    PROVE  \E b, a \in DOMAIN f : b <= n /\ n < a /\ \A m \in DOMAIN f : m <= b \/ a <= m
<1> DEFINE B == {m \in DOMAIN f : m <= n}
           A == {m \in DOMAIN f : m > n}
<1>1. B \in SUBSET Int /\ low \in B /\ n \in Int /\ \A y \in B : y <= n
  BY DEF Roomy
<1>2. A \in SUBSET Int /\ high \in A /\ \A y \in A : n <= y
  BY DEF Roomy
<1> HIDE DEF A, B
<1>3. PICK b : b \in B /\ \A y \in B : y <= b
  BY <1>1, GreatestOf
<1>4. PICK a : a \in A /\ \A y \in A : a <= y
  BY <1>1, <1>2, LeastOf
<1>5. b \in DOMAIN f /\ a \in DOMAIN f /\ b <= n /\ n < a
  BY <1>1, <1>3, <1>4 DEF A, B
<1>6. ASSUME NEW m \in DOMAIN f PROVE m <= b \/ a <= m
  <2>1. m \in Int
    BY DEF Roomy
  <2>2. m \in B \/ m \in A
    BY <1>1, <2>1 DEF A, B
  <2> QED BY <1>3, <1>4, <2>2
<1> QED BY <1>5, <1>6

\* The suggested starts rise, between those of the first and the last readable lesson.
LEMMA StartsRise ==
    ASSUME NEW low \in Int, NEW high \in Int, NEW f, Roomy(f, low, high), NEW n \in low..(high-1)
    PROVE  /\ StartOf(f, n) \in Int /\ StartOf(f, n + 1) \in Int
           /\ StartOf(f, n) < StartOf(f, n + 1)
<1>1. PICK b \in DOMAIN f, a \in DOMAIN f : b <= n /\ n < a /\ \A m \in DOMAIN f : m <= b \/ a <= m
  BY GapOf
<1>2. /\ DOMAIN f \subseteq Int /\ \A m \in DOMAIN f : f[m] \in Int
      /\ f[a] - f[b] >= a - b
      /\ a \in Int /\ b \in Int /\ n \in Int /\ b < a
  <2>1. DOMAIN f \subseteq Int /\ \A m \in DOMAIN f : f[m] \in Int
    BY DEF Roomy
  <2>2. a \in Int /\ b \in Int /\ n \in Int /\ b < a
    BY <1>1, <2>1
  <2> QED BY <2>1, <2>2 DEF Roomy
<1>3. PICK w : w = a - b
  OBVIOUS
<1>4. PICK d : d = f[a] - f[b]
  OBVIOUS
<1>5. PICK c : c = f[b]
  OBVIOUS
<1>6. PICK t : t = n - b
  OBVIOUS
<1>7. w \in Nat \ {0} /\ d \in Int /\ w <= d /\ c \in Int /\ t \in Nat /\ n + 1 - b = t + 1
  BY <1>1, <1>2, <1>3, <1>4, <1>5, <1>6
<1>8. n \in b..a /\ n + 1 \in b..a
  BY <1>1, <1>2
<1>9. StartOf(f, n) = Round(w * c + d * t, w)
  BY <1>1, <1>2, <1>3, <1>4, <1>5, <1>6, <1>8, StartInGap
<1>10. StartOf(f, n + 1) = Round(w * c + d * (t + 1), w)
  BY <1>1, <1>2, <1>3, <1>4, <1>5, <1>7, <1>8, StartInGap
<1>11. w * c + d * t \in Int /\ w * c + d * (t + 1) \in Int
  BY <1>7
<1>12. Round(w * c + d * t, w) \in Int /\ Round(w * c + d * (t + 1), w) \in Int
  BY <1>7, <1>11, RoundFacts
<1> QED BY <1>7, <1>9, <1>10, <1>12, RoundRises

LEMMA StartsBetween ==
    ASSUME NEW low \in Int, NEW high \in Int, NEW f, Roomy(f, low, high),
           NEW n \in low..high
    PROVE  /\ StartOf(f, n) \in Int
           /\ f[low] <= StartOf(f, n) /\ StartOf(f, n) <= f[high]
<1>1. \A m \in low..(high-1) : StartOf(f, m) \in Int /\ StartOf(f, m+1) \in Int /\ StartOf(f, m) < StartOf(f, m+1)
  BY StartsRise
<1>2. low \in DOMAIN f /\ high \in DOMAIN f /\ f[low] \in Int /\ f[high] \in Int /\ low <= high
  BY DEF Roomy
<1>3. StartOf(f, low) = f[low] /\ StartOf(f, high) = f[high]
  BY <1>2 DEF StartOf
<1>4. \A m \in low..high : StartOf(f, m) \in Int
  <2> TAKE m \in low..high
  <2>1. CASE m = high
    BY <1>2, <1>3, <2>1
  <2>2. CASE m # high
    BY <1>1, <2>2
  <2> QED BY <2>1, <2>2
<1>5. \A m \in low..high : f[low] <= StartOf(f, m)
  <2> DEFINE T == {k \in Nat : low + k <= high /\ StartOf(f, low + k) < f[low]}
  <2>1. T = {}
    <3> SUFFICES ASSUME T # {} PROVE FALSE
      OBVIOUS
    <3> T \in SUBSET Nat
      OBVIOUS
    <3>1. PICK k \in T : \A y \in T : k <= y
      BY LeastNat
    <3>2. k # 0
      BY <1>2, <1>3, <3>1
    <3>3. k - 1 \in Nat /\ k - 1 \notin T /\ k \in Nat
      BY <3>1, <3>2
    <3>4. low + k - 1 \in low..(high-1) /\ low + (k - 1) = low + k - 1 /\ low + k - 1 + 1 = low + k
      BY <3>1, <3>3
    <3>5. StartOf(f, low + k - 1) \in Int /\ StartOf(f, low + k) \in Int /\ StartOf(f, low + k - 1) < StartOf(f, low + k)
      BY <1>1, <3>4
    <3>6. ~(StartOf(f, low + k - 1) < f[low])
      BY <3>3, <3>4
    <3> QED BY <1>2, <3>1, <3>5, <3>6
  <2> TAKE m \in low..high
  <2>2. m - low \in Nat /\ low + (m - low) = m
    OBVIOUS
  <2>3. m - low \notin T
    BY <2>1
  <2> QED BY <1>2, <1>4, <2>2, <2>3
<1>6. \A m \in low..high : StartOf(f, m) <= f[high]
  <2> DEFINE T == {k \in Nat : low <= high - k /\ StartOf(f, high - k) > f[high]}
  <2>1. T = {}
    <3> SUFFICES ASSUME T # {} PROVE FALSE
      OBVIOUS
    <3> T \in SUBSET Nat
      OBVIOUS
    <3>1. PICK k \in T : \A y \in T : k <= y
      BY LeastNat
    <3>2. k # 0
      BY <1>2, <1>3, <3>1
    <3>3. k - 1 \in Nat /\ k - 1 \notin T /\ k \in Nat
      BY <3>1, <3>2
    <3>4. high - k \in low..(high-1) /\ high - (k - 1) = high - k + 1
      BY <3>1, <3>3
    <3>5. StartOf(f, high - k) \in Int /\ StartOf(f, high - k + 1) \in Int /\ StartOf(f, high - k) < StartOf(f, high - k + 1)
      BY <1>1, <3>4
    <3>6. ~(StartOf(f, high - k + 1) > f[high])
      BY <3>3, <3>4
    <3> QED BY <1>2, <3>1, <3>5, <3>6
  <2> TAKE m \in low..high
  <2>2. high - m \in Nat /\ high - (high - m) = m
    OBVIOUS
  <2>3. high - m \notin T
    BY <2>1
  <2> QED BY <1>2, <1>4, <2>2, <2>3
<1> QED BY <1>4, <1>5, <1>6

\* The middle one of some lengths exists: the least of them that more than half do not exceed.
LEMMA TypicalLength ==
    ASSUME NEW l \in Seq(Nat), NEW top \in Int, \A k \in DOMAIN l : l[k] <= top
    PROVE  Typical(l) \in Int
<1> DEFINE half == Len(l) \div 2
           below(n) == {k \in DOMAIN l : l[k] <= n}
           upTo(n) == Cardinality(below(n))
           T == {n \in Range(l) : half < upTo(n)}
<1>1. CASE l = <<>>
  BY <1>1 DEF Typical
<1>2. CASE l # <<>>
  <2>1. /\ Len(l) \in Nat \ {0} /\ DOMAIN l = 1..Len(l)
        /\ \A k \in DOMAIN l : l[k] \in Nat
    BY <1>2
  <2>2. half \in Nat /\ half < Len(l)
    BY <2>1
  <2>3. Range(l) \in SUBSET Nat /\ \A n \in Range(l) : n <= top
    BY <2>1 DEF Range
  <2>4. Cardinality(DOMAIN l) = Len(l) /\ IsFiniteSet(DOMAIN l)
    BY <2>1, FS_Interval
  <2>5. T # {}
    <3>1. Range(l) # {} /\ Range(l) \in SUBSET Int
      BY <2>1, <2>3 DEF Range
    <3>2. PICK g : g \in Range(l) /\ \A n \in Range(l) : n <= g
      BY <2>3, <3>1, GreatestOf
    <3>3. below(g) = DOMAIN l
      BY <3>2 DEF Range
    <3>4. half < upTo(g)
      BY <2>2, <2>4, <3>3
    <3> QED BY <3>2, <3>4
  <2>6. T \in SUBSET Nat
    BY <2>3
  <2>7. PICK n \in T : \A y \in T : n <= y
    BY <2>5, <2>6, LeastNat
  <2>8. n \in Range(l) /\ n \in Nat /\ half < upTo(n)
    BY <2>6, <2>7
  <2>9. upTo(n - 1) <= half
    <3> SUFFICES ASSUME ~(upTo(n - 1) <= half) PROVE FALSE
      OBVIOUS
    <3> DEFINE R == {l[k] : k \in below(n - 1)}
    <3>1. IsFiniteSet(below(n - 1)) /\ upTo(n - 1) \in Nat
      <4>1. IsFiniteSet(below(n - 1))
        BY <2>4, FS_Subset
      <4> QED BY <4>1, FS_CardinalityType
    <3>2. half < upTo(n - 1)
      BY <2>2, <3>1
    <3>3. below(n - 1) # {}
      <4>1. PICK c : c = upTo(n - 1)
        OBVIOUS
      <4>2. c # 0
        BY <2>2, <3>1, <3>2, <4>1
      <4> HIDE DEF below
      <4> QED BY <4>1, <4>2, FS_EmptySet
    <3>4. R # {} /\ R \in SUBSET Int /\ (\A y \in R : y <= n - 1) /\ n - 1 \in Int
      <4>1. \A k \in below(n - 1) : l[k] \in Int /\ l[k] <= n - 1
        BY <2>1
      <4> HIDE DEF below
      <4>2. R # {}
        BY <3>3
      <4> QED BY <2>8, <4>1, <4>2
    <3>5. PICK y : y \in R /\ \A z \in R : z <= y
      BY <3>4, GreatestOf
    <3>6. y \in Range(l) /\ y \in Int /\ y <= n - 1
      BY <3>4, <3>5 DEF Range
    <3>7. ASSUME NEW k \in DOMAIN l PROVE l[k] <= y <=> l[k] <= n - 1
      <4>1. l[k] \in Int
        BY <2>1
      <4>2. l[k] <= n - 1 => l[k] \in R
        OBVIOUS
      <4> QED BY <2>8, <3>5, <3>6, <4>1, <4>2
    <3>8. below(y) = below(n - 1)
      BY <3>7
    <3>9. y \in T
      BY <3>2, <3>6, <3>8
    <3> QED BY <2>7, <2>8, <3>6, <3>9
  <2>10. \E m \in Range(l) : upTo(m - 1) <= half /\ half < upTo(m)
    BY <2>8, <2>9
  <2>11. Typical(l) = CHOOSE m \in Range(l) : upTo(m - 1) <= half /\ half < upTo(m)
    BY <1>2 DEF Typical
  <2> HIDE DEF upTo, half
  <2>12. Typical(l) \in Range(l)
    BY <2>10, <2>11
  <2> QED BY <2>3, <2>12
<1> QED BY <1>1, <1>2

\* Numbers that validate_plan() takes.
LEMMA OffsetLimits == 0 \in Offsets /\ \A x \in -5..30 : x \in Offsets
BY DEF Offsets

LEMMA IndexLimits ==
    /\ \A i \in Indexes : i \in Nat /\ 1 <= i /\ i <= 1000
    /\ \A i, j \in Indexes, n \in Int : i <= n /\ n <= j => n \in Indexes
<1>1. \A i \in Indexes : i \in Nat /\ 1 <= i /\ i <= 1000
  BY DEF Indexes
<1>2. \A i, j \in Indexes, n \in Int : i <= n /\ n <= j => n \in Indexes
  BY DEF Indexes
<1> QED BY <1>1, <1>2

LEMMA LengthLimits ==
    /\ MaxPlanLessons \in Int
    /\ \A k \in Int : 1 <= k /\ k <= MaxPlanLessons => k \in 1..MaxPlanLessons
BY DEF MaxPlanLessons

LEMMA TwoNumbers ==
    ASSUME NEW x \in Int, NEW y \in Int
    PROVE  /\ Min({x, y}) \in {x, y} /\ Min({x, y}) <= x /\ Min({x, y}) <= y
           /\ Max({x, y}) \in {x, y} /\ x <= Max({x, y}) /\ y <= Max({x, y})
<1>1. CASE x <= y
  <2>1. Min({x, y}) = x
    BY <1>1, OneLeast
  <2>2. Max({x, y}) = y
    BY <1>1, OneGreatest
  <2> QED BY <1>1, <2>1, <2>2
<1>2. CASE ~(x <= y)
  <2>1. Min({x, y}) = y
    BY <1>2, OneLeast
  <2>2. Max({x, y}) = x
    BY <1>2, OneGreatest
  <2> QED BY <1>2, <2>1, <2>2
<1> QED BY <1>1, <1>2

LEMMA OffsetGuessed ==
    ASSUME NEW pages, Len(pages) \in Nat, NEW f
    PROVE  GuessOffset(pages, f) \in Offsets
<1> DEFINE first == Min(DOMAIN f)
           hits == {i \in 1..Len(pages) : /\ i > Min(ContentsPages(pages))
                                          /\ i - f[first] \in -5..30
                                          /\ first \in pages[i].titles}
<1>1. GuessOffset(pages, f) = IF f = <<>> THEN 0
                              ELSE IF hits = {} THEN 0 ELSE Min(hits) - f[first]
  BY DEF GuessOffset
<1>2. CASE hits = {}
  <2> HIDE DEF hits, first
  <2> QED BY <1>1, <1>2, OffsetLimits
<1>3. CASE hits # {}
  <2>1. hits \in SUBSET Int /\ \A i \in hits : 1 <= i
    OBVIOUS
  <2>2. Min(hits) \in hits
    <3> HIDE DEF hits
    <3> QED BY <1>3, <2>1, LeastOf
  <2>3. PICK h \in hits : h = Min(hits)
    BY <2>2
  <2>4. h - f[first] \in -5..30
    OBVIOUS
  <2> HIDE DEF hits, first
  <2>5. h - f[first] \in Offsets
    BY <2>4, OffsetLimits
  <2> QED BY <1>1, <1>3, <2>3, <2>5, OffsetLimits
<1> QED BY <1>2, <1>3

\* The starts of the suggestion, the typical length and the rows made of them.
Suggested(pages, f, starts, typical) ==
    /\ starts = [k \in 1..(Max(DOMAIN f) - Min(DOMAIN f) + 1) |-> StartOf(f, Min(DOMAIN f) + k - 1)]
    /\ typical = Typical([k \in 1..(Len(starts) - 1) |-> starts[k+1] - starts[k]])
    /\ LET next(k) == IF k < Len(starts) THEN starts[k+1] - 1 ELSE starts[k] + typical - 1
       IN SuggestPlan(pages) =
             [offset |-> GuessOffset(pages, f),
              lessons |-> [k \in DOMAIN starts |->
                              [index |-> Min(DOMAIN f) + k - 1,
                               start |-> starts[k],
                               end |-> Max({starts[k], Min({next(k), Len(pages) - GuessOffset(pages, f)})})]]]

LEMMA SuggestedRows ==
    ASSUME NEW pages, TocEntries(pages) # <<>>
    PROVE  \E starts, typical : Suggested(pages, TocEntries(pages), starts, typical)
<1> DEFINE f == TocEntries(pages)
           starts == IF f = <<>> THEN <<>>
                     ELSE [k \in 1..(Max(DOMAIN f) - Min(DOMAIN f) + 1) |-> StartOf(f, Min(DOMAIN f) + k - 1)]
           typical == Typical([k \in 1..(Len(starts) - 1) |-> starts[k+1] - starts[k]])
           next(k) == IF k < Len(starts) THEN starts[k+1] - 1 ELSE starts[k] + typical - 1
           rows == [k \in DOMAIN starts |->
                       [index |-> Min(DOMAIN f) + k - 1,
                        start |-> starts[k],
                        end |-> Max({starts[k], Min({next(k), Len(pages) - GuessOffset(pages, f)})})]]
<1>1. SuggestPlan(pages) = [offset |-> GuessOffset(pages, f), lessons |-> rows]
  BY Zenon DEF SuggestPlan
<1>2. starts = [k \in 1..(Max(DOMAIN f) - Min(DOMAIN f) + 1) |-> StartOf(f, Min(DOMAIN f) + k - 1)]
  BY Zenon
<1> HIDE DEF starts
<1>3. Suggested(pages, f, starts, typical)
  BY <1>1, <1>2, Zenon DEF Suggested
<1> HIDE DEF f, typical
<1> QED BY <1>3, Zenon DEF f

\* A suggestion from roomy contents passes validate_plan().
LEMMA SuggestionIsValid ==
    ASSUME NEW pages, Len(pages) \in Nat, NEW f, f = TocEntries(pages),
           DOMAIN f # {}, DOMAIN f \subseteq Indexes,
           Max(DOMAIN f) - Min(DOMAIN f) < MaxPlanLessons,
           \A n, m \in DOMAIN f : n < m => f[m] - f[n] >= m - n,
           \A n \in DOMAIN f : f[n] \in (1 - SuggestPlan(pages).offset)..(Len(pages) - SuggestPlan(pages).offset)
    PROVE  ValidPlan(SuggestPlan(pages), Len(pages))
<1> DEFINE plan_ == SuggestPlan(pages)
           rows == plan_.lessons
<1>1. PICK offset : offset = GuessOffset(pages, f)
  OBVIOUS
<1>2. PICK low : low = Min(DOMAIN f)
  OBVIOUS
<1>3. PICK high : high = Max(DOMAIN f)
  OBVIOUS
<1>4. offset \in Offsets /\ offset \in Int /\ plan_.offset = offset
  <2>1. plan_.offset = GuessOffset(pages, f)
    BY DEF SuggestPlan
  <2> HIDE DEF plan_
  <2> QED BY <1>1, <2>1, OffsetGuessed, OffsetFact
<1>5. /\ low \in DOMAIN f /\ high \in DOMAIN f /\ low \in Indexes /\ high \in Indexes
      /\ low \in Int /\ high \in Int /\ low <= high
      /\ \A m \in DOMAIN f : m \in Int /\ low <= m /\ m <= high
  <2>1. \A m \in DOMAIN f : m \in Nat /\ 1 <= m /\ m <= 1000
    BY IndexLimits
  <2>2. DOMAIN f \in SUBSET Int
    BY <2>1
  <2>3. low \in DOMAIN f /\ \A m \in DOMAIN f : low <= m
    BY <1>2, <2>1, <2>2, LeastOf
  <2>4. high \in DOMAIN f /\ \A m \in DOMAIN f : m <= high
    <3>1. PICK b \in Int : \A m \in DOMAIN f : m <= b
      BY <2>1
    <3>2. PICK K : K = DOMAIN f
      OBVIOUS
    <3> QED BY <1>3, <2>2, <3>1, <3>2, GreatestOf
  <2> QED BY <2>1, <2>3, <2>4
<1>6. PICK last : last = Len(pages) - offset
  OBVIOUS
<1>7. last \in Int /\ \A m \in DOMAIN f : f[m] \in Int /\ 1 - offset <= f[m] /\ f[m] <= last
  <2>1. \A m \in DOMAIN f : f[m] \in (1 - offset)..(Len(pages) - offset)
    BY <1>4
  <2> QED BY <1>4, <1>6, <2>1
<1>8. Roomy(f, low, high)
  BY <1>5, <1>7 DEF Roomy
<1>9. PICK count : count = high - low + 1
  OBVIOUS
<1>10. count \in Nat \ {0} /\ count \in 1..MaxPlanLessons
  <2>1. count \in Int /\ 1 <= count /\ count <= MaxPlanLessons
    BY <1>2, <1>3, <1>5, <1>9, LengthLimits
  <2> QED BY <2>1, LengthLimits
<1>11. PICK starts, typical : Suggested(pages, f, starts, typical)
  <2>1. TocEntries(pages) # <<>>
    OBVIOUS
  <2> QED BY <2>1, SuggestedRows
<1>12. /\ starts = [k \in 1..count |-> StartOf(f, low + k - 1)]
       /\ typical = Typical([k \in 1..(Len(starts) - 1) |-> starts[k+1] - starts[k]])
       /\ DOMAIN rows = DOMAIN starts
       /\ rows = [k \in DOMAIN starts |-> rows[k]]
       /\ \A k \in DOMAIN starts :
             rows[k] = [index |-> low + k - 1,
                        start |-> starts[k],
                        end |-> Max({starts[k], Min({IF k < Len(starts) THEN starts[k+1] - 1
                                                     ELSE starts[k] + typical - 1, last})})]
  <2> DEFINE next(k) == IF k < Len(starts) THEN starts[k+1] - 1 ELSE starts[k] + typical - 1
             given == [k \in DOMAIN starts |->
                         [index |-> Min(DOMAIN f) + k - 1,
                          start |-> starts[k],
                          end |-> Max({starts[k], Min({next(k), Len(pages) - GuessOffset(pages, f)})})]]
  <2>1. starts = [k \in 1..(Max(DOMAIN f) - Min(DOMAIN f) + 1) |-> StartOf(f, Min(DOMAIN f) + k - 1)]
    BY <1>11, Zenon DEF Suggested
  <2>2. starts = [k \in 1..count |-> StartOf(f, low + k - 1)]
    BY <1>2, <1>3, <1>9, <2>1
  <2>3. typical = Typical([k \in 1..(Len(starts) - 1) |-> starts[k+1] - starts[k]])
    BY <1>11, Zenon DEF Suggested
  <2>4. plan_ = [offset |-> GuessOffset(pages, f), lessons |-> given]
    BY <1>11, Zenon DEF Suggested
  <2> HIDE DEF plan_, given
  <2>5. rows = given
    BY <2>4
  <2>6. DOMAIN given = DOMAIN starts /\ given = [k \in DOMAIN starts |-> given[k]]
    BY DEF given
  <2>7. \A k \in DOMAIN starts :
             given[k] = [index |-> low + k - 1,
                         start |-> starts[k],
                         end |-> Max({starts[k], Min({next(k), last})})]
    BY <1>1, <1>2, <1>6 DEF given
  <2> HIDE DEF rows
  <2> QED BY <2>2, <2>3, <2>5, <2>6, <2>7, Zenon
<1>13. ASSUME NEW k \in 1..count
       PROVE  /\ starts[k] \in Int /\ 1 - offset <= starts[k] /\ starts[k] <= last
              /\ k < count => k + 1 \in 1..count /\ starts[k+1] \in Int /\ starts[k] < starts[k+1]
  <2>1. low + k - 1 \in low..high /\ low + k - 1 \in Int
    BY <1>5, <1>9
  <2>2. starts[k] = StartOf(f, low + k - 1)
    BY <1>12
  <2>3. starts[k] \in Int /\ f[low] <= starts[k] /\ starts[k] <= f[high]
    BY <1>5, <1>8, <2>1, <2>2, StartsBetween
  <2>4. ASSUME k < count
        PROVE  k + 1 \in 1..count /\ starts[k+1] \in Int /\ starts[k] < starts[k+1]
    <3>1. k + 1 \in 1..count /\ low + (k + 1) - 1 = low + k - 1 + 1 /\ low + k - 1 \in low..(high-1)
      BY <1>5, <1>9, <1>10, <2>4
    <3>2. starts[k+1] = StartOf(f, low + k - 1 + 1)
      BY <1>12, <3>1
    <3> QED BY <1>5, <1>8, <2>2, <3>1, <3>2, StartsRise
  <2>5. f[low] \in Int /\ f[high] \in Int /\ 1 - offset <= f[low] /\ f[high] <= last
    BY <1>5, <1>7
  <2> QED BY <1>4, <1>7, <2>3, <2>4, <2>5
<1>14. DOMAIN starts = 1..count /\ Len(starts) = count
  BY <1>10, <1>12
<1>15. typical \in Int
  <2> DEFINE lengths == [k \in 1..(Len(starts) - 1) |-> starts[k+1] - starts[k]]
  <2>1. ASSUME NEW k \in 1..(count - 1)
        PROVE  starts[k+1] - starts[k] \in Nat /\ starts[k+1] - starts[k] <= last - (1 - offset)
    <3>1. k \in 1..count /\ k < count
      BY <1>10
    <3>2. k + 1 \in 1..count
      BY <1>10
    <3>3. /\ starts[k] \in Int /\ 1 - offset <= starts[k] /\ starts[k] < starts[k+1]
          /\ starts[k+1] \in Int /\ starts[k+1] <= last
      BY <1>13, <3>1, <3>2
    <3> QED BY <1>4, <1>7, <3>3
  <2>2. lengths \in Seq(Nat)
    BY <1>10, <1>14, <2>1
  <2>3. \A k \in DOMAIN lengths : lengths[k] <= last - (1 - offset)
    BY <1>14, <2>1
  <2>4. last - (1 - offset) \in Int
    BY <1>4, <1>7
  <2>5. typical = Typical(lengths)
    BY <1>12, Zenon
  <2> HIDE DEF lengths
  <2> QED BY <2>2, <2>3, <2>4, <2>5, TypicalLength
<1> DEFINE next(k) == IF k < count THEN starts[k+1] - 1 ELSE starts[k] + typical - 1
           end(k) == Max({starts[k], Min({next(k), last})})
<1> HIDE DEF rows
<1>16. rows = [k \in 1..count |-> rows[k]] /\ \A k \in 1..count : rows[k] = [index |-> low + k - 1, start |-> starts[k], end |-> end(k)]
  BY <1>12, <1>14
<1>17. ASSUME NEW k \in 1..count
       PROVE  /\ end(k) \in Int /\ starts[k] <= end(k) /\ end(k) <= last
              /\ k < count => end(k) < starts[k+1]
  <2>1. next(k) \in Int /\ (k < count => next(k) < starts[k+1])
    BY <1>13, <1>15
  <2>2. PICK x : x = next(k)
    OBVIOUS
  <2>3. PICK m : m = Min({x, last})
    OBVIOUS
  <2>4. m \in Int /\ m <= last /\ m <= x
    BY <1>7, <2>1, <2>2, <2>3, TwoNumbers
  <2>5. PICK s : s = starts[k]
    OBVIOUS
  <2>6. s \in Int /\ s <= last /\ (k < count => s < starts[k+1] /\ starts[k+1] \in Int)
    BY <1>13, <2>5
  <2>7. PICK e : e = Max({s, m})
    OBVIOUS
  <2>8. e \in {s, m} /\ s <= e
    BY <2>4, <2>6, <2>7, TwoNumbers
  <2>9. e \in Int /\ s <= e /\ e <= last /\ (k < count => e < starts[k+1])
    BY <1>7, <2>1, <2>2, <2>4, <2>6, <2>8
  <2> QED BY <2>2, <2>3, <2>5, <2>7, <2>9
<1> HIDE DEF plan_, rows, end, next
<1>18. \A k \in 1..count : /\ rows[k].index = low + k - 1
                           /\ rows[k].start = starts[k]
                           /\ rows[k].end = end(k)
  BY <1>16
<1>19. DOMAIN rows = 1..count /\ Len(rows) = count
  BY <1>10, <1>16
<1>20. rows \in Seq(LessonRow)
  <2>1. ASSUME NEW k \in 1..count
        PROVE  [index |-> low + k - 1, start |-> starts[k], end |-> end(k)] \in LessonRow
    BY <1>5, <1>13, <1>17 DEF LessonRow
  <2> QED BY <1>10, <1>16, <2>1
<1>21. ASSUME NEW i \in 1..count
       PROVE  /\ rows[i].index \in Indexes
              /\ \A j \in 1..(i-1) : rows[j].index # rows[i].index
              /\ rows[i].start <= rows[i].end
              /\ rows[i].start + plan_.offset >= 1
              /\ rows[i].end + plan_.offset <= Len(pages)
              /\ i > 1 => rows[i].start > rows[i-1].end
  <2>1. rows[i].index \in Indexes
    <3>1. low + i - 1 \in Int /\ low <= low + i - 1 /\ low + i - 1 <= high
      BY <1>5, <1>9
    <3>2. low + i - 1 \in Indexes
      BY <1>5, <3>1, IndexLimits
    <3> QED BY <1>18, <3>2
  <2>2. ASSUME NEW j \in 1..(i-1) PROVE rows[j].index # rows[i].index
    <3>1. j \in 1..count
      BY <1>10
    <3>2. rows[j].index = low + j - 1 /\ rows[i].index = low + i - 1
      BY <1>18, <3>1
    <3> QED BY <1>5, <3>2
  <2>3. rows[i].start <= rows[i].end /\ rows[i].start + plan_.offset >= 1 /\ rows[i].end + plan_.offset <= Len(pages)
    BY <1>4, <1>6, <1>13, <1>17, <1>18
  <2>4. ASSUME i > 1 PROVE rows[i].start > rows[i-1].end
    <3>1. PICK h : h = i - 1
      OBVIOUS
    <3>2. h \in 1..count /\ h < count /\ h + 1 = i
      BY <1>10, <2>4, <3>1
    <3>3. end(h) \in Int /\ end(h) < starts[i] /\ starts[i] \in Int
      BY <1>13, <1>17, <3>2
    <3> QED BY <1>18, <3>1, <3>2, <3>3
  <2> QED BY <2>1, <2>2, <2>3, <2>4
<1>22. plan_.offset \in Offsets /\ Len(rows) \in 1..MaxPlanLessons
  BY <1>4, <1>10, <1>19
<1>23. ValidPlan(plan_, Len(pages))
  BY <1>19, <1>20, <1>21, <1>22 DEF ValidPlan, rows
<1> QED BY <1>23 DEF plan_

\* Whatever the contents pages of a book list, a suggestion that leaves each lesson a page and
\* stays within the book can be saved as it is (suggest_plan(), validate_plan()).
THEOREM SuggestionCanBeSaved == Spec => []SuggestionSaves
<1>1. TypeOK => SuggestionSaves
  <2> SUFFICES ASSUME TypeOK PROVE SuggestionSaves
    OBVIOUS
  <2>1. Len(book) \in Nat
    BY BookAssumption DEF TypeOK
  <2> QED BY <2>1, SuggestionIsValid DEF SuggestionSaves
<1> QED BY <1>1, TypeCorrect, PTL
=============================================================================
