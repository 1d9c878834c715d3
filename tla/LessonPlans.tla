----------------------------- MODULE LessonPlans -----------------------------
(***************************************************************************)
(* The course builder (app/builder.py): lessons found in the text of the   *)
(* pages, the plan suggested from the contents pages, the validation of    *)
(* the plan an administrator submits, and the course made of either.       *)
(* These are functions of their arguments; LessonBuilds uses them.         *)
(*                                                                         *)
(* A page is what the regular expressions find in its text:                *)
(*   numbers  the lesson numbers it names,                                 *)
(*   head     those named in its first 80 characters,                      *)
(*   entries  the <<lesson, printed page>> pairs it lists, in order,       *)
(*   titles   the lessons whose contents-page title stands at its top.     *)
(* A book is a sequence of pages; the PDF page number is the position.     *)
(* Titles and the language of the markers are left out.                    *)
(***************************************************************************)
EXTENDS Integers, SequencesExt

MaxPlanLessons == 100

\* What the loop of detect_lessons() asks of a page.
Opens(page, expected) == page.numbers = {expected} /\ expected \in page.head

\* How many lessons the first i pages have opened.
Opened(pages) ==
    LET opened[i \in 0..Len(pages)] ==
            IF i = 0 THEN 0
            ELSE LET before == opened[i-1]
                 IN IF Opens(pages[i], before + 1) THEN before + 1 ELSE before
    IN opened

DetectLessons(pages) ==
    LET opened == Opened(pages)
        count == opened[Len(pages)]
        start(k) == CHOOSE i \in 1..Len(pages) : opened[i] = k /\ opened[i-1] = k - 1
    IN [k \in 1..count |->
           [index |-> k,
            start |-> start(k),
            end |-> IF k < count THEN start(k+1) - 1 ELSE Len(pages)]]

-----------------------------------------------------------------------------
(* The suggested plan. *)

\* May the entry join those already known and keep the book's order?
Fits(known, number, printed) ==
    /\ number \notin DOMAIN known
    /\ \A n \in DOMAIN known : /\ n < number => known[n] < printed
                               /\ n > number => printed < known[n]

ContentsPages(pages) == {i \in 1..Len(pages) : Len(pages[i].entries) >= 3}

\* The printed first page of every readable lesson: the longest list of entries is read first.
TocEntries(pages) ==
    LET longer(i, j) == \/ Len(pages[i].entries) > Len(pages[j].entries)
                        \/ Len(pages[i].entries) = Len(pages[j].entries) /\ i < j
        order == SetToSortSeq(ContentsPages(pages), longer)
        merge(known, entry) == IF Fits(known, entry[1], entry[2])
                               THEN [n \in DOMAIN known \cup {entry[1]} |->
                                        IF n = entry[1] THEN entry[2] ELSE known[n]]
                               ELSE known
    IN FoldLeft(merge, <<>>, FlattenSeq([k \in DOMAIN order |-> pages[order[k]].entries]))

\* PDF page minus printed page, from the first page that shows the first lesson's title.
GuessOffset(pages, known) ==
    IF known = <<>> THEN 0
    ELSE LET first == Min(DOMAIN known)
             after == Min(ContentsPages(pages))
             hits == {i \in 1..Len(pages) : /\ i > after
                                            /\ i - known[first] \in -5..30
                                            /\ first \in pages[i].titles}
         IN IF hits = {} THEN 0 ELSE Min(hits) - known[first]

\* Python's round() of a/b: to the nearest, a tie to the even neighbour.
Round(a, b) ==
    LET q == a \div b
        r == a % b
    IN IF 2*r > b \/ (2*r = b /\ q % 2 = 1) THEN q + 1 ELSE q

\* Mutated form: the garbled lesson starts where its neighbour does.
StartWithNeighbour(known, number) ==
    IF number \in DOMAIN known THEN known[number]
    ELSE known[Max({n \in DOMAIN known : n < number})]

\* A lesson the OCR garbled starts in proportion between its readable neighbours.
StartOf(known, number) ==
    IF number \in DOMAIN known THEN known[number]
    ELSE LET before == Max({n \in DOMAIN known : n < number})
             after == Min({n \in DOMAIN known : n > number})
         IN Round(known[before] * (after - before) + (known[after] - known[before]) * (number - before),
                  after - before)

\* sorted(lengths)[len(lengths) // 2], 10 when there are none.
Typical(lengths) ==
    IF lengths = <<>> THEN 10
    ELSE LET half == Len(lengths) \div 2
             upTo(n) == Cardinality({k \in DOMAIN lengths : lengths[k] <= n})
         IN CHOOSE n \in Range(lengths) : upTo(n - 1) <= half /\ half < upTo(n)

SuggestPlan(pages) ==
    LET known == TocEntries(pages)
        offset == GuessOffset(pages, known)
        low == Min(DOMAIN known)
        starts == IF known = <<>> THEN <<>>
                  ELSE [k \in 1..(Max(DOMAIN known) - low + 1) |-> StartOf(known, low + k - 1)]
        lastPrinted == Len(pages) - offset
        typical == Typical([k \in 1..(Len(starts) - 1) |-> starts[k+1] - starts[k]])
        next(k) == IF k < Len(starts) THEN starts[k+1] - 1 ELSE starts[k] + typical - 1
    IN [offset |-> offset,
        lessons |-> [k \in DOMAIN starts |->
                        [index |-> low + k - 1,
                         start |-> starts[k],
                         end |-> Max({starts[k], Min({next(k), lastPrinted})})]]]

-----------------------------------------------------------------------------
(* The plan an administrator submits, and the course. *)

Offsets == -50..500
Indexes == 1..999
LessonRow == [index : Int, start : Int, end : Int]

\* Mutated form: lessons may meet in one page.
ValidWhenTouching(plan, pageCount) ==
    LET rows == plan.lessons
    IN /\ rows \in Seq(LessonRow)
       /\ plan.offset \in Offsets
       /\ Len(rows) \in 1..MaxPlanLessons
       /\ \A i \in DOMAIN rows :
             /\ rows[i].index \in Indexes
             /\ \A j \in 1..(i-1) : rows[j].index # rows[i].index
             /\ rows[i].start <= rows[i].end
             /\ rows[i].start + plan.offset >= 1
             /\ rows[i].end + plan.offset <= pageCount
             /\ i > 1 => rows[i].start >= rows[i-1].end

\* validate_plan() returns the plan; otherwise it raises PlanError.
ValidPlan(plan, pageCount) ==
    LET rows == plan.lessons
    IN /\ rows \in Seq(LessonRow)
       /\ plan.offset \in Offsets
       /\ Len(rows) \in 1..MaxPlanLessons
       /\ \A i \in DOMAIN rows :
             /\ rows[i].index \in Indexes
             /\ \A j \in 1..(i-1) : rows[j].index # rows[i].index
             /\ rows[i].start <= rows[i].end
             /\ rows[i].start + plan.offset >= 1
             /\ rows[i].end + plan.offset <= pageCount
             /\ i > 1 => rows[i].start > rows[i-1].end

\* The lessons of a validated plan, by PDF page.
PlanLessons(plan) ==
    [k \in DOMAIN plan.lessons |->
        [index |-> plan.lessons[k].index,
         start |-> plan.lessons[k].start + plan.offset,
         end |-> plan.lessons[k].end + plan.offset]]

\* The first lesson whose pages contain p; 0 for none.
LessonOf(lessons, p) ==
    LET here == {k \in DOMAIN lessons : lessons[k].start <= p /\ p <= lessons[k].end}
    IN IF here = {} THEN 0 ELSE lessons[Min(here)].index

BuildCourse(pages, lessons) ==
    LET free == {p \in 1..Len(pages) : LessonOf(lessons, p) = 0}
    IN [lesson |-> [p \in 1..Len(pages) |-> LessonOf(lessons, p)],
        front |-> IF lessons = <<>> THEN {} ELSE {p \in free : p < lessons[1].start},
        other |-> IF lessons = <<>> THEN {} ELSE {p \in free : p > lessons[1].start}]
=============================================================================
