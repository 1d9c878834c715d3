----------------------------- MODULE LessonTests -----------------------------
(***************************************************************************)
(* The test of a lesson and the scores of a student (app/summary.py and    *)
(* its endpoints in app/main.py): the model's reply made into a test, the  *)
(* test shown without its answers, the student's answers graded against    *)
(* the test of the moment, and the row of the student's scores.            *)
(*                                                                         *)
(* One student with several tabs; the scores of others are other rows.     *)
(* LessonBuilds has the batch that replaces the tests, and the plan that   *)
(* drops them: here they are replaced and dropped at any time.             *)
(***************************************************************************)
EXTENDS Integers, FiniteSets, SequencesExt, Selections

CONSTANTS
    Tabs,
    Lessons,
    Wordings,     \* texts of choices
    Replies,      \* what the model may reply: sequences of entries
    Absent,       \* no file, no row, no answer; a choice that is no text
    MaxBuilds, MaxSubmits   \* bounds

MaxQuestions == 15

ScoreRow == [best : Nat, last : Nat, total : Nat \ {0}, attempts : Nat \ {0}]

ASSUME AbsentAssumption == Absent \notin ScoreRow
ASSUME ReplyAssumption ==
    Replies \subseteq Seq([worded : BOOLEAN, choices : Seq(Wordings \cup {Absent}), answer : Int])
ASSUME BuildAssumption == MaxBuilds \in Nat /\ MaxSubmits \in Nat

VARIABLES
    test,       \* the test in summary-<n>.json
    screen,      \* the test each tab shows
    tab,        \* what each tab's request is doing; seen and paper (the answers, and how they
                \* were graded) are for the properties
    scores,     \* the student's rows in test_scores
    builds, submits,
    marks       \* observer: the scores recorded so far, in order

testVars == <<test, screen, tab, scores, builds, submits, marks>>

NoRequest == [at |-> "idle", lesson |-> Absent, score |-> 0, total |-> 0, seen |-> Absent, paper |-> Absent]

TestsInit ==
    /\ test = [l \in Lessons |-> Absent]
    /\ screen = [t \in Tabs |-> Absent]
    /\ tab = [t \in Tabs |-> NoRequest]
    /\ scores = [l \in Lessons |-> Absent]
    /\ builds = 0
    /\ submits = 0
    /\ marks = [l \in Lessons |-> <<>>]

-----------------------------------------------------------------------------
(* _parse_test(): an entry has a question, choices, and the position of the *)
(* right one among them, counted from 0.                                    *)

Texts(entry) == Picked(entry.choices, {i \in DOMAIN entry.choices : entry.choices[i] # Absent})

Sound(entry) ==
    /\ entry.worded
    /\ Len(Texts(entry)) \in 2..5
    /\ entry.answer \in 0..(Len(Texts(entry)) - 1)

Orders(n) == {o \in [1..n -> 1..n] : \A i, j \in 1..n : o[i] = o[j] => i = j}

\* What the model marked, whether that or a choice before it was left out, and whether another
\* choice reads the same (observers).
Meant(entry) ==
    LET marked == entry.answer + 1
    IN [text |-> entry.choices[marked],
        moved |-> \E i \in 1..marked : entry.choices[i] = Absent,
        twice |-> \E i \in DOMAIN entry.choices \ {marked} : entry.choices[i] = entry.choices[marked]]

\* Mutated form: the answer stays where the model put it.
QuestionsUnmoved(entry) ==
    {[choices |-> [k \in DOMAIN o |-> Texts(entry)[o[k]]], answer |-> entry.answer, meant |-> Meant(entry)] :
        o \in Orders(Len(Texts(entry)))}

\* The question with its choices in any order.
Questions(entry) ==
    {[choices |-> [k \in DOMAIN o |-> Texts(entry)[o[k]]],
      answer |-> (CHOOSE k \in DOMAIN o : o[k] = entry.answer + 1) - 1,
      meant |-> Meant(entry)] : o \in Orders(Len(Texts(entry)))}

\* The tests a reply may become: none when no entry of it is sound.
Tests(reply) ==
    LET sound == Picked(reply, {i \in DOMAIN reply : i <= MaxQuestions /\ Sound(reply[i])})
    IN IF sound = <<>> THEN {}
       ELSE {q \in [DOMAIN sound -> UNION {Questions(sound[i]) : i \in DOMAIN sound}] :
               \A i \in DOMAIN sound : q[i] \in Questions(sound[i])}

Build(l) ==
    /\ builds < MaxBuilds
    /\ builds' = builds + 1
    /\ \E reply \in Replies : \E q \in Tests(reply) : test' = [test EXCEPT ![l] = [made |-> builds', questions |-> q]]
    /\ UNCHANGED <<screen, tab, scores, submits, marks>>

\* A plan that changes the lesson's pages drops its summary and its test.
Drop(l) ==
    /\ test[l] # Absent
    /\ test' = [test EXCEPT ![l] = Absent]
    /\ UNCHANGED <<screen, tab, scores, builds, submits, marks>>

-----------------------------------------------------------------------------
(* The student.                                                            *)

Show(t, l) ==
    /\ tab[t].at = "idle"
    /\ test[l] # Absent
    /\ screen' = [screen EXCEPT ![t] = [lesson |-> l, test |-> test[l]]]
    /\ UNCHANGED <<test, tab, scores, builds, submits, marks>>

\* grade(): an answer that is missing is none.
Marks(questions, given) ==
    [i \in DOMAIN questions |-> i \in DOMAIN given /\ given[i] = questions[i].answer]

Score(correct) == Cardinality({i \in DOMAIN correct : correct[i]})

Answers(questions) == [DOMAIN questions -> {Absent} \cup 0..2]

\* built_lesson() reads the lesson again (404 when it is gone), and its test is what counts.
Submit(t) ==
    /\ tab[t].at = "idle"
    /\ screen[t] # Absent
    /\ submits < MaxSubmits
    /\ LET l == screen[t].lesson
       IN /\ test[l] # Absent
          /\ \E given \in Answers(screen[t].test.questions) :
                LET correct == Marks(test[l].questions, given)
                IN tab' = [tab EXCEPT ![t] =
                      [at |-> "record", lesson |-> l, score |-> Score(correct), total |-> Len(correct),
                       seen |-> scores[l],
                       paper |-> [questions |-> screen[t].test.questions, given |-> given, correct |-> correct,
                                  rebuilt |-> screen[t].test.made # test[l].made]]]
    /\ submits' = submits + 1
    /\ UNCHANGED <<test, screen, scores, builds, marks>>

Row(row, r) ==
    IF row = Absent THEN [best |-> r.score, last |-> r.score, total |-> r.total, attempts |-> 1]
    ELSE [best |-> IF row.best > r.score THEN row.best ELSE r.score,
          last |-> r.score, total |-> r.total, attempts |-> row.attempts + 1]

Recorded(t) ==
    /\ marks' = [marks EXCEPT ![tab[t].lesson] = Append(@, tab[t].score)]
    /\ tab' = [tab EXCEPT ![t] = NoRequest]
    /\ UNCHANGED <<test, screen, builds, submits>>

\* Mutated form: the row is written from what was read with the lesson.
RecordFromRead(t) ==
    /\ tab[t].at = "record"
    /\ scores' = [scores EXCEPT ![tab[t].lesson] = Row(tab[t].seen, tab[t])]
    /\ Recorded(t)

\* record_score(): INSERT ... ON CONFLICT DO UPDATE.
Record(t) ==
    /\ tab[t].at = "record"
    /\ scores' = [scores EXCEPT ![tab[t].lesson] = Row(@, tab[t])]
    /\ Recorded(t)

TestsNext ==
    \/ \E l \in Lessons : Build(l) \/ Drop(l)
    \/ \E t \in Tabs : \/ \E l \in Lessons : Show(t, l)
                       \/ Submit(t) \/ Record(t)

TestsSpec == TestsInit /\ [][TestsNext]_testVars

-----------------------------------------------------------------------------
TestsTypeOK ==
    /\ \A l \in Lessons : test[l] # Absent => test[l].made \in 1..MaxBuilds /\ test[l].questions # <<>>
    /\ \A l \in Lessons : scores[l] # Absent => scores[l] \in ScoreRow
    /\ \A t \in Tabs : tab[t].at \in {"idle", "record"}
    /\ builds \in 0..MaxBuilds
    /\ submits \in 0..MaxSubmits

\* An answer that picks the text the model marked.
Right(q, answer) ==
    /\ answer \in 0..(Len(q.choices) - 1)
    /\ q.choices[answer + 1] = q.meant.text

\* "answer follows the shuffle" (tests/test_summary.py): a student is right exactly when they
\* pick the choice the model marked, in the test they were shown and unless it was rebuilt since;
\* where two choices read the same, only the marked one of them counts.
\* It needs the marked choice and those before it to be texts: _parse_test() drops what is none
\* and keeps the position.
FairGrade ==
    \A t \in Tabs : tab[t].at = "record" /\ ~tab[t].paper.rebuilt =>
        LET paper == tab[t].paper
        IN \A i \in DOMAIN paper.questions :
              LET q == paper.questions[i]
                  right == Right(q, paper.given[i])
              IN ~q.meant.moved => /\ paper.correct[i] => right
                                   /\ right /\ ~q.meant.twice => paper.correct[i]

\* A student's row is what the recorded results make, however the requests of their tabs
\* interleave: the best of them, the last, and how many there are (summary.record_score).
BestIsKept ==
    \A l \in Lessons :
        IF marks[l] = <<>> THEN scores[l] = Absent
        ELSE /\ scores[l].best = Max(ToSet(marks[l]))
             /\ scores[l].last = marks[l][Len(marks[l])]
             /\ scores[l].attempts = Len(marks[l])
=============================================================================
