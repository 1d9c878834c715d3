--------------------------- MODULE MCLessonBuilds ---------------------------
(* Small instances of LessonBuilds and LessonPlans for TLC. *)
EXTENDS LessonBuilds

CONSTANTS a1, a2

TwoAdmins == {a1, a2}

Row(index, start, end) == [index |-> index, start |-> start, end |-> end]
Shifted == [offset |-> 0, lessons |-> <<Row(1, 1, 1), Row(2, 2, 3)>>]
Touching == [offset |-> 1, lessons |-> <<Row(1, 1, 2), Row(2, 2, 3)>>]
TwoPlans == {Shifted, Touching}

-----------------------------------------------------------------------------
\* Books of up to four pages: a page names no lesson, one in its head or below, or two.
Plain == [numbers |-> {}, head |-> {}, entries |-> <<>>, titles |-> {}]
Heading(n) == [Plain EXCEPT !.numbers = {n}, !.head = {n}]
Pages == {Plain, [Plain EXCEPT !.numbers = {1}], [Plain EXCEPT !.numbers = {1, 2}, !.head = {1, 2}]}
             \cup {Heading(n) : n \in 1..3}
HeadingBooks == UNION {[1..n -> Pages] : n \in 1..4}

\* Books with one or two contents pages: of four lessons one is missing or garbled.
Rising == {s \in [1..3 -> 1..6] : s[1] < s[2] /\ s[2] < s[3]}
Contents(n, s) == [Plain EXCEPT !.entries = [k \in 1..3 |-> <<n[k], s[k]>>]]
Titled(n) == [Plain EXCEPT !.titles = {n}]
ContentsBooks ==
    { <<Contents(n, s), second, third>> \o [i \in 1..rest |-> Plain] :
        n \in {<<1, 2, 4>>, <<1, 3, 4>>, <<2, 3, 4>>, <<1, 2, 3>>}, s \in Rising,
        second \in {Plain, Titled(1), Contents(<<1, 3, 4>>, <<2, 3, 6>>), Contents(<<1, 2, 3>>, <<1, 2, 3>>)},
        third \in {Plain, Titled(1), Titled(2)}, rest \in {1, 3, 6} }

\* The contents page of this one lists lessons 1 and 3 only; lesson 1 is found on page 2.
Garden == <<[Plain EXCEPT !.entries = <<<<1, 1>>, <<3, 3>>, <<3, 4>>>>], Titled(1), Plain, Plain>>
\* A contents page that begins with a lesson 0.
Zero == <<Contents(<<0, 1, 2>>, <<2, 3, 4>>), Plain, Plain, Plain>>
AllBooks == HeadingBooks \cup ContentsBooks \cup {Zero, Garden}
OneBook == {Garden}
=============================================================================
