----------------------------- MODULE MCRequests ------------------------------
(* Small instances of Accounts, LessonTests and CostMeter for TLC.  No step  *)
(* of one reads or writes what another keeps, so each is explored with the   *)
(* others at rest.                                                           *)
EXTENDS Accounts, LessonTests, CostMeter

CONSTANTS c1, c2, n1, n2, p1, p2,   \* browsers, names, passwords
          t1, t2, x, y, z,          \* tabs, choices
          o1, o2                    \* requests for the overview

VARIABLE part

TwoCallers == {c1, c2}
TwoNames == {n1, n2}
TwoPasswords == {p1, p2}
TwoTabs == {t1, t2}
TwoPolls == {o1, o2}
Symmetry == Permutations(TwoCallers) \cup Permutations(TwoTabs) \cup Permutations(TwoPolls)

Turn(role) == [role |-> role, blank |-> FALSE]
Conversations ==
    {<<>>, <<Turn("user"), Turn("assistant"), Turn("user")>>,
     <<[Turn("user") EXCEPT !.blank = TRUE], Turn("assistant"), Turn("other"), Turn("user")>>}

Entry(worded, choices, answer) == [worded |-> worded, choices |-> choices, answer |-> answer]
SomeReplies ==
    { \* two choices that read the same
      <<Entry(TRUE, <<x, y, y>>, 1)>>,
      <<Entry(TRUE, <<x, y>>, 0), Entry(FALSE, <<x, y>>, 0), Entry(TRUE, <<y, z>>, 1)>>,
      \* a choice that is no text: after the marked one, before it, itself
      <<Entry(TRUE, <<x, Absent, y>>, 0), Entry(TRUE, <<x, y>>, 2), Entry(TRUE, <<x>>, 0)>>,
      <<Entry(TRUE, <<Absent, x, y>>, 1), Entry(TRUE, <<Absent, y, z>>, 0)>>,
      <<Entry(TRUE, <<x, Absent>>, 1)>> }

Init == AccountsInit /\ TestsInit /\ CostInit /\ part \in {"accounts", "tests", "costs"}

Next ==
    /\ UNCHANGED part
    /\ \/ part = "accounts" /\ AccountsNext /\ UNCHANGED <<testVars, costVars>>
       \/ part = "tests" /\ TestsNext /\ UNCHANGED <<accountVars, costVars>>
       \/ part = "costs" /\ CostNext /\ UNCHANGED <<accountVars, testVars>>

Spec == Init /\ [][Next]_<<part, accountVars, testVars, costVars>>
=============================================================================
