------------------------------ MODULE CostMeter ------------------------------
(***************************************************************************)
(* What Azure charges, as an administrator sees it (app/costs.py): a cache  *)
(* of this process that any request for the overview may refresh.  Azure is *)
(* asked without the lock, for a minute and more when it throttles, so two  *)
(* refreshes may overlap.  What the models cost is a sum over the database. *)
(*                                                                         *)
(* A number Azure gave is the position of the answer among all it gave.     *)
(***************************************************************************)
EXTENDS Integers

CONSTANTS
    Polls,          \* requests for the overview, in threads of their own
    Unknown,        \* no number; nothing checked
    Fresh, Retry,   \* how long good numbers are shown, and those with an error
    MaxMoment, MaxAnswers, MaxStarts   \* bounds

Parts == {"costs", "credit"}

ASSUME UnknownAssumption == Unknown \notin Int
ASSUME FreshAssumption == Fresh \in Nat /\ Retry \in Nat
ASSUME MeterAssumption == MaxMoment \in Nat /\ MaxAnswers \in Nat /\ MaxStarts \in Nat

VARIABLES
    time,
    shown, checked, failed,   \* _cache: the numbers, when they were asked for, was there an error
    poll,       \* what each refresh is doing
    found,      \* and the numbers it has got
    answers,    \* how often Azure was asked for a part
    starts,
    overtaken   \* observer: the refreshes during which another was published

cache == <<shown, checked, failed>>
costVars == <<time, cache, poll, found, answers, starts, overtaken>>

Nothing == [part \in Parts |-> Unknown]
NoPoll == [at |-> "idle", now |-> 0, seen |-> Nothing, failed |-> FALSE]

CostInit ==
    /\ time = 0
    /\ shown = Nothing
    /\ checked = Unknown
    /\ failed = FALSE
    /\ poll = [p \in Polls |-> NoPoll]
    /\ found = [p \in Polls |-> Nothing]
    /\ answers = 0
    /\ starts = 0
    /\ overtaken = {}

Refreshing == {p \in Polls : poll[p].at # "idle"}

\* A failed check is retried sooner than a good one is refreshed.
Served == checked # Unknown /\ time - checked < (IF failed THEN Retry ELSE Fresh)

Refresh(p) ==
    /\ poll[p].at = "idle"
    /\ poll' = [poll EXCEPT ![p] = [at |-> "token", now |-> time, seen |-> shown, failed |-> FALSE]]
    /\ found' = [found EXCEPT ![p] = Nothing]
    /\ overtaken' = overtaken \ {p}
    /\ UNCHANGED <<time, cache, answers, starts>>

\* Under the lock: what is cached is served, unless it is old or the request insists.
Overview(p) == ~Served /\ Refresh(p)
RefreshForced(p) == Served /\ Refresh(p)

\* A token and a subscription, or an error.
Token(p) ==
    /\ poll[p].at = "token"
    /\ \/ poll' = [poll EXCEPT ![p].at = "costs"]
       \/ poll' = [poll EXCEPT ![p].at = "publish", ![p].failed = TRUE]
    /\ UNCHANGED <<time, cache, found, answers, starts, overtaken>>

\* One part: Azure gives its numbers, or an error.
Fetch(p, part) ==
    /\ poll[p].at = part
    /\ answers < MaxAnswers
    /\ answers' = answers + 1
    /\ LET next == IF part = "costs" THEN "credit" ELSE "publish"
       IN \/ /\ poll' = [poll EXCEPT ![p].at = next]
             /\ found' = [found EXCEPT ![p] = [@ EXCEPT ![part] = answers']]
          \/ /\ poll' = [poll EXCEPT ![p].at = next, ![p].failed = TRUE]
             /\ UNCHANGED found
    /\ UNCHANGED <<time, cache, starts, overtaken>>

\* Its answer cannot be read: the request fails (500), and nothing is published.
Raise(p) ==
    /\ poll[p].at \in Parts
    /\ poll' = [poll EXCEPT ![p].at = "idle"]
    /\ UNCHANGED <<time, cache, found, answers, starts, overtaken>>

\* Mutated form: a failed check hides the numbers.
ShownAsFound(p) == found[p]

\* Keep showing the last good numbers.
ShownBy(p) ==
    [part \in Parts |-> IF found[p][part] = Unknown THEN poll[p].seen[part] ELSE found[p][part]]

Publish(p) ==
    /\ poll[p].at = "publish"
    /\ shown' = ShownBy(p)
    /\ checked' = poll[p].now
    /\ failed' = poll[p].failed
    /\ poll' = [poll EXCEPT ![p].at = "idle"]
    /\ overtaken' = overtaken \cup Refreshing
    /\ UNCHANGED <<time, found, answers, starts>>

Pass ==
    /\ time < MaxMoment
    /\ time' = time + 1
    /\ UNCHANGED <<cache, poll, found, answers, starts, overtaken>>

ServerRestarts ==
    /\ starts < MaxStarts
    /\ starts' = starts + 1
    /\ shown' = Nothing
    /\ checked' = Unknown
    /\ failed' = FALSE
    /\ poll' = [p \in Polls |-> NoPoll]
    /\ UNCHANGED <<time, found, answers, overtaken>>

CostNext ==
    \/ \E p \in Polls : \/ Overview(p) \/ RefreshForced(p) \/ Token(p) \/ Raise(p) \/ Publish(p)
                        \/ \E part \in Parts : Fetch(p, part)
    \/ Pass
    \/ ServerRestarts

CostSpec == CostInit /\ [][CostNext]_costVars

-----------------------------------------------------------------------------
Numbers == [Parts -> Nat \cup {Unknown}]

CostTypeOK ==
    /\ time \in 0..MaxMoment
    /\ shown \in Numbers
    /\ checked \in 0..MaxMoment \cup {Unknown}
    /\ failed \in BOOLEAN
    /\ poll \in [Polls -> [at : {"idle", "token", "publish"} \cup Parts, now : 0..MaxMoment,
                           seen : Numbers, failed : BOOLEAN]]
    /\ found \in [Polls -> Numbers]
    /\ answers \in 0..MaxAnswers
    /\ starts \in 0..MaxStarts
    /\ overtaken \subseteq Polls

\* "keep showing the last good numbers" (costs.azure_snapshot): a refresh during which no other
\* was published neither hides a number that was shown nor puts an older one in its place.  One
\* that was overtaken does both.
LastGoodNumbers ==
    [][\A p \in Polls \ overtaken, part \in Parts :
          Publish(p) /\ shown[part] # Unknown =>
              shown'[part] # Unknown /\ shown'[part] >= shown[part]]_costVars
=============================================================================
