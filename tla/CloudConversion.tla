-------------------------- MODULE CloudConversion ---------------------------
(***************************************************************************)
(* What the scale-to-zero variant promises the owner of a job, whatever    *)
(* happens to messages and workers in between: a document is uploaded,     *)
(* converted and then ready or failed; ready is final; only a retry        *)
(* revives a failed job, while tries are left; what is out of sight stays  *)
(* so; at most MaxActive jobs are on their way.                            *)
(***************************************************************************)
EXTENDS Naturals, FiniteSets

CONSTANTS Jobs, MaxActive, MaxAttempts

VARIABLES phase, tries
vars == <<phase, tries>>

OnTheWay == {j \in Jobs : phase[j] \in {"uploading", "converting"}}

Init ==
    /\ phase = [j \in Jobs |-> "none"]
    /\ tries = [j \in Jobs |-> 0]

Becomes(j, p) ==
    /\ phase' = [phase EXCEPT ![j] = p]
    /\ UNCHANGED tries

Begin(j) ==
    /\ phase[j] = "none"
    /\ Cardinality(OnTheWay) < MaxActive
    /\ Becomes(j, "uploading")

Submit(j) == phase[j] = "uploading" /\ Becomes(j, "converting")

Try(j) ==
    /\ phase[j] = "converting"
    /\ tries[j] < MaxAttempts
    /\ tries' = [tries EXCEPT ![j] = @ + 1]
    /\ UNCHANGED phase

\* Only a job that was tried can be ready.
Finish(j) == phase[j] = "converting" /\ tries[j] > 0 /\ Becomes(j, "completed")

Fail(j) == phase[j] = "converting" /\ Becomes(j, "failed")

Retry(j) ==
    /\ phase[j] = "failed"
    /\ tries[j] < MaxAttempts
    /\ Cardinality(OnTheWay) < MaxActive
    /\ Becomes(j, "converting")

Remove(j) == phase[j] \notin {"none", "gone"} /\ Becomes(j, "gone")

Next ==
    \E j \in Jobs :
        \/ Begin(j) \/ Submit(j) \/ Try(j) \/ Finish(j) \/ Fail(j)
        \/ Retry(j) \/ Remove(j)

Spec == Init /\ [][Next]_vars
=============================================================================
