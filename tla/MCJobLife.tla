------------------------------ MODULE MCJobLife ------------------------------
(* The safety instance of JobPipeline: one course under everything, and two  *)
(* that compete for one place and one worker under fewer requests and stops. *)
EXTENDS MCJobPipeline

VARIABLE two

TwoJobs == {j1, j2}

Fewer ==
    IF two
    THEN /\ \A a \in Admins : request[a].op \in {"none", "retry"}
         /\ Cardinality({a \in Admins : request[a].op # "none"}) <= 1
         /\ workerStops <= 1 /\ apiStops = 0
         /\ \A j \in Jobs : attempts[j] <= 2
         /\ \E j \in Jobs : ~expired[j]
         /\ \A j \in Jobs : escape[j] # "error" /\ ~stale[j]
    ELSE /\ Cardinality({j \in Jobs : status[j] # "absent"}) <= 1
         /\ workerStops + apiStops <= 2

LifeInit == Init /\ two \in BOOLEAN
LifeNext == UNCHANGED two /\ Next /\ Fewer'
LifeSpec == LifeInit /\ [][LifeNext]_<<vars, two>>
=============================================================================
