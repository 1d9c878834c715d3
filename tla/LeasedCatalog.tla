---------------------------- MODULE LeasedCatalog ----------------------------
(***************************************************************************)
(* CloudStore.transaction(): read the catalogue blob, change it, write it  *)
(* back, under a lease of 60 seconds that the storage service ends whether *)
(* or not its holder has finished.  The service refuses a write that names *)
(* a lease which is no longer the current one.                             *)
(*                                                                         *)
(* The catalogue is the set of the changes it contains: a write replaces   *)
(* it with what the writer read plus its own change, so a change applied   *)
(* in between would be lost.                                               *)
(***************************************************************************)
EXTENDS Naturals

CONSTANTS
    Writers,   \* threads and executions that run one transaction each
    None,      \* nobody holds the lease
    MaxTries   \* attempts to get the lease before 503: 30

ASSUME WriterAssumption == None \notin Writers
ASSUME TryAssumption == MaxTries \in Nat \ {0}

VARIABLES
    catalogue,  \* catalog.json
    lease,      \* whose lease id the service accepts
    at, tries,  \* each writer: its place, the attempts it made
    seen,       \* each writer: the state it read
    told        \* the writers whose transaction returned without an error

vars == <<catalogue, lease, at, tries, seen, told>>

Places == {"acquire", "read", "change", "leave", "abort", "end"}

TypeOK ==
    /\ catalogue \subseteq Writers
    /\ lease \in Writers \cup {None}
    /\ at \in [Writers -> Places]
    /\ tries \in [Writers -> 0..MaxTries]
    /\ seen \in [Writers -> SUBSET Writers]
    /\ told \subseteq Writers

Init ==
    /\ catalogue = {}
    /\ lease = None
    /\ at = [w \in Writers |-> "acquire"]
    /\ tries = [w \in Writers |-> 0]
    /\ seen = [w \in Writers |-> {}]
    /\ told = {}

Goes(w, place) == at' = [at EXCEPT ![w] = place]

Acquire(w) ==
    /\ at[w] = "acquire"
    /\ lease = None
    /\ lease' = w
    /\ Goes(w, "read")
    /\ UNCHANGED <<catalogue, tries, seen, told>>

\* 409: try again a little later, at last give up with 503.
AcquireBusy(w) ==
    /\ at[w] = "acquire"
    /\ lease # None
    /\ tries' = [tries EXCEPT ![w] = @ + 1]
    /\ Goes(w, IF tries[w] + 1 = MaxTries THEN "end" ELSE "acquire")
    /\ UNCHANGED <<catalogue, lease, seen, told>>

\* Mutated form: a state read earlier is used.
ReadCached(w) ==
    /\ at[w] = "read"
    /\ Goes(w, "change")
    /\ UNCHANGED <<catalogue, lease, tries, seen, told>>

Read(w) ==
    /\ at[w] = "read"
    /\ seen' = [seen EXCEPT ![w] = catalogue]
    /\ Goes(w, "change")
    /\ UNCHANGED <<catalogue, lease, tries, told>>

\* The body of the transaction raises: nothing is written.
Raise(w) ==
    /\ at[w] \in {"read", "change"}
    /\ Goes(w, "abort")
    /\ UNCHANGED <<catalogue, lease, tries, seen, told>>

Holds(w) == lease = w

\* The write succeeds and the writer learns it, or does not (a timeout); or the
\* service refuses it (412).
Write(w) ==
    /\ at[w] = "change"
    /\ \/ /\ Holds(w)
          /\ catalogue' = seen[w] \cup {w}
          /\ Goes(w, "leave") \/ Goes(w, "abort")
       \/ /\ ~Holds(w)
          /\ UNCHANGED catalogue
          /\ Goes(w, "abort")
    /\ UNCHANGED <<lease, tries, seen, told>>

\* Mutated form: released after a success only.
ReleaseOnSuccess(w) ==
    /\ at[w] = "leave"
    /\ lease' = IF lease = w THEN None ELSE lease
    /\ told' = IF lease = w THEN told \cup {w} ELSE told
    /\ Goes(w, "end")
    /\ UNCHANGED <<catalogue, tries, seen>>

\* finally: lease.release().  The release of a lease that ran out raises, so that
\* the caller hears of an error although its change is in the catalogue.
Release(w) ==
    /\ at[w] \in {"leave", "abort"}
    /\ lease' = IF lease = w THEN None ELSE lease
    /\ told' = IF at[w] = "leave" /\ lease = w THEN told \cup {w} ELSE told
    /\ Goes(w, "end")
    /\ UNCHANGED <<catalogue, tries, seen>>

\* The 60 seconds are over; the process may live on or have died.
Lapse ==
    /\ lease # None
    /\ lease' = None
    /\ UNCHANGED <<catalogue, at, tries, seen, told>>

Die(w) ==
    /\ at[w] \notin {"acquire", "end"}
    /\ Goes(w, "end")
    /\ UNCHANGED <<catalogue, lease, tries, seen, told>>

WriterStep(w) ==
    Acquire(w) \/ AcquireBusy(w) \/ Read(w) \/ Raise(w) \/ Write(w) \/ Release(w) \/ Die(w)

Next == (\E w \in Writers : WriterStep(w)) \/ Lapse

Spec == Init /\ [][Next]_vars

-----------------------------------------------------------------------------
\* A change whose caller was told it succeeded is in the catalogue, and stays
\* there whatever transactions start or stall (cloud_store.py:86-108).
NoLostUpdate == told \subseteq catalogue

\* A writer that can still write has read the catalogue as it is now: nothing was
\* written between its read and its write.
FreshRead == \A w \in Writers : at[w] = "change" /\ lease = w => seen[w] = catalogue

Atomic == INSTANCE AtomicCatalog
\* Transactions are atomic: every write adds one change to all that came before.
TransactionsAreAtomic == Atomic!Spec

\* A writer that lives goes on; nothing is assumed of errors and deaths.
Fairness ==
    /\ \A w \in Writers :
          WF_vars(Acquire(w) \/ AcquireBusy(w) \/ Read(w) \/ Write(w) \/ Release(w))
    /\ WF_vars(Lapse)
FairSpec == Spec /\ Fairness

\* Nobody waits for the lease for ever: every transaction ends, with an error
\* if need be, even when a holder died or stalled.
EveryoneEnds == <>(\A w \in Writers : at[w] = "end")
=============================================================================
