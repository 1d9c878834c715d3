------------------------ MODULE LeasedCatalogProofs -------------------------
(***************************************************************************)
(* Transactions under a lease that may run out are atomic, for any number  *)
(* of writers.  The invariant that carries the proof: a writer that holds  *)
(* the lease and has read knows the catalogue as it is, because nobody     *)
(* else can have written since, and has not written itself.                *)
(*                                                                         *)
(* The second part is about the upload that is made of such transactions.  *)
(***************************************************************************)
EXTENDS CloudUpload, FiniteSetTheorems, TLAPS

\* What a writer did before its write is not in the catalogue yet; what it was told
\* about is; after a write that may be reported, the change is there; and who still
\* tries to get the lease has attempts left.
Progress ==
    /\ \A w \in Writers : at[w] \in {"acquire", "read", "change"} => w \notin catalogue
    /\ \A w \in Writers : at[w] = "leave" /\ lease = w => w \in catalogue
    /\ \A w \in Writers : at[w] = "acquire" => tries[w] < MaxTries

IInv == TypeOK /\ FreshRead /\ Progress /\ NoLostUpdate

\* The invariant holds initially.
LEMMA InitOK == Init => IInv
BY WriterAssumption, TryAssumption DEF Init, IInv, TypeOK, FreshRead, Progress, NoLostUpdate, Places

\* Every step preserves it.
LEMMA StepOK == IInv /\ [Next]_vars => IInv'
<1> SUFFICES ASSUME IInv, [Next]_vars PROVE IInv'
  OBVIOUS
<1> USE WriterAssumption, TryAssumption
       DEF IInv, TypeOK, FreshRead, Progress, NoLostUpdate, Places, Goes
<1>1. ASSUME NEW w \in Writers, Acquire(w) PROVE IInv'
  BY <1>1 DEF Acquire
<1>2. ASSUME NEW w \in Writers, AcquireBusy(w) PROVE IInv'
  <2>1. tries[w] + 1 \in 0..MaxTries
    BY <1>2 DEF AcquireBusy
  <2>2. at'[w] = "acquire" => tries'[w] < MaxTries
    BY <1>2, <2>1 DEF AcquireBusy
  <2> QED BY <1>2, <2>1, <2>2 DEF AcquireBusy
<1>3. ASSUME NEW w \in Writers, Read(w) PROVE IInv'
  BY <1>3 DEF Read
<1>4. ASSUME NEW w \in Writers, Raise(w) PROVE IInv'
  BY <1>4 DEF Raise
<1>5. ASSUME NEW w \in Writers, Write(w) PROVE IInv'
  <2>1. CASE Holds(w)
    <3>1. catalogue' = catalogue \cup {w}
      BY <1>5, <2>1 DEF Write, Holds
    <3> QED BY <1>5, <2>1, <3>1 DEF Write, Holds
  <2>2. CASE ~Holds(w)
    BY <1>5, <2>2 DEF Write, Holds
  <2> QED BY <2>1, <2>2
<1>6. ASSUME NEW w \in Writers, Release(w) PROVE IInv'
  BY <1>6 DEF Release
<1>7. ASSUME NEW w \in Writers, Die(w) PROVE IInv'
  BY <1>7 DEF Die
<1>8. CASE Lapse
  BY <1>8 DEF Lapse
<1>9. CASE UNCHANGED vars
  BY <1>9 DEF vars
<1> QED BY <1>1, <1>2, <1>3, <1>4, <1>5, <1>6, <1>7, <1>8, <1>9 DEF Next, WriterStep

\* IInv is an invariant of the specification.
LEMMA Invariance == Spec => []IInv
BY InitOK, StepOK, PTL DEF Spec

\* Catalogue, lease and writers keep their types (cloud_store.py:86-108).
THEOREM TypeCorrect == Spec => []TypeOK
BY Invariance, PTL DEF IInv

\* No change whose caller was told of success is ever lost.
THEOREM UpdatesKept == Spec => []NoLostUpdate
BY Invariance, PTL DEF IInv

\* Nobody writes between the read and the write of a transaction that succeeds.
THEOREM ReadsAreFresh == Spec => []FreshRead
BY Invariance, PTL DEF IInv

\* Under the invariant every step applies one change or leaves the catalogue alone.
LEMMA StepIsAtomic == IInv /\ [Next]_vars => [Atomic!Next]_catalogue
<1> SUFFICES ASSUME IInv, [Next]_vars PROVE [Atomic!Next]_catalogue
  OBVIOUS
<1> USE DEF IInv
<1>1. ASSUME NEW w \in Writers, Write(w), Holds(w) PROVE Atomic!Apply(w)
  <2>1. catalogue' = catalogue \cup {w}
    BY <1>1 DEF Write, Holds, FreshRead
  <2>2. w \notin catalogue
    BY <1>1 DEF Write, Progress
  <2> QED BY <2>1, <2>2 DEF Atomic!Apply
<1>2. ASSUME NEW w \in Writers, WriterStep(w), ~(Write(w) /\ Holds(w)) PROVE UNCHANGED catalogue
  BY <1>2 DEF WriterStep, Acquire, AcquireBusy, Read, Raise, Write, Release, Die
<1>3. CASE Lapse \/ UNCHANGED vars
  BY <1>3 DEF Lapse, vars
<1>4. ASSUME NEW w \in Writers, WriterStep(w) PROVE [Atomic!Next]_catalogue
  BY <1>1, <1>2, <1>4 DEF Atomic!Next
<1> QED BY <1>3, <1>4 DEF Next

\* CloudStore.transaction() implements an atomic change of the catalogue
\* (cloud_store.py:86-108), which is how CloudJobs uses it.
THEOREM TransactionsImplementAtomic == Spec => TransactionsAreAtomic
<1>1. Init => Atomic!Init
  BY DEF Init, Atomic!Init
<1> QED BY <1>1, Invariance, StepIsAtomic, PTL DEF Spec, TransactionsAreAtomic, Atomic!Spec

(***************************************************************************)
(* The upload.  The steps of its requests are those of LeasedCatalog, but   *)
(* for a request that is answered or dies before it asks for the lease.    *)
(***************************************************************************)
EndsEarly(w) ==
    /\ step[w] \in {"look", "stage"}
    /\ Goes(w, "end")
    /\ UNCHANGED <<catalogue, lease, tries, seen, told>>

\* Every step of the upload is one of these for the catalogue.
LEMMA UploadIsLeased ==
    ASSUME [UploadNext]_allVars
    PROVE  [Next]_vars \/ \E w \in Writers : EndsEarly(w)
<1>1. ASSUME NEW w \in Writers, LookChunk(w) PROVE UNCHANGED vars \/ EndsEarly(w)
  BY <1>1 DEF LookChunk, Enters, EndsEarly, vars
<1>2. ASSUME NEW w \in Writers, LookComplete(w) \/ Stage(w) \/ Commit(w) PROVE UNCHANGED vars
  BY <1>2 DEF LookComplete, Stage, Commit
<1>3. ASSUME NEW w \in Writers, TransactionGoesOn(w) \/ TransactionFails(w) PROVE WriterStep(w)
  BY <1>3 DEF TransactionGoesOn, TransactionFails, Changes, Raises, WriterStep
<1>4. ASSUME NEW w \in Writers, Vanish(w) PROVE EndsEarly(w)
  BY <1>4 DEF Vanish, EndsEarly
<1>5. UNCHANGED allVars => UNCHANGED vars
  BY DEF allVars
<1> QED BY <1>1, <1>2, <1>3, <1>4, <1>5 DEF UploadNext, RequestStep, RequestGoesOn, Next

\* A request that ends early disturbs no transaction.
LEMMA EndsEarlyOK == ASSUME IInv, NEW w \in Writers, EndsEarly(w) PROVE IInv' /\ UNCHANGED catalogue
BY DEF IInv, TypeOK, FreshRead, Progress, NoLostUpdate, Places, Goes, EndsEarly

\* So the invariant of the transactions holds in the upload, and they are atomic there.
LEMMA UploadKeeps == IInv /\ [UploadNext]_allVars => IInv' /\ [Atomic!Next]_catalogue
BY UploadIsLeased, EndsEarlyOK, StepOK, StepIsAtomic

\* The transactions of an upload's requests are atomic, whichever of them die or stall and
\* wherever the lease runs out (cloud_store.py:86-108, 139-176).
THEOREM UploadIsAtomic == UploadSpec => TransactionsAreAtomic
<1>1. UploadInit => IInv /\ Atomic!Init
  BY InitOK DEF UploadInit, Init, Atomic!Init
<1> QED BY <1>1, UploadKeeps, PTL DEF UploadSpec, TransactionsAreAtomic, Atomic!Spec

(***************************************************************************)
(* What is listed.                                                         *)
(***************************************************************************)
Indexes(S) == {b.index : b \in S}

Whole == Length(catalogue) = chunks

UploadTyped == UploadTypeOK /\ chunks \in 1..MaxChunks

\* Where a request is in its work: the choice of a chunk comes first, and only a completion
\* commits; a chunk that was answered without a transaction is listed.
Begun ==
    /\ \A w \in Writers : step[w] = "look" => at[w] = "acquire" /\ op[w] = Complete
    /\ \A w \in Writers : step[w] = "stage" => IsChunk(w)
    /\ \A w \in Writers : step[w] = "written" => op[w] = Complete
    /\ \A w \in fine : step[w] = "over" /\ IsChunk(w) /\ op[w] \in Listed(catalogue)

\* Nobody has read changes that are not there.
SeenBefore == \A w \in Writers : seen[w] \subseteq catalogue

\* The chunks are listed in order, one for each place.
Ordered ==
    /\ Indexes(Listed(catalogue)) = 1..Length(catalogue)
    /\ \A a, b \in Listed(catalogue) : a.index = b.index => a = b

\* What is listed, and what a request is about to list, can be committed; a commit drops
\* what is staged only when nothing remains to be listed.
Staged ==
    /\ Listed(catalogue) \subseteq staged \cup source
    /\ \A w \in Writers : step[w] = "go" /\ IsChunk(w) => Whole \/ op[w] \in staged \cup source

\* What was committed is the whole file, and only that makes a row more than "uploading".
Sealed ==
    /\ source # {} => Whole /\ source = Listed(catalogue)
    /\ \A w \in Writers : step[w] = "written" => source # {}
    /\ Finalized(catalogue) => source # {}

UInv == IInv /\ UploadTyped /\ Begun /\ SeenBefore /\ Ordered /\ Staged /\ Sealed

\* A block is no completion, and its place is one of the file's.
LEMMA BlockFacts ==
    ASSUME UploadTyped, NEW w \in Writers, IsChunk(w)
    PROVE  op[w] \in Blocks /\ op[w].index \in 1..chunks
BY DEF UploadTyped, UploadTypeOK, IsChunk, Blocks, Block

\* Changes list blocks of the file only; that all places are listed shows in their number.
LEMMA ListedFacts ==
    ASSUME UploadTyped, NEW S \in SUBSET Writers
    PROVE  /\ Listed(S) \subseteq Blocks
           /\ Indexes(Listed(S)) \subseteq 1..chunks
           /\ Length(S) \in Nat
           /\ Length(S) <= chunks
           /\ Length(S) = chunks => Indexes(Listed(S)) = 1..chunks
<1>1. Listed(S) \subseteq Blocks /\ Indexes(Listed(S)) \subseteq 1..chunks
  BY BlockFacts DEF Listed, Indexes
<1>2. chunks \in Nat /\ 1 \in Int /\ chunks \in Int /\ ~(1 > chunks)
  BY ChunkAssumption DEF UploadTyped
<1>3. IsFiniteSet(1..chunks) /\ Cardinality(1..chunks) = chunks
  BY <1>2, FS_Interval
<1>4. /\ IsFiniteSet(Indexes(Listed(S)))
      /\ Cardinality(Indexes(Listed(S))) <= chunks
      /\ chunks = Cardinality(Indexes(Listed(S))) => 1..chunks = Indexes(Listed(S))
  BY <1>1, <1>3, FS_Subset
<1>5. Length(S) = Cardinality(Indexes(Listed(S)))
  BY DEF Length, Indexes
<1> QED BY <1>1, <1>4, <1>5, FS_CardinalityType

\* The listing stays when neither the changes nor what they are about do.
LEMMA ListedKept ==
    ASSUME catalogue' = catalogue, \A w \in catalogue : op'[w] = op[w]
    PROVE  /\ Listed(catalogue)' = Listed(catalogue)
           /\ Length(catalogue)' = Length(catalogue)
           /\ Finalized(catalogue)' = Finalized(catalogue)
<1>1. Listed(catalogue)' = Listed(catalogue)
  BY DEF Listed, IsChunk, Complete
<1>2. Finalized(catalogue)' = Finalized(catalogue)
  BY DEF Finalized, IsChunk, Complete
<1> QED BY <1>1, <1>2 DEF Length

\* What a new change adds to the listing.
LEMMA ListedGrown ==
    ASSUME NEW w \in Writers, catalogue' = catalogue \cup {w}, op' = op
    PROVE  /\ IsChunk(w) => Listed(catalogue)' = Listed(catalogue) \cup {op[w]}
           /\ ~IsChunk(w) => Listed(catalogue)' = Listed(catalogue)
           /\ IsChunk(w) => Finalized(catalogue)' = Finalized(catalogue)
<1>1. /\ IsChunk(w) => Listed(catalogue)' = Listed(catalogue) \cup {op[w]}
      /\ ~IsChunk(w) => Listed(catalogue)' = Listed(catalogue)
  BY DEF Listed, IsChunk, Complete
<1>2. IsChunk(w) => Finalized(catalogue)' = Finalized(catalogue)
  BY DEF Finalized, IsChunk, Complete
<1> QED BY <1>1, <1>2

\* A commit, also a late one, commits all that was listed: it read a complete listing,
\* which nothing is added to.
LEMMA CommitWhole ==
    ASSUME UInv, NEW w \in Writers, Commit(w)
    PROVE  Whole /\ source' = Listed(catalogue) /\ source' # {}
<1>0. UploadTyped /\ SeenBefore /\ Ordered /\ catalogue \subseteq Writers /\ chunks \in Nat \ {0}
  BY ChunkAssumption DEF UInv, UploadTyped, UploadTypeOK, TypeOK
<1> DEFINE S == seen[w]
<1>1. S \subseteq catalogue /\ Listed(S) \subseteq Listed(catalogue)
  BY <1>0 DEF SeenBefore, Listed
<1>2. Length(S) = chunks /\ source' = Listed(S)
  BY DEF Commit, Allowed, Commits, RowBlocks
<1>3. Indexes(Listed(S)) = 1..chunks
  BY <1>0, <1>1, <1>2, ListedFacts
<1>4. \A b \in Listed(catalogue) : b.index \in 1..chunks
  BY <1>0, ListedFacts DEF Indexes
<1>5. Listed(catalogue) \subseteq Listed(S)
  BY <1>0, <1>1, <1>3, <1>4 DEF Ordered, Indexes
<1>6. Listed(S) = Listed(catalogue)
  BY <1>1, <1>5
<1>7. Whole
  BY <1>2, <1>6 DEF Whole, Length
<1>8. Listed(S) # {}
  BY <1>0, <1>3 DEF Indexes
<1> QED BY <1>2, <1>6, <1>7, <1>8

\* A write that succeeds is about the listing as it is.
LEMMA WriteFresh ==
    ASSUME UInv, NEW w \in Writers, Changes(w), UNCHANGED uploadVars, catalogue' # catalogue
    PROVE  seen[w] = catalogue /\ catalogue' = catalogue \cup {w}
<1>1. at[w] = "change" /\ Holds(w) /\ catalogue' = seen[w] \cup {w}
  BY DEF Changes, Write
<1>2. seen[w] = catalogue
  BY <1>1 DEF UInv, IInv, FreshRead, Holds
<1> QED BY <1>1, <1>2

\* The types of the upload.
LEMMA UploadTypedStep == UploadTyped /\ Begun /\ IInv' /\ [UploadNext]_allVars => UploadTyped'
<1> SUFFICES ASSUME UploadTyped, Begun, IInv', [UploadNext]_allVars PROVE UploadTyped'
  OBVIOUS
<1> USE DEF UploadTyped, UploadTypeOK
<1>0. TypeOK'
  BY DEF IInv
<1>1. ASSUME chunks' = chunks PROVE Blocks' = Blocks
  BY <1>1 DEF Blocks
<1>2. ASSUME NEW w \in Writers, LookChunk(w) PROVE UploadTyped'
  <2>1. Blocks' = Blocks /\ chunks' = chunks
    BY <1>1, <1>2 DEF LookChunk
  <2> QED BY <1>0, <1>2, <2>1 DEF LookChunk, Step
<1>3. ASSUME NEW w \in Writers, LookComplete(w) \/ Vanish(w) PROVE UploadTyped'
  <2>1. Blocks' = Blocks /\ chunks' = chunks
    BY <1>1, <1>3 DEF LookComplete, Vanish
  <2> QED BY <1>0, <1>3, <2>1 DEF LookComplete, Vanish, Step
<1>4. ASSUME NEW w \in Writers, Stage(w) PROVE UploadTyped'
  <2>1. Blocks' = Blocks /\ chunks' = chunks
    BY <1>1, <1>4 DEF Stage
  <2>2. op[w] \in Blocks
    BY <1>4, BlockFacts DEF Stage, Begun
  <2> QED BY <1>0, <1>4, <2>1, <2>2 DEF Stage, Step
<1>5. ASSUME NEW w \in Writers, Commit(w) PROVE UploadTyped'
  <2>1. Blocks' = Blocks /\ chunks' = chunks
    BY <1>1, <1>5 DEF Commit
  <2>2. source' \subseteq staged \cup source
    BY <1>5 DEF Commit
  <2> QED BY <1>0, <1>5, <2>1, <2>2 DEF Commit, Step
<1>6. ASSUME UNCHANGED uploadVars PROVE UploadTyped'
  <2>1. Blocks' = Blocks
    BY <1>1, <1>6 DEF uploadVars
  <2> QED BY <1>0, <1>6, <2>1 DEF uploadVars
<1> QED BY <1>2, <1>3, <1>4, <1>5, <1>6 DEF UploadNext, RequestStep, RequestGoesOn, TransactionGoesOn,
        TransactionFails, InTransaction, allVars

\* What the catalogue may have been read as was there before.
LEMMA SeenBeforeStep == IInv /\ IInv' /\ SeenBefore /\ [UploadNext]_allVars => SeenBefore'
<1> SUFFICES ASSUME IInv, IInv', SeenBefore, [UploadNext]_allVars PROVE SeenBefore'
  OBVIOUS
<1>1. catalogue \subseteq catalogue'
  BY UploadKeeps DEF Atomic!Next, Atomic!Apply
<1>2. \A w \in Writers : seen'[w] = seen[w] \/ seen'[w] = catalogue
  <2>1. CASE UNCHANGED vars \/ Lapse \/ \E w \in Writers : EndsEarly(w)
    BY <2>1 DEF vars, Lapse, EndsEarly
  <2>2. ASSUME NEW w \in Writers, WriterStep(w)
        PROVE  \A v \in Writers : seen'[v] = seen[v] \/ seen'[v] = catalogue
    BY <2>2 DEF WriterStep, Acquire, AcquireBusy, Read, Raise, Write, Release, Die, IInv, TypeOK
  <2> QED BY <2>1, <2>2, UploadIsLeased DEF Next
<1> QED BY <1>1, <1>2 DEF SeenBefore

\* The steps that change no listing, no block and no transaction's place in its work.
LEMMA QuietStep ==
    ASSUME UInv, UNCHANGED <<catalogue, uploadVars>>,
           \A w \in Writers : step[w] = "look" => at'[w] = at[w]
    PROVE  Begun' /\ Ordered' /\ Staged' /\ Sealed'
<1>1. /\ Listed(catalogue)' = Listed(catalogue)
      /\ Length(catalogue)' = Length(catalogue)
      /\ Finalized(catalogue)' = Finalized(catalogue)
  BY ListedKept DEF uploadVars
<1>2. Begun'
  BY <1>1 DEF UInv, Begun, IsChunk, Complete, uploadVars
<1>3. Ordered'
  BY <1>1 DEF UInv, Ordered
<1>4. Staged'
  BY <1>1 DEF UInv, Staged, Whole, IsChunk, Complete, uploadVars
<1>5. Sealed'
  BY <1>1 DEF UInv, Sealed, Whole, uploadVars
<1> QED BY <1>2, <1>3, <1>4, <1>5

\* A request looks at the row, and a chunk is chosen.
LEMMA LookStep ==
    ASSUME UInv, NEW w \in Writers, LookChunk(w)
    PROVE  Begun' /\ Ordered' /\ Staged' /\ Sealed'
<1>0. UploadTyped /\ w \notin catalogue /\ step[w] = "look"
  BY DEF UInv, IInv, Progress, LookChunk, Enters
<1>1. PICK b \in Blocks :
        /\ op' = [op EXCEPT ![w] = b]
        /\ step'[w] \in {"stage", "over"} /\ \A v \in Writers \ {w} : step'[v] = step[v] /\ at'[v] = at[v]
        /\ fine' = fine \/ (fine' = fine \cup {w} /\ b \in Listed(catalogue) /\ step'[w] = "over")
  <2>1. step \in [Writers -> {"look", "stage", "go", "written", "over"}] /\ at \in [Writers -> Places]
    BY <1>0 DEF UploadTyped, UploadTypeOK, UInv, IInv, TypeOK
  <2>2. \A b \in Listed(catalogue) : b.index # Length(catalogue) + 1
    <3>1. Length(catalogue) \in Nat
      BY <1>0, ListedFacts DEF UInv, IInv, TypeOK
    <3> QED BY <3>1 DEF UInv, Ordered, Indexes
  <2> QED BY <2>1, <2>2 DEF LookChunk, Step, Goes
<1>2. b # Complete /\ UNCHANGED <<catalogue, chunks, staged, source>>
  BY <1>1 DEF Blocks, Block, Complete, LookChunk
<1>3. op'[w] = b /\ \A v \in Writers \ {w} : op'[v] = op[v]
  BY <1>0, <1>1 DEF UploadTyped, UploadTypeOK
<1>4. catalogue \subseteq Writers /\ w \notin fine
  BY <1>0 DEF UInv, IInv, TypeOK, Begun
<1>5. /\ Listed(catalogue)' = Listed(catalogue)
      /\ Length(catalogue)' = Length(catalogue)
      /\ Finalized(catalogue)' = Finalized(catalogue)
  BY <1>0, <1>2, <1>3, <1>4, ListedKept
<1>6. Begun'
  <2>1. \A v \in Writers : step'[v] = "look" => at'[v] = "acquire" /\ op'[v] = Complete
    BY <1>1, <1>3 DEF UInv, Begun
  <2>2. \A v \in Writers : step'[v] = "stage" => op'[v] # Complete
    BY <1>1, <1>2, <1>3 DEF UInv, Begun, IsChunk
  <2>3. \A v \in Writers : step'[v] = "written" => op'[v] = Complete
    BY <1>1, <1>3 DEF UInv, Begun
  <2>4. fine \subseteq Writers
    BY <1>0 DEF UploadTyped, UploadTypeOK
  <2>5. \A v \in fine' : step'[v] = "over" /\ op'[v] # Complete /\ op'[v] \in Listed(catalogue)
    BY <1>1, <1>2, <1>3, <1>4, <2>4 DEF UInv, Begun, IsChunk
  <2> QED BY <1>5, <2>1, <2>2, <2>3, <2>5 DEF Begun, IsChunk, Complete
<1>7. Ordered'
  BY <1>5 DEF UInv, Ordered
<1>8. Staged'
  BY <1>1, <1>2, <1>3, <1>5 DEF UInv, Staged, Whole, IsChunk, Complete
<1>9. Sealed'
  BY <1>1, <1>2, <1>5 DEF UInv, Sealed, Whole
<1> QED BY <1>6, <1>7, <1>8, <1>9

\* A commit drops what is staged, when all there is to list is listed.
LEMMA CommitStep ==
    ASSUME UInv, NEW w \in Writers, Commit(w)
    PROVE  Begun' /\ Ordered' /\ Staged' /\ Sealed'
<1>0. UploadTyped /\ Whole /\ source' = Listed(catalogue) /\ source' # {}
  BY CommitWhole DEF UInv
<1>1. UNCHANGED <<catalogue, at, op, fine, chunks>> /\ staged' = {} /\ ~IsChunk(w)
  BY DEF Commit, Commits, vars
<1>2. step'[w] = "written" /\ \A v \in Writers \ {w} : step'[v] = step[v]
  BY <1>0 DEF Commit, Step, UploadTyped, UploadTypeOK
<1>3. /\ Listed(catalogue)' = Listed(catalogue)
      /\ Length(catalogue)' = Length(catalogue)
      /\ Finalized(catalogue)' = Finalized(catalogue)
  BY <1>1, ListedKept
<1>4. fine \subseteq Writers /\ w \notin fine
  BY <1>0, <1>1 DEF UploadTyped, UploadTypeOK, UInv, Begun
<1>5. Begun'
  BY <1>1, <1>2, <1>3, <1>4 DEF UInv, Begun, IsChunk, Complete
<1>6. Ordered'
  BY <1>3 DEF UInv, Ordered
<1>7. Staged' /\ Sealed'
  BY <1>0, <1>1, <1>3 DEF Staged, Sealed, Whole
<1> QED BY <1>5, <1>6, <1>7

\* A transaction that succeeds lists the next chunk, one that is listed, or completes the
\* upload when its blocks are committed.
LEMMA WriteStep ==
    ASSUME UInv, NEW w \in Writers, Changes(w), InTransaction(w), catalogue' # catalogue
    PROVE  Begun' /\ Ordered' /\ Staged' /\ Sealed'
<1>0. UploadTyped /\ catalogue \subseteq Writers /\ step[w] \in {"go", "written"} /\ UNCHANGED uploadVars
  BY DEF UInv, IInv, TypeOK, InTransaction
<1>1. seen[w] = catalogue /\ catalogue' = catalogue \cup {w} /\ Allowed(w)
  BY <1>0, WriteFresh DEF Changes
<1>2. at' = [at EXCEPT ![w] = "leave"] \/ at' = [at EXCEPT ![w] = "abort"]
  BY <1>1 DEF Changes, Write, Goes
<1>3. \A v \in Writers : step[v] = "look" => at'[v] = at[v]
  BY <1>0, <1>2 DEF UInv, IInv, TypeOK
<1>4. /\ IsChunk(w) => Listed(catalogue)' = Listed(catalogue) \cup {op[w]}
      /\ ~IsChunk(w) => Listed(catalogue)' = Listed(catalogue)
      /\ IsChunk(w) => Finalized(catalogue)' = Finalized(catalogue)
  BY <1>0, <1>1, ListedGrown DEF uploadVars
<1>5. Begun'
  BY <1>0, <1>3, <1>4 DEF UInv, Begun, IsChunk, Complete, uploadVars
<1>6. ASSUME Listed(catalogue)' = Listed(catalogue) PROVE Length(catalogue)' = Length(catalogue)
  BY <1>6 DEF Length
<1>7. CASE ~IsChunk(w)
  <2>1. Listed(catalogue)' = Listed(catalogue) /\ Length(catalogue)' = Length(catalogue)
    BY <1>4, <1>6, <1>7
  <2>2. source # {}
    BY <1>0, <1>1, <1>7 DEF Changes, Commits, UInv, Sealed
  <2>3. Ordered'
    BY <2>1 DEF UInv, Ordered
  <2>4. Staged'
    BY <1>0, <2>1 DEF UInv, Staged, Whole, IsChunk, Complete, uploadVars
  <2>5. Sealed'
    BY <1>0, <2>1, <2>2 DEF UInv, Sealed, Whole, uploadVars
  <2> QED BY <1>5, <2>3, <2>4, <2>5
<1>8. CASE IsChunk(w) /\ op[w] \in Listed(catalogue)
  <2>1. Listed(catalogue)' = Listed(catalogue) /\ Length(catalogue)' = Length(catalogue)
    BY <1>4, <1>6, <1>8
  <2>2. Finalized(catalogue)' = Finalized(catalogue)
    BY <1>4, <1>8
  <2>3. Ordered'
    BY <2>1 DEF UInv, Ordered
  <2>4. Staged'
    BY <1>0, <2>1 DEF UInv, Staged, Whole, IsChunk, Complete, uploadVars
  <2>5. Sealed'
    BY <1>0, <2>1, <2>2 DEF UInv, Sealed, Whole, uploadVars
  <2> QED BY <1>5, <2>3, <2>4, <2>5
<1>9. CASE IsChunk(w) /\ op[w] \notin Listed(catalogue)
  <2> DEFINE n == Length(catalogue)
  <2>1. op[w].index = n + 1 /\ ~Finalized(catalogue) /\ step[w] = "go"
    BY <1>0, <1>1, <1>9 DEF Allowed, UInv, Begun, IsChunk
  <2>2. n \in Nat /\ n + 1 <= chunks /\ chunks \in Nat
    BY <1>0, <1>9, <2>1, BlockFacts, ListedFacts DEF UploadTyped
  <2>3. ~Whole /\ source = {} /\ op[w] \in staged
    BY <1>0, <1>9, <2>1, <2>2 DEF UInv, Staged, Sealed, Whole
  <2>4. \A b \in Listed(catalogue) : b.index # n + 1
    BY <2>2 DEF UInv, Ordered, Indexes
  <2>5. Indexes(Listed(catalogue)') = 1..(n + 1)
    <3>1. Indexes(Listed(catalogue)') = Indexes(Listed(catalogue)) \cup {n + 1}
      BY <1>4, <1>9, <2>1 DEF Indexes
    <3> QED BY <2>2, <3>1 DEF UInv, Ordered
  <2>6. Length(catalogue)' = n + 1
    <3>1. Length(catalogue)' = Cardinality(Indexes(Listed(catalogue)'))
      BY DEF Length, Indexes
    <3>2. 1 \in Int /\ n + 1 \in Int /\ ~(1 > n + 1) /\ n + 1 - 1 + 1 = n + 1
      BY <2>2
    <3> QED BY <2>5, <3>1, <3>2, FS_Interval
  <2>7. Ordered'
    <3>1. \A a, b \in Listed(catalogue)' : a.index = b.index => a = b
      BY <1>4, <1>9, <2>1, <2>4 DEF UInv, Ordered
    <3>2. Indexes(Listed(catalogue))' = 1..Length(catalogue)'
      BY <2>5, <2>6 DEF Indexes
    <3> QED BY <3>1, <3>2 DEF Ordered
  <2>8. Staged'
    BY <1>0, <1>4, <1>9, <2>3 DEF UInv, Staged, IsChunk, Complete, uploadVars
  <2>9. Sealed'
    BY <1>0, <1>4, <1>9, <2>1, <2>3 DEF UInv, Sealed, uploadVars
  <2> QED BY <1>5, <2>7, <2>8, <2>9
<1> QED BY <1>7, <1>8, <1>9

\* Every step of the upload keeps what is listed, staged and committed in order.
LEMMA UploadStepOK == UInv /\ [UploadNext]_allVars => UInv'
<1> SUFFICES ASSUME UInv, [UploadNext]_allVars PROVE UInv'
  OBVIOUS
<1>1. IInv' /\ UploadTyped' /\ SeenBefore'
  BY UploadKeeps, UploadTypedStep, SeenBeforeStep DEF UInv
<1> DEFINE Rest == Begun' /\ Ordered' /\ Staged' /\ Sealed'
<1>2. ASSUME NEW w \in Writers, LookChunk(w) PROVE Rest
  BY <1>2, LookStep
<1>3. ASSUME NEW w \in Writers, Commit(w) PROVE Rest
  BY <1>3, CommitStep
<1>4. ASSUME NEW w \in Writers, LookComplete(w) \/ Stage(w) \/ Vanish(w) PROVE Rest
  <2>1. /\ UNCHANGED <<catalogue, op, source, fine, chunks>>
        /\ staged' = staged \/ (Stage(w) /\ staged' = staged \cup {op[w]})
        /\ step'[w] \in {"go", "over"} /\ (step'[w] = "go" => LookComplete(w) \/ Stage(w))
        /\ step[w] \in {"look", "stage"}
        /\ \A v \in Writers \ {w} : step'[v] = step[v] /\ at'[v] = at[v]
    <3> USE DEF Step, UInv, UploadTyped, UploadTypeOK, IInv, TypeOK
    <3>1. CASE LookComplete(w)
      BY <3>1 DEF LookComplete, Enters, vars
    <3>2. CASE Stage(w)
      BY <3>2 DEF Stage, vars
    <3>3. CASE Vanish(w)
      BY <3>3 DEF Vanish, Goes
    <3> QED BY <1>4, <3>1, <3>2, <3>3
  <2>2. /\ Listed(catalogue)' = Listed(catalogue)
        /\ Length(catalogue)' = Length(catalogue)
        /\ Finalized(catalogue)' = Finalized(catalogue)
    BY <2>1, ListedKept
  <2>3. fine \subseteq Writers /\ w \notin fine
    BY <2>1 DEF UInv, UploadTyped, UploadTypeOK, Begun
  <2>4. Begun'
    BY <2>1, <2>2, <2>3 DEF UInv, Begun, IsChunk, Complete
  <2>5. Ordered'
    BY <2>2 DEF UInv, Ordered
  <2>6. LookComplete(w) => ~IsChunk(w)
    BY DEF LookComplete, Enters, UInv, Begun, IsChunk
  <2>7. Staged'
    BY <1>4, <2>1, <2>2, <2>6 DEF UInv, Staged, Whole, IsChunk, Complete, Stage
  <2>8. Sealed'
    BY <2>1, <2>2 DEF UInv, Sealed, Whole
  <2> QED BY <2>4, <2>5, <2>7, <2>8
<1>5. ASSUME NEW w \in Writers, TransactionGoesOn(w) \/ TransactionFails(w) PROVE Rest
  <2>1. step[w] \in {"go", "written"} /\ UNCHANGED uploadVars /\ InTransaction(w)
    BY <1>5 DEF TransactionGoesOn, TransactionFails, InTransaction
  <2>2. \A v \in Writers \ {w} : at'[v] = at[v]
    BY <1>5 DEF TransactionGoesOn, TransactionFails, Changes, Raises, Acquire, AcquireBusy, Read,
       Write, Release, Raise, Die, Goes, UInv, IInv, TypeOK
  <2>3. CASE catalogue' = catalogue
    BY <2>1, <2>2, <2>3, QuietStep
  <2>4. CASE catalogue' # catalogue
    <3>1. Changes(w)
      BY <1>5, <2>4 DEF TransactionGoesOn, TransactionFails, Raises, Acquire, AcquireBusy, Read,
         Release, Raise, Die
    <3> QED BY <2>1, <2>4, <3>1, WriteStep
  <2> QED BY <2>3, <2>4
<1>6. ASSUME (Lapse /\ UNCHANGED uploadVars) \/ UNCHANGED allVars PROVE Rest
  <2>1. UNCHANGED <<catalogue, at, uploadVars>>
    BY <1>6 DEF Lapse, allVars, vars
  <2> QED BY <2>1, QuietStep
<1>7. Rest
  BY <1>2, <1>3, <1>4, <1>5, <1>6 DEF UploadNext, RequestStep, RequestGoesOn
<1> QED BY <1>1, <1>7 DEF UInv

\* The upload's invariant holds of every behaviour.
LEMMA UploadInvariance == UploadSpec => []UInv
<1>1. UploadInit => UInv
  <2> SUFFICES ASSUME UploadInit PROVE UInv
    OBVIOUS
  <2>1. IInv /\ TypeOK
    BY InitOK DEF UploadInit, IInv
  <2>2. catalogue = {} /\ at = [w \in Writers |-> "acquire"] /\ seen = [w \in Writers |-> {}]
    BY DEF UploadInit, Init
  <2>3. UploadTyped /\ Begun /\ SeenBefore
    BY <2>1, <2>2 DEF UploadInit, UploadTyped, UploadTypeOK, Begun, SeenBefore
  <2>4. Listed(catalogue) = {} /\ Length(catalogue) = 0 /\ ~Finalized(catalogue)
    <3>1. Listed(catalogue) = {} /\ ~Finalized(catalogue)
      BY <2>2 DEF Listed, Finalized
    <3>2. {b.index : b \in Listed(catalogue)} = {}
      BY <3>1
    <3> QED BY <3>1, <3>2, FS_EmptySet DEF Length
  <2>5. Ordered /\ Staged /\ Sealed
    BY <2>4 DEF UploadInit, Ordered, Indexes, Staged, Sealed, IsChunk
  <2> QED BY <2>1, <2>3, <2>5 DEF UInv
<1> QED BY <1>1, UploadStepOK, PTL DEF UploadSpec

\* Requests, blocks and the source keep their types, for any number of chunks and contents.
THEOREM UploadTypeCorrect == UploadSpec => []UploadTypeOK
<1>1. UInv => UploadTypeOK
  BY DEF UInv, UploadTyped
<1> QED BY <1>1, UploadInvariance, PTL

\* A chunk answered 204 is listed for good and every listed block can be committed, for any
\* number of requests, chunks and contents, whatever repeats, contradicts, stalls or dies.
THEOREM ChunksStay == UploadSpec => []AcknowledgedChunksStay
<1>1. UInv => AcknowledgedChunksStay
  <2> SUFFICES ASSUME UInv PROVE AcknowledgedChunksStay
    OBVIOUS
  <2>1. ASSUME NEW w \in told \cup fine, IsChunk(w) PROVE op[w] \in Listed(catalogue)
    BY <2>1 DEF UInv, IInv, NoLostUpdate, Begun, Listed
  <2> QED BY <2>1 DEF AcknowledgedChunksStay, Acknowledged, UInv, Staged
<1> QED BY <1>1, UploadInvariance, PTL

\* A row past "uploading" has the whole file committed and it never changes again, also when
\* the completion's own change of the row was lost after its commit.
THEOREM SourceWhole == UploadSpec => []SourceIsWhatWasSent
<1>1. UInv /\ AcknowledgedChunksStay => SourceIsWhatWasSent
  <2> SUFFICES ASSUME UInv, AcknowledgedChunksStay, Finalized(catalogue)
               PROVE  /\ source = Listed(catalogue)
                      /\ Acknowledged \subseteq source
                      /\ Cardinality(source) = chunks /\ {b.index : b \in source} = 1..chunks
    BY DEF SourceIsWhatWasSent
  <2>1. source = Listed(catalogue) /\ Whole /\ Ordered
    BY DEF UInv, Sealed
  <2>2. Acknowledged \subseteq source
    BY <2>1 DEF AcknowledgedChunksStay
  <2>3. {b.index : b \in source} = 1..chunks /\ \A a, b \in source : a.index = b.index => a = b
    BY <2>1 DEF Whole, Ordered, Indexes
  <2>4. Cardinality(source) = chunks
    <3>1. chunks \in Nat /\ 1 \in Int /\ chunks \in Int /\ ~(1 > chunks) /\ chunks - 1 + 1 = chunks
      BY ChunkAssumption DEF UInv, UploadTyped
    <3>2. IsFiniteSet(1..chunks) /\ Cardinality(1..chunks) = chunks
      BY <3>1, FS_Interval
    <3>3. [b \in source |-> b.index] \in Injection(source, 1..chunks) \cap Surjection(source, 1..chunks)
      BY <2>3 DEF Injection, IsInjective, Surjection
    <3> QED BY <3>2, <3>3, FS_Injection
  <2> QED BY <2>1, <2>2, <2>3, <2>4
<1> QED BY <1>1, ChunksStay, UploadInvariance, PTL
=============================================================================
