----------------------------- MODULE CloudUpload -----------------------------
(***************************************************************************)
(* The upload of one PDF in the scale-to-zero variant (chunk() and          *)
(* complete_upload() of app/cloud_store.py): requests that read the row,    *)
(* stage a block of the source blob, and list it in a transaction of        *)
(* LeasedCatalog; the completion commits the listed blocks from within its  *)
(* transaction.  Requests of one upload may repeat, overlap and contradict  *)
(* each other, each may die anywhere, and a lease may end under any of them. *)
(*                                                                         *)
(* What the row says follows from the changes the catalogue contains.       *)
(***************************************************************************)
EXTENDS LeasedCatalog, FiniteSets

CONSTANTS
    MaxChunks,  \* MAX_BYTES / CHUNK_BYTES
    Contents    \* what a chunk may hold; its block is named for it

ASSUME ChunkAssumption == MaxChunks \in Nat \ {0}

VARIABLES
    chunks,     \* how many the size of the file makes
    op,         \* what each request is
    step,       \* where it is outside of its transaction
    staged,     \* uncommitted blocks of the source blob
    source,     \* its committed blocks
    fine        \* chunks answered 204 without a transaction

uploadVars == <<chunks, op, step, staged, source, fine>>
allVars == <<vars, uploadVars>>

Block(i, c) == [index |-> i, content |-> c]
Complete == [index |-> 0, content |-> "all"]
Blocks == {Block(i, c) : i \in 1..chunks, c \in Contents}
IsChunk(w) == op[w] # Complete

UploadInit ==
    /\ Init
    /\ chunks \in 1..MaxChunks
    /\ op = [w \in Writers |-> Complete]
    /\ step = [w \in Writers |-> "look"]
    /\ staged = {}
    /\ source = {}
    /\ fine = {}

\* The blocks that were listed, their number, whether the row's status is past "uploading",
\* and its `blocks', which the completion clears.
Listed(changes) == {op[w] : w \in {v \in changes : IsChunk(v)}}
Length(changes) == Cardinality({b.index : b \in Listed(changes)})
Finalized(changes) == \E w \in changes : ~IsChunk(w)
RowBlocks(changes) == IF Finalized(changes) THEN {} ELSE Listed(changes)

-----------------------------------------------------------------------------
(* Before the transaction.                                                 *)

Step(w, place) == step' = [step EXCEPT ![w] = place]
Enters(w) == step[w] = "look" /\ at[w] = "acquire"

\* chunk() reads the row first: the next chunk goes on, a repeated one is answered, and one
\* that is too early, contradicts a listed one or comes too late is refused.
LookChunk(w) ==
    /\ Enters(w)
    /\ \E b \in Blocks :
          LET length == Length(catalogue)
              next == ~Finalized(catalogue) /\ b.index = length + 1
              again == ~Finalized(catalogue) /\ b \in Listed(catalogue)
          IN /\ op' = [op EXCEPT ![w] = b]
             /\ Step(w, IF next THEN "stage" ELSE "over")
             /\ IF next THEN UNCHANGED at ELSE Goes(w, "end")
             /\ fine' = IF again THEN fine \cup {w} ELSE fine
    /\ UNCHANGED <<catalogue, lease, tries, seen, told, staged, source, chunks>>

LookComplete(w) ==
    /\ Enters(w)
    /\ Step(w, "go")
    /\ UNCHANGED <<vars, op, staged, source, fine, chunks>>

\* Mutated form: a block of that index is there already.
StageFirst(w) ==
    /\ step[w] = "stage"
    /\ staged' = IF \E b \in staged : b.index = op[w].index THEN staged ELSE staged \cup {op[w]}
    /\ Step(w, "go")
    /\ UNCHANGED <<vars, op, source, fine, chunks>>

\* stage_block(), before the block is listed.
Stage(w) ==
    /\ step[w] = "stage"
    /\ staged' = staged \cup {op[w]}
    /\ Step(w, "go")
    /\ UNCHANGED <<vars, op, source, fine, chunks>>

-----------------------------------------------------------------------------
(* In the transaction, on the row as it was read.                          *)

\* Mutated form: the number of chunks is not asked.
AllowedEarly(w) ==
    IF IsChunk(w)
    THEN ~Finalized(seen[w]) /\ (op[w].index = Length(seen[w]) + 1 \/ op[w] \in Listed(seen[w]))
    ELSE TRUE

\* The next chunk, or the one that is listed; all chunks, or an upload completed before.
Allowed(w) ==
    IF IsChunk(w)
    THEN ~Finalized(seen[w]) /\ (op[w].index = Length(seen[w]) + 1 \/ op[w] \in Listed(seen[w]))
    ELSE Finalized(seen[w]) \/ Length(seen[w]) = chunks

\* Only the completion has something to do before the catalogue is written.
Commits(w) == ~IsChunk(w) /\ ~Finalized(seen[w])

\* commit_block_list(): refused when a block is neither staged nor committed; whatever else
\* is staged is dropped.
Commit(w) ==
    /\ at[w] = "change" /\ step[w] = "go"
    /\ Allowed(w) /\ Commits(w)
    /\ RowBlocks(seen[w]) \subseteq staged \cup source
    /\ source' = RowBlocks(seen[w])
    /\ staged' = {}
    /\ Step(w, "written")
    /\ UNCHANGED <<vars, op, fine, chunks>>

Raises(w) ==
    /\ at[w] = "change" => \/ ~Allowed(w)
                           \/ Commits(w) /\ step[w] = "go"
    /\ Raise(w)

Changes(w) ==
    /\ Allowed(w)
    /\ Commits(w) => step[w] = "written"
    /\ Write(w)

\* Between these, the steps of a transaction are those of LeasedCatalog.
InTransaction(w) == step[w] \in {"go", "written"} /\ UNCHANGED uploadVars
TransactionGoesOn(w) ==
    /\ InTransaction(w)
    /\ \/ Acquire(w) \/ AcquireBusy(w) \/ Read(w) \/ Changes(w) \/ Release(w)
       \/ at[w] = "change" /\ Raises(w)
TransactionFails(w) ==
    /\ InTransaction(w)
    /\ \/ at[w] = "read" /\ Raises(w)
       \/ Die(w)

\* The request ends before it has a lease.
Vanish(w) ==
    /\ step[w] = "stage"
    /\ Step(w, "over")
    /\ Goes(w, "end")
    /\ UNCHANGED <<catalogue, lease, tries, seen, told, op, staged, source, fine, chunks>>

RequestGoesOn(w) == LookChunk(w) \/ LookComplete(w) \/ Stage(w) \/ Commit(w) \/ TransactionGoesOn(w)
RequestStep(w) == RequestGoesOn(w) \/ TransactionFails(w) \/ Vanish(w)

UploadNext ==
    \/ \E w \in Writers : RequestStep(w)
    \/ Lapse /\ UNCHANGED uploadVars

UploadSpec == UploadInit /\ [][UploadNext]_allVars

\* A request that lives goes on; a lease that nobody renews runs out.
FairUploadSpec ==
    /\ UploadSpec
    /\ \A w \in Writers : WF_allVars(RequestGoesOn(w))
    /\ WF_allVars(Lapse /\ UNCHANGED uploadVars)

-----------------------------------------------------------------------------
UploadTypeOK ==
    /\ TypeOK
    /\ op \in [Writers -> Blocks \cup {Complete}]
    /\ step \in [Writers -> {"look", "stage", "go", "written", "over"}]
    /\ staged \subseteq Blocks /\ source \subseteq Blocks
    /\ fine \subseteq Writers

Acknowledged == {op[w] : w \in {v \in told \cup fine : IsChunk(v)}}

\* A chunk that was answered 204 is listed for good, and every listed block can be committed:
\* an upload whose chunks were all acknowledged can be completed, whatever was repeated, died
\* or was refused on the way (cloud_store.py:158-169).
AcknowledgedChunksStay ==
    /\ Acknowledged \subseteq Listed(catalogue)
    /\ Listed(catalogue) \subseteq staged \cup source

\* A row past "uploading" has the whole file: as many blocks as its size makes, one for each
\* place, those of the acknowledged chunks among them; also when a completion committed the
\* blocks and its change of the row was lost, and whatever a stalled one commits again: what
\* an execution may be reading does not change (cloud_store.py:171-176).
SourceIsWhatWasSent ==
    Finalized(catalogue) =>
        /\ source = Listed(catalogue)
        /\ Acknowledged \subseteq source
        /\ Cardinality(source) = chunks /\ {b.index : b \in source} = 1..chunks
=============================================================================
