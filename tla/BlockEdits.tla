------------------------------ MODULE BlockEdits ------------------------------
(***************************************************************************)
(* Edits of a document's transcript (app/ingest/block_edits.py): a block gets *)
(* a new text, the chunks that hold it are rebuilt and lose their vector, the *)
(* citations of these chunks become stale, and a reembed_chunks job is queued *)
(* (app/jobs/handlers/reembed_chunks.py).  Beside them run what reads chunk   *)
(* text before a slow call and writes after it: the re-embedding tasks, the   *)
(* validator that revalidates a draft's citations (revalidate_draft) and the *)
(* generation of a draft, which adds citations.                              *)
(*                                                                          *)
(* A text is the number of edits a block has seen; a chunk's text is the      *)
(* texts of its blocks, a vector the text it was computed from.  An edit      *)
(* holds the lock of the document's row from its first statement to its      *)
(* commit, so it is one step.  Per job kind there are as many semaphore slots *)
(* as edits in the instances, so slots are left out.                         *)
(***************************************************************************)
EXTENDS JobTable, DocumentEvents, FiniteSets

CONSTANTS
    Blocks,
    Chunks,
    BlocksOf,     \* chunks.block_ids
    Citations,
    ChunkOf,      \* citations.chunk_id
    NoVector,     \* embedding IS NULL
    NotReading    \* no validator has read the citation's chunk
    \* Budgets also bounds edits and faults (crashes, lapsed leases, embedding errors)

ASSUME BlocksOfAssumption == BlocksOf \in [Chunks -> SUBSET Blocks]
ASSUME ChunkOfAssumption == ChunkOf \in [Citations -> Chunks]
ASSUME ReembedAssumption == Kinds = {"reembed_chunks"} /\ Owners = (SUBSET Chunks) \ {{}}
ASSUME EditTypesAssumption == {"block_edited", "reembed_failed"} \subseteq Types
ASSUME EditBoundsAssumption == \A b \in Budgets : b.edits \in Nat /\ b.faults \in Nat

VARIABLES
    ready,     \* the document is ready: its blocks, chunks and citations exist
    block,     \* app.blocks.text
    chunk,     \* app.chunks.text
    vector,    \* app.chunks.embedding
    citation,  \* app.citations: verdict, and the chunk text it was given for
    reading,   \* per citation, the chunk text that a validator is working on
    overtaken, \* auxiliary: citations edited under a validator's hands
    jobs, tasks, edits, faults

textVars == <<ready, block, chunk, vector>>
citeVars == <<citation, reading, overtaken>>
editBounds == <<edits, faults>>
vars == <<logVars, streamVars, textVars, citeVars, jobs, tasks, editBounds>>

EditTypes == {"block_edited", "reembed_failed"}

Verdicts == {"supported", "unsupported"}

Text == UNION {[bs -> Nat] : bs \in {BlocksOf[c] : c \in Chunks}}

TypeOK ==
    /\ EventsTypeOK
    /\ ready \in BOOLEAN
    /\ block \in [Blocks -> Nat]
    /\ \A c \in Chunks : /\ chunk[c] \in [BlocksOf[c] -> Nat]
                         /\ vector[c] \in [BlocksOf[c] -> Nat] \cup {NoVector}
    /\ \A c \in Citations :
          /\ citation[c].status \in Verdicts \cup {"absent", "stale"}
          /\ citation[c].checked \in [BlocksOf[ChunkOf[c]] -> Nat]
          /\ reading[c] \in [BlocksOf[ChunkOf[c]] -> Nat] \cup {NotReading}
    /\ overtaken \subseteq Citations
    /\ jobs \in Table
    /\ \A t \in tasks : /\ t.job \in JobIds /\ t.worker \in Workers
                        /\ t.pc \in {"start", "embed"} /\ t.n \in Nat
    /\ edits \in 0 .. budget.edits /\ faults \in 0 .. budget.faults

NoText(c) == [b \in BlocksOf[c] |-> 0]

Init ==
    /\ EventsInit
    /\ ready = TRUE
    /\ block = [b \in Blocks |-> 0]
    /\ chunk = [c \in Chunks |-> NoText(c)]
    /\ vector = [c \in Chunks |-> NoText(c)]
    /\ citation = [c \in Citations |-> [status |-> "absent", checked |-> NoText(ChunkOf[c])]]
    /\ reading = [c \in Citations |-> NotReading]
    /\ overtaken = {}
    /\ jobs = EmptyTable
    /\ tasks = {}
    /\ edits = 0
    /\ faults = 0

Fault == faults < budget.faults /\ faults' = faults + 1 /\ UNCHANGED edits

-----------------------------------------------------------------------------
(* edit_block_text *)

Affected(b) == {c \in Chunks : b \in BlocksOf[c]}

\* Mutant: only citations that were found to be supported are marked.
StaledIfSupported(cit) == IF cit.status = "supported" THEN [cit EXCEPT !.status = "stale"] ELSE cit

Staled(cit) == IF cit.status = "absent" THEN cit ELSE [cit EXCEPT !.status = "stale"]

EnqueueReembed(chunks) ==
    IF chunks = {} THEN UNCHANGED jobs
    ELSE Enqueued(jobs, "reembed_chunks", chunks, NoKey, jobs')

\* Mutant: the chunk gets the new text, not that of all its blocks.
JoinedFromEdited(c, b, texts) == [x \in {b} |-> texts[x]]

\* The text of a chunk, from those of its blocks, one of which (b) was edited.
Joined(c, b, texts) == [x \in BlocksOf[c] |-> texts[x]]

EditBlock(b) ==
    /\ ready
    /\ edits < budget.edits /\ edits' = edits + 1 /\ UNCHANGED faults
    /\ block' = [block EXCEPT ![b] = edits + 1]
    /\ chunk' = [c \in Chunks |-> IF c \in Affected(b) THEN Joined(c, b, block') ELSE chunk[c]]
    /\ vector' = [c \in Chunks |-> IF c \in Affected(b) THEN NoVector ELSE vector[c]]
    /\ citation' = [c \in Citations |-> IF ChunkOf[c] \in Affected(b) THEN Staled(citation[c])
                                        ELSE citation[c]]
    /\ overtaken' = overtaken
          \cup {c \in Citations : ChunkOf[c] \in Affected(b) /\ reading[c] # NotReading}
    /\ EnqueueReembed(Affected(b))
    /\ Announce("block_edited")
    /\ UNCHANGED <<ready, reading, tasks, streamVars>>

\* retry, re-extraction or deletion of the document: chunks and their citations
\* go, and so do the jobs that name the document.
LeaveReady ==
    /\ ready
    /\ ready' = FALSE
    /\ jobs' = [j \in JobIds |-> IF Exists(jobs[j]) THEN DeletedRow(jobs[j]) ELSE jobs[j]]
    /\ UNCHANGED <<logVars, streamVars, block, chunk, vector, citeVars, tasks, editBounds>>

-----------------------------------------------------------------------------
(* handle_reembed_chunks *)

Claim(w, j) ==
    /\ Claimable(jobs[j])
    /\ jobs' = [jobs EXCEPT ![j] = ClaimedRow(@, w)]
    /\ tasks' = tasks \cup {[job |-> j, n |-> jobs[j].attempts + 1, worker |-> w,
                             pc |-> "start", rows |-> {}]}
    /\ UNCHANGED <<logVars, streamVars, textVars, citeVars, editBounds>>

SetRow(t, row) == IF Exists(jobs[t.job]) THEN [jobs EXCEPT ![t.job] = row] ELSE jobs

ChunkRows(ids) == {[id |-> c, text |-> chunk[c]] : c \in IF ready THEN ids ELSE {}}

\* The texts are read once, for all batches.
ReembedSelect(t) ==
    /\ t.pc = "start"
    /\ tasks' = (tasks \ {t}) \cup {[t EXCEPT !.pc = "embed", !.rows = ChunkRows(jobs[t.job].owner)]}
    /\ UNCHANGED <<logVars, streamVars, textVars, citeVars, jobs, editBounds>>

\* A batch (of one chunk): the vectors arrive and are written by chunk id.
ReembedBatch(t, row) ==
    /\ t.pc = "embed" /\ row \in t.rows
    /\ vector' = IF ready THEN [vector EXCEPT ![row.id] = row.text] ELSE vector
    /\ tasks' = (tasks \ {t}) \cup {[t EXCEPT !.rows = @ \ {row}]}
    /\ UNCHANGED <<logVars, streamVars, ready, block, chunk, citeVars, jobs, editBounds>>

\* Mutant: the handler returns after any batch.
ReembedDoneEarly(t) ==
    /\ t.pc = "embed"
    /\ jobs' = SetRow(t, CompletedRow(jobs[t.job]))
    /\ tasks' = tasks \ {t}
    /\ UNCHANGED <<logVars, streamVars, textVars, citeVars, editBounds>>

ReembedDone(t) ==
    /\ t.pc = "embed" /\ t.rows = {}
    /\ jobs' = SetRow(t, CompletedRow(jobs[t.job]))
    /\ tasks' = tasks \ {t}
    /\ UNCHANGED <<logVars, streamVars, textVars, citeVars, editBounds>>

\* The embedder fails: reembed_failed is announced, the job is failed or queued
\* again.
ReembedFails(t) ==
    /\ t.pc = "embed" /\ t.rows # {}
    /\ Fault
    /\ Announce("reembed_failed")
    /\ jobs' = SetRow(t, FailedRow(jobs[t.job], TRUE))
    /\ tasks' = tasks \ {t}
    /\ UNCHANGED <<streamVars, textVars, citeVars>>

Crash(w) ==
    /\ \E t \in tasks : t.worker = w
    /\ Fault
    /\ tasks' = {t \in tasks : t.worker # w}
    /\ UNCHANGED <<logVars, streamVars, textVars, citeVars, jobs>>

Holders(j) == {t \in tasks : t.job = j /\ t.worker = jobs[j].worker}

\* JOB_STALE_TIMEOUT passes and the sweep takes the job back.
Reclaim(j) ==
    /\ jobs[j].status = "running"
    /\ IF Holders(j) = {} THEN UNCHANGED editBounds ELSE Fault
    /\ jobs' = [jobs EXCEPT ![j] = ReclaimedRow([@ EXCEPT !.fresh = FALSE])]
    /\ UNCHANGED <<logVars, streamVars, textVars, citeVars, tasks>>

-----------------------------------------------------------------------------
(* Validators: chunk text is read before the calls of the language model *)

\* A draft is generated: the chunk is retrieved, and will be cited.
Retrieve(c) ==
    /\ ready /\ citation[c].status = "absent" /\ reading[c] = NotReading
    /\ reading' = [reading EXCEPT ![c] = chunk[ChunkOf[c]]]
    /\ UNCHANGED <<logVars, streamVars, textVars, citation, overtaken, jobs, tasks, editBounds>>

\* revalidate_draft reads the citations that are stale (or unchecked).
Revalidate(c) ==
    /\ ready /\ citation[c].status = "stale" /\ reading[c] = NotReading
    /\ reading' = [reading EXCEPT ![c] = chunk[ChunkOf[c]]]
    /\ overtaken' = overtaken \ {c}
    /\ UNCHANGED <<logVars, streamVars, textVars, citation, jobs, tasks, editBounds>>

\* finalize, or the commit of revalidate_draft: the verdict is written, whatever
\* has become of the chunk.
WriteVerdict(c) ==
    /\ ready /\ reading[c] # NotReading
    /\ \E v \in Verdicts : citation' = [citation EXCEPT ![c] = [status |-> v, checked |-> reading[c]]]
    /\ reading' = [reading EXCEPT ![c] = NotReading]
    /\ UNCHANGED <<logVars, streamVars, textVars, overtaken, jobs, tasks, editBounds>>

-----------------------------------------------------------------------------
\* The other sessions that emit events of the document.
OtherEvents ==
    /\ \E w \in Writers : (\E type \in Types \ EditTypes : Emit(w, type)) \/ Commit(w) \/ Rollback(w)
    /\ UNCHANGED <<streamVars, textVars, citeVars, jobs, tasks, editBounds>>

Streaming == StreamStep /\ UNCHANGED <<logVars, textVars, citeVars, jobs, tasks, editBounds>>

ReembedStep(t) ==
    ReembedSelect(t) \/ ReembedDone(t) \/ \E row \in t.rows : ReembedBatch(t, row)

Next ==
    \/ \E b \in Blocks : EditBlock(b)
    \/ LeaveReady
    \/ \E w \in Workers : Crash(w) \/ \E j \in JobIds : Claim(w, j)
    \/ \E t \in tasks : ReembedStep(t) \/ ReembedFails(t)
    \/ \E j \in JobIds : Reclaim(j)
    \/ \E c \in Citations : Retrieve(c) \/ Revalidate(c) \/ WriteVerdict(c)
    \/ OtherEvents
    \/ Streaming

Spec == Init /\ [][Next]_vars

\* Workers poll, handlers go on, jobs without a task are taken back.
Fairness ==
    /\ \A j \in JobIds :
          /\ WF_vars(\E w \in Workers : Claim(w, j))
          /\ WF_vars(\E t \in tasks : t.job = j /\ ReembedStep(t))
          /\ WF_vars(Holders(j) = {} /\ Reclaim(j))
    /\ StreamFairness

FairSpec == Spec /\ Fairness

-----------------------------------------------------------------------------
(* Properties *)

\* A chunk without a vector gets one, unless a job gave up on it or the document
\* leaves.
UnembeddedIsEmbedded ==
    \A c \in Chunks :
        (vector[c] = NoVector)
            ~> (vector[c] # NoVector \/ ~ready
                \/ \E j \in JobIds : c \in jobs[j].owner /\ jobs[j].status = "failed")

\* A verdict on a text that the chunk no longer has is marked stale, unless the
\* edit overtook the validator that was about to write it.
OutdatedIsStale ==
    ready => \A c \in Citations :
        citation[c].status \in Verdicts /\ citation[c].checked # chunk[ChunkOf[c]]
            => c \in overtaken

=============================================================================
