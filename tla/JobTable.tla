------------------------------- MODULE JobTable -------------------------------
(***************************************************************************)
(* The table jobs.jobs and the SQL statements of app/jobs/queue.py, one     *)
(* operator per statement, as functions from a row (or a table) to a row    *)
(* (or a table).  The modules that use the queue build their actions from    *)
(* these operators, so that every component changes the table through the   *)
(* same statements.                                                         *)
(*                                                                          *)
(* A table is a function from job ids to rows.  An id that was never used    *)
(* has status "absent", one whose row was deleted "deleted".                *)
(*                                                                          *)
(* Clock readings are abstracted: `fresh' says that heartbeat_at is within  *)
(* JOB_STALE_TIMEOUT of now.  The payload is reduced to the document, draft *)
(* or other thing (owner) it names, and to the page number of a per-page    *)
(* OCR job where a module needs it (part of the kind).                      *)
(***************************************************************************)
EXTENDS Naturals

CONSTANTS
    JobIds,       \* ids a row may get
    Workers,      \* worker processes
    Kinds,        \* JobKind values
    Owners,       \* what a payload is about: documents, drafts
    Keys,         \* dedup keys
    NoKey,        \* dedup_key IS NULL
    NoWorker,     \* worker_id IS NULL
    NoOwner,      \* placeholder for the owner of an unused id
    MaxAttempts   \* max_attempts given at enqueue, by kind

ASSUME KindsAssumption == Kinds # {}
ASSUME NoWorkerAssumption == NoWorker \notin Workers
ASSUME NoKeyAssumption == NoKey \notin Keys
ASSUME NoOwnerAssumption == NoOwner \notin Owners
ASSUME MaxAttemptsAssumption == MaxAttempts \in [Kinds -> Nat \ {0}]

Statuses == {"absent", "pending", "running", "completed", "failed",
             "cancelled", "deleted"}

OpenStatuses == {"pending", "running"}

TerminalStatuses == {"completed", "failed", "cancelled"}

Row == [kind : Kinds,
        owner : Owners \cup {NoOwner},
        key : Keys \cup {NoKey},
        status : Statuses,
        attempts : Nat,
        cancel_requested : BOOLEAN,
        worker : Workers \cup {NoWorker},
        fresh : BOOLEAN]

Table == [JobIds -> Row]

\* An id that no INSERT has used yet.
Unused == [kind |-> CHOOSE k \in Kinds : TRUE, owner |-> NoOwner, key |-> NoKey,
           status |-> "absent", attempts |-> 0, cancel_requested |-> FALSE,
           worker |-> NoWorker, fresh |-> FALSE]

EmptyTable == [j \in JobIds |-> Unused]

Exists(r) == r.status \notin {"absent", "deleted"}

IsOpen(r) == r.status \in OpenStatuses

-----------------------------------------------------------------------------
(* enqueue *)

\* The UNIQUE constraint on dedup_key looks at every row, whatever its status.
KeyTaken(T, key) == key # NoKey /\ \E j \in JobIds : Exists(T[j]) /\ T[j].key = key

\* The id of the next INSERT (uuid7), later than every id used so far: the ids are used
\* one after another.
NextId(T, j) == T[j].status = "absent" /\ \A i \in JobIds : i < j <=> T[i].status # "absent"

NewRow(kind, owner, key) ==
    [kind |-> kind, owner |-> owner, key |-> key, status |-> "pending",
     attempts |-> 0, cancel_requested |-> FALSE, worker |-> NoWorker, fresh |-> FALSE]

\* INSERT ... ON CONFLICT (dedup_key) DO NOTHING: T2 is the table after it.
\* The statement is not available once the ids of the model are used up.
Enqueued(T, kind, owner, key, T2) ==
    IF KeyTaken(T, key)
    THEN T2 = T
    ELSE \E j \in JobIds : NextId(T, j) /\ T2 = [T EXCEPT ![j] = NewRow(kind, owner, key)]

-----------------------------------------------------------------------------
(* claim_one, heartbeat, reclaim_stuck *)

\* Mutants: a claim that also takes running rows; one that counts the budget.
ClaimableRunning(r) == IsOpen(r) /\ ~r.cancel_requested
ClaimableWithinBudget(r) ==
    r.status = "pending" /\ ~r.cancel_requested /\ r.attempts < MaxAttempts[r.kind]

\* ORDER BY created_at FOR UPDATE SKIP LOCKED LIMIT 1: the oldest of these rows,
\* but for those that some other transaction has locked, so it may be any of them.
Claimable(r) == r.status = "pending" /\ ~r.cancel_requested

ClaimedRow(r, w) ==
    [r EXCEPT !.status = "running", !.attempts = @ + 1, !.worker = w, !.fresh = TRUE]

HeartbeatRow(r, w) ==
    IF r.worker = w /\ r.status = "running" THEN [r EXCEPT !.fresh = TRUE] ELSE r

\* Mutant: the sweep looks at heartbeat_at only.
StuckWhateverStatus(r) == Exists(r) /\ ~r.fresh

Stuck(r) == r.status = "running" /\ ~r.fresh

ReclaimedRow(r) ==
    IF Stuck(r) THEN [r EXCEPT !.status = "pending", !.worker = NoWorker] ELSE r

-----------------------------------------------------------------------------
(* complete, fail, cancel: complete and fail name the row by id only *)

CompletedRow(r) == IF Exists(r) THEN [r EXCEPT !.status = "completed"] ELSE r

\* Mutant: off by one, attempts > max_attempts instead of >=.
FailStatusOffByOne(r, retryable) ==
    IF retryable /\ r.attempts <= MaxAttempts[r.kind] THEN "pending" ELSE "failed"

FailStatus(r, retryable) ==
    IF retryable /\ r.attempts < MaxAttempts[r.kind] THEN "pending" ELSE "failed"

FailedRow(r, retryable) ==
    IF Exists(r) THEN [r EXCEPT !.status = FailStatus(r, retryable)] ELSE r

CancelledRow(r) == IF IsOpen(r) THEN [r EXCEPT !.status = "cancelled"] ELSE r

-----------------------------------------------------------------------------
(* request_cancel_for_document, request_cancel_for_draft, and the            *)
(* DELETE FROM jobs.jobs WHERE payload->>'document_id' = ... of the services *)

FlaggedRow(r) == [r EXCEPT !.cancel_requested = TRUE]

CancelRequestedForDocument(T, d) ==
    [j \in JobIds |-> IF T[j].owner = d /\ IsOpen(T[j]) THEN FlaggedRow(T[j]) ELSE T[j]]

CancelRequestedForDraftRow(r) ==
    IF r.status = "pending" THEN CancelledRow(r)
    ELSE IF r.status = "running" THEN FlaggedRow(r) ELSE r

CancelRequestedForDraft(T, f) ==
    [j \in JobIds |-> IF T[j].owner = f /\ T[j].kind = "draft_generation"
                      THEN CancelRequestedForDraftRow(T[j]) ELSE T[j]]

DeletedRow(r) == [r EXCEPT !.status = "deleted"]

JobsDeleted(T, d) ==
    [j \in JobIds |-> IF T[j].owner = d /\ Exists(T[j]) THEN DeletedRow(T[j]) ELSE T[j]]

-----------------------------------------------------------------------------
(* pending_count, used by upload as backpressure *)

OpenJobs(T) == {j \in JobIds : IsOpen(T[j])}

=============================================================================
