------------------------------- MODULE JobQueue -------------------------------
(***************************************************************************)
(* The job queue (app/jobs/queue.py) driven by worker processes             *)
(* (app/jobs/worker.py) and by the services that enqueue, cancel and delete *)
(* jobs.  What a handler does is left out here: a handler is the time        *)
(* between Start and one of the outcomes.                                   *)
(*                                                                          *)
(* A claim starts an asyncio task in the worker that claimed the job.  The  *)
(* claim increments attempts, so <<job, n>>, n being the value of attempts  *)
(* the claim wrote, names the task.  The task first waits for the semaphore *)
(* of its kind ("waiting": no heartbeat yet), then runs the handler with a  *)
(* heartbeat loop beside it ("running").  A task does not know whether its  *)
(* job was reclaimed in the meantime.                                       *)
(***************************************************************************)
EXTENDS JobTable, Sequences, FiniteSets

CONSTANTS
    Drafts,      \* the owners that are drafts; the other owners are documents
    Slots,       \* semaphore size of each kind, per worker process
    MaxFaults    \* bound on crashes, shutdowns, lost outcomes and late heartbeats

ASSUME JobIdsAssumption == JobIds \subseteq Nat
ASSUME DraftsAssumption == Drafts \subseteq Owners
ASSUME SlotsAssumption == Slots \in [Kinds -> Nat \ {0}]
ASSUME MaxFaultsAssumption == MaxFaults \in Nat

VARIABLES
    jobs,      \* the table jobs.jobs
    history,   \* jobs.job_history: the statuses written for each job
    tasks,     \* the live tasks of the worker processes
    reclaimed, \* auxiliary: how often reclaim_stuck took each job back
    faults     \* auxiliary: how many faults have happened, see MaxFaults

vars == <<jobs, history, tasks, reclaimed, faults>>

Documents == Owners \ Drafts

Phases == {"waiting", "running"}

Task == [job : JobIds, n : Nat, worker : Workers, phase : Phases]

TypeOK ==
    /\ jobs \in Table
    /\ history \in [JobIds -> Seq(OpenStatuses \cup TerminalStatuses)]
    /\ tasks \subseteq Task
    /\ reclaimed \in [JobIds -> Nat]
    /\ faults \in Nat

Init ==
    /\ jobs = EmptyTable
    /\ history = [j \in JobIds |-> <<>>]
    /\ tasks = {}
    /\ reclaimed = [j \in JobIds |-> 0]
    /\ faults = 0

TasksOf(w) == {t \in tasks : t.worker = w}

Running(w, k) == {t \in TasksOf(w) : t.phase = "running" /\ jobs[t.job].kind = k}

\* The tasks whose heartbeats the row accepts: the row names their worker.
Holders(j) == {t \in tasks : t.job = j /\ t.worker = jobs[j].worker}

Fault == faults < MaxFaults /\ faults' = faults + 1

-----------------------------------------------------------------------------
(* The services *)

\* create_draft, upload, a handler or the reconciler asks for a job.
Enqueue(kind, owner, key) ==
    /\ (kind = "draft_generation") <=> (owner \in Drafts)
    /\ Enqueued(jobs, kind, owner, key, jobs')
    /\ UNCHANGED <<history, tasks, reclaimed, faults>>

\* delete_document flags the open jobs of a document.
RequestCancelForDocument(d) ==
    /\ jobs' = CancelRequestedForDocument(jobs, d)
    /\ UNCHANGED <<history, tasks, reclaimed, faults>>

\* Mutant: no history for the jobs cancelled while pending.
RequestCancelForDraftNoHistory(f) ==
    /\ jobs' = CancelRequestedForDraft(jobs, f)
    /\ UNCHANGED <<history, tasks, reclaimed, faults>>

\* delete_draft cancels the pending jobs of a draft and flags the running ones.
RequestCancelForDraft(f) ==
    /\ jobs' = CancelRequestedForDraft(jobs, f)
    /\ history' = [j \in JobIds |->
                      IF jobs'[j].status = "cancelled" /\ jobs[j].status = "pending"
                      THEN Append(history[j], "cancelled") ELSE history[j]]
    /\ UNCHANGED <<tasks, reclaimed, faults>>

\* retry_document, reextract_page, accept_session and delete_document drop the
\* rows of a document, whatever their status and whoever is running them.
DeleteJobs(d) ==
    /\ jobs' = JobsDeleted(jobs, d)
    /\ UNCHANGED <<history, tasks, reclaimed, faults>>

-----------------------------------------------------------------------------
(* A worker *)

\* _poll_loop: claim a claimable job and spawn a task for it, without looking at
\* the semaphores.
Claim(w, j) ==
    /\ Claimable(jobs[j])
    /\ jobs' = [jobs EXCEPT ![j] = ClaimedRow(@, w)]
    /\ tasks' = tasks \cup {[job |-> j, n |-> jobs[j].attempts + 1, worker |-> w,
                             phase |-> "waiting"]}
    /\ UNCHANGED <<history, reclaimed, faults>>

\* _get_semaphore: one semaphore per kind and worker process.
SlotFree(w, k) == Cardinality(Running(w, k)) < Slots[k]

\* _handle_job: `async with sem', then the heartbeat loop and the handler start.
Start(t) ==
    /\ t.phase = "waiting"
    /\ SlotFree(t.worker, jobs[t.job].kind)
    /\ tasks' = (tasks \ {t}) \cup {[t EXCEPT !.phase = "running"]}
    /\ UNCHANGED <<jobs, history, reclaimed, faults>>

\* _heartbeat_loop: one beat.
Heartbeat(t) ==
    /\ t.phase = "running"
    /\ jobs' = [jobs EXCEPT ![t.job] = HeartbeatRow(@, t.worker)]
    /\ UNCHANGED <<history, tasks, reclaimed, faults>>

\* The end of a handler: the row and its history are written in one commit, the
\* task ends.  No history is written for a row that no longer exists.
Outcome(t, row) ==
    /\ t.phase = "running"
    /\ jobs' = [jobs EXCEPT ![t.job] = row]
    /\ tasks' = tasks \ {t}
    /\ UNCHANGED <<reclaimed, faults>>

WriteHistory(j) == history' = [history EXCEPT ![j] = Append(@, jobs'[j].status)]

\* The handler returns: queue.complete in the handler's own session.
Complete(t) ==
    /\ Outcome(t, CompletedRow(jobs[t.job]))
    /\ IF Exists(jobs[t.job]) THEN WriteHistory(t.job) ELSE UNCHANGED history

\* The handler raises: queue.fail, with the exception's retryable attribute.
Fail(t, retryable) ==
    /\ Outcome(t, FailedRow(jobs[t.job], retryable))
    /\ IF Exists(jobs[t.job]) THEN WriteHistory(t.job) ELSE UNCHANGED history

\* The handler saw the flag and raises CancelledIngest: queue.cancel, which
\* leaves a row alone that is neither pending nor running.  The OCR page loop and
\* the draft handler look at the flag, no other handler does.
CancelOut(t) ==
    /\ jobs[t.job].cancel_requested
    /\ jobs[t.job].kind \in {"ocr", "draft_generation"}
    /\ Outcome(t, CancelledRow(jobs[t.job]))
    /\ IF IsOpen(jobs[t.job]) THEN WriteHistory(t.job) ELSE UNCHANGED history

\* The write of the outcome fails and the error is swallowed (`except: pass').
OutcomeLost(t) ==
    /\ t.phase = "running"
    /\ Fault
    /\ tasks' = tasks \ {t}
    /\ UNCHANGED <<jobs, history, reclaimed>>

\* The process dies (os._exit, SIGKILL); another one takes its place.
Crash(w) ==
    /\ TasksOf(w) # {}
    /\ Fault
    /\ tasks' = tasks \ TasksOf(w)
    /\ UNCHANGED <<jobs, history, reclaimed>>

\* SIGTERM: _handle_signal cancels every task.  asyncio.CancelledError passes
\* _handle_job's except clauses, so the rows keep status "running" - except that
\* the draft_generation handler turns it into CancelledIngest, and the job into
\* "cancelled" if that write still gets through before the loop is closed.
ShutdownCancels(w, j) ==
    /\ jobs[j].kind = "draft_generation"
    /\ IsOpen(jobs[j])
    /\ \E t \in TasksOf(w) : t.job = j /\ t.phase = "running"

Shutdown(w) ==
    /\ TasksOf(w) # {}
    /\ Fault
    /\ tasks' = tasks \ TasksOf(w)
    /\ \E written \in SUBSET {j \in JobIds : ShutdownCancels(w, j)} :
          /\ jobs' = [j \in JobIds |->
                        IF j \in written THEN CancelledRow(jobs[j]) ELSE jobs[j]]
          /\ history' = [j \in JobIds |->
                        IF j \in written THEN Append(history[j], "cancelled")
                        ELSE history[j]]
    /\ UNCHANGED reclaimed

-----------------------------------------------------------------------------
(* Time and the reconciler *)

\* JOB_STALE_TIMEOUT passes with no task left that could heartbeat the row.
LeaseExpires(j) ==
    /\ jobs[j].status = "running" /\ jobs[j].fresh
    /\ Holders(j) = {}
    /\ jobs' = [jobs EXCEPT ![j].fresh = FALSE]
    /\ UNCHANGED <<history, tasks, reclaimed, faults>>

\* JOB_STALE_TIMEOUT passes although a task is alive: other jobs hold every slot
\* of its kind, so that it has no heartbeat loop yet, or its heartbeats do not get
\* through (_heartbeat_loop swallows their errors).
LeaseLapses(j) ==
    /\ jobs[j].status = "running" /\ jobs[j].fresh
    /\ Holders(j) # {}
    /\ \A t \in Holders(j) : t.phase = "waiting" => ~SlotFree(t.worker, jobs[j].kind)
    /\ Fault
    /\ jobs' = [jobs EXCEPT ![j].fresh = FALSE]
    /\ UNCHANGED <<history, tasks, reclaimed>>

\* Reconciler.reclaim_stuck_jobs: one UPDATE over the table.
ReclaimStuck ==
    /\ \E j \in JobIds : Stuck(jobs[j])
    /\ jobs' = [j \in JobIds |-> ReclaimedRow(jobs[j])]
    /\ reclaimed' = [j \in JobIds |-> IF Stuck(jobs[j]) THEN reclaimed[j] + 1
                                      ELSE reclaimed[j]]
    /\ UNCHANGED <<history, tasks, faults>>

-----------------------------------------------------------------------------
ServiceStep ==
    \/ \E k \in Kinds, o \in Owners, key \in Keys \cup {NoKey} : Enqueue(k, o, key)
    \/ \E d \in Documents : RequestCancelForDocument(d) \/ DeleteJobs(d)
    \/ \E f \in Drafts : RequestCancelForDraft(f)

WorkerStep ==
    \/ \E w \in Workers : \E j \in JobIds : Claim(w, j)
    \/ \E t \in tasks :
          \/ Start(t) \/ Heartbeat(t) \/ Complete(t) \/ CancelOut(t) \/ OutcomeLost(t)
          \/ \E retryable \in BOOLEAN : Fail(t, retryable)
    \/ \E w \in Workers : Crash(w) \/ Shutdown(w)

TimeStep == ReclaimStuck \/ \E j \in JobIds : LeaseExpires(j) \/ LeaseLapses(j)

Next == ServiceStep \/ WorkerStep \/ TimeStep

Spec == Init /\ [][Next]_vars

-----------------------------------------------------------------------------
(* What keeps happening: workers poll, semaphores are handed on in FIFO      *)
(* order, handlers return, time passes and the reconciler runs every minute. *)
(* Nothing is assumed of the services, of faults, or of late heartbeats.     *)

Returns(j) == \E t \in tasks : t.job = j /\ (Complete(t) \/ \E r \in BOOLEAN : Fail(t, r))

Fairness ==
    /\ \A j \in JobIds :
          /\ WF_vars(\E w \in Workers : Claim(w, j))
          /\ SF_vars(\E t \in tasks : t.job = j /\ Start(t))
          /\ WF_vars(Returns(j))
          /\ WF_vars(LeaseExpires(j))
    /\ WF_vars(ReclaimStuck)

FairSpec == Spec /\ Fairness

-----------------------------------------------------------------------------
(* Properties *)

\* The attempts of a job stay within max_attempts plus the number of times
\* reclaim_stuck took it back: fail() stops re-queueing at max_attempts, and
\* reclaim_stuck is the only statement that re-queues without looking at it.
AttemptsWithinBudget ==
    \A j \in JobIds : jobs[j].attempts <= MaxAttempts[jobs[j].kind] + reclaimed[j]

\* Two tasks are alive for one job only if reclaim_stuck took that job back at
\* least once: claim_one never hands out a job that a task still holds.
OverlapNeedsReclaim ==
    \A t, u \in tasks : t.job = u.job /\ t # u => reclaimed[t.job] > 0

\* job_history records one ending per job: unless the job was reclaimed, only the
\* last entry is terminal, and a job has a terminal status exactly when its last
\* entry says so.
HistoryHasOneEnding ==
    \A j \in JobIds :
        reclaimed[j] = 0 =>
            /\ \A i \in 1 .. Len(history[j]) :
                  history[j][i] \in TerminalStatuses => i = Len(history[j])
            /\ jobs[j].status \in TerminalStatuses =>
                  /\ history[j] # <<>>
                  /\ history[j][Len(history[j])] = jobs[j].status

\* A finished job stays finished until its row is deleted, unless it was
\* reclaimed: complete() and fail() do not check who holds the job, so only the
\* claim/reclaim discipline protects the result.
FinishedStaysFinished ==
    [][\A j \in JobIds :
          jobs[j].status \in TerminalStatuses /\ reclaimed[j] = 0
              => jobs'[j].status \in {jobs[j].status, "deleted"}]_vars

\* The claim discipline, which makes the properties above inductive.
\*   - A task is named by <<job, n>>, and n is an attempt the row has counted.
TasksNamed ==
    /\ \A t \in tasks : /\ 1 <= t.n /\ t.n <= jobs[t.job].attempts
                        /\ jobs[t.job].status # "absent"
    /\ \A t, u \in tasks : t.job = u.job /\ t.n = u.n => t = u

\*   - As long as a job was not reclaimed, a live task is the row's latest claim,
\*     and the row is still running for its worker, unless it was deleted.
TaskHoldsJob ==
    \A t \in tasks :
        reclaimed[t.job] = 0 =>
            /\ jobs[t.job].status \in {"running", "deleted"}
            /\ jobs[t.job].attempts = t.n
            /\ jobs[t.job].worker = t.worker

\*   - A pending job has an attempt left.
PendingHasBudget ==
    \A j \in JobIds :
        jobs[j].status = "pending" =>
            jobs[j].attempts < MaxAttempts[jobs[j].kind] + reclaimed[j]

\*   - A job that is still open has no ending in its history.
OpenHasNoEnding ==
    \A j \in JobIds :
        reclaimed[j] = 0 /\ jobs[j].status \in OpenStatuses \cup {"absent"} =>
            \A i \in 1 .. Len(history[j]) : history[j][i] \notin TerminalStatuses

ClaimDiscipline ==
    /\ TasksNamed
    /\ TaskHoldsJob
    /\ PendingHasBudget
    /\ OpenHasNoEnding

\* Every job that nobody asked to cancel is eventually finished or deleted, in
\* spite of crashes, lost outcomes and late heartbeats: pending jobs are claimed,
\* claimed jobs get a slot, and jobs whose task died are reclaimed.
JobsSettle ==
    \A j \in JobIds :
        IsOpen(jobs[j]) ~> (~IsOpen(jobs[j]) \/ jobs[j].cancel_requested)

-----------------------------------------------------------------------------
(* What comments and tests say of the queue, and the code does not keep *)

\* JobQueue.cancel, "Mark a job as cancelled (terminal, non-retryable)": a
\* cancelled job is not queued again.
CancelledIsTerminal ==
    [][\A j \in JobIds : jobs[j].status = "cancelled" => jobs'[j].status # "pending"]_vars

\* request_cancel_for_document, "pending jobs see the flag at claim time": a
\* pending job that is flagged does not stay pending.
FlaggedPendingLeaves ==
    \A j \in JobIds :
        (jobs[j].status = "pending" /\ jobs[j].cancel_requested)
            ~> jobs[j].status # "pending"

=============================================================================
