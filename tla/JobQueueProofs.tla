---------------------------- MODULE JobQueueProofs ----------------------------
(***************************************************************************)
(* Proofs about JobQueue, for every set of jobs, workers, owners and keys,  *)
(* every retry budget, semaphore size and number of faults.                 *)
(*                                                                          *)
(* The inductive invariant is the type invariant, the two state properties  *)
(* of the budget and the history, and the claim discipline, which says what *)
(* a live task knows of its row.                                            *)
(***************************************************************************)
EXTENDS JobQueue, JobTableProofs

IInv ==
    /\ TypeOK
    /\ ClaimDiscipline
    /\ AttemptsWithinBudget
    /\ HistoryHasOneEnding

-----------------------------------------------------------------------------
(* Budgets *)

\* Every kind has a budget of at least one attempt.
LEMMA BudgetPositive == \A k \in Kinds : MaxAttempts[k] \in Nat /\ MaxAttempts[k] >= 1
BY MaxAttemptsAssumption

-----------------------------------------------------------------------------
(* Initial states *)

\* The empty queue satisfies the inductive invariant.
LEMMA InitIInv == Init => IInv
<1> SUFFICES ASSUME Init PROVE IInv
  OBVIOUS
<1>1. TypeOK
  BY UnusedIsRow DEF Init, TypeOK, EmptyTable, Table, Task
<1>2. \A j \in JobIds : /\ jobs[j].status = "absent" /\ jobs[j].attempts = 0
                        /\ jobs[j].kind \in Kinds
                        /\ history[j] = <<>> /\ Len(history[j]) = 0
  BY KindsAssumption DEF Init, EmptyTable, Unused
<1>3. ClaimDiscipline
  BY <1>2 DEF Init, ClaimDiscipline, TasksNamed, TaskHoldsJob, PendingHasBudget,
              OpenHasNoEnding
<1>4. AttemptsWithinBudget
  <2> SUFFICES ASSUME NEW j \in JobIds
               PROVE  jobs[j].attempts <= MaxAttempts[jobs[j].kind] + reclaimed[j]
    BY DEF AttemptsWithinBudget
  <2>1. jobs[j].attempts = 0 /\ reclaimed[j] = 0 /\ MaxAttempts[jobs[j].kind] \in Nat
    BY <1>2, BudgetPositive DEF Init
  <2> QED
    BY <2>1
<1>5. HistoryHasOneEnding
  BY <1>2 DEF HistoryHasOneEnding, TerminalStatuses
<1> QED
  BY <1>1, <1>3, <1>4, <1>5 DEF IInv

-----------------------------------------------------------------------------
(* Steps that start no task *)

\* What such a step may do to a job: nothing the invariant looks at, ...
Kept(j) == jobs'[j].status = jobs[j].status /\ history'[j] = history[j]

\* ... delete its row, ...
Dropped(j) ==
    /\ jobs[j].status # "absent"
    /\ jobs'[j].status = "deleted"
    /\ history'[j] = history[j]

\* ... or write an outcome and a line of history, which without a reclaim happens
\* to an open job and leaves no task behind.
Written(j) ==
    /\ jobs[j].status # "absent"
    /\ jobs'[j].status \in TerminalStatuses \cup {"pending"}
    /\ jobs'[j].status = "pending" => jobs[j].attempts < MaxAttempts[jobs[j].kind]
    /\ history'[j] = Append(history[j], jobs'[j].status)
    /\ reclaimed[j] = 0 => IsOpen(jobs[j]) /\ \A u \in tasks' : u.job # j

RowStep ==
    /\ tasks' \subseteq tasks
    /\ reclaimed' = reclaimed
    /\ \A j \in JobIds :
          /\ jobs'[j].kind = jobs[j].kind
          /\ jobs'[j].attempts = jobs[j].attempts
          /\ jobs'[j].worker = jobs[j].worker
          /\ Kept(j) \/ Dropped(j) \/ Written(j)

\* Appending to a history: the entries before stay where they were.
LEMMA AppendEntries ==
    ASSUME NEW S, NEW h \in Seq(S), NEW e \in S
    PROVE  /\ Len(Append(h, e)) = Len(h) + 1
           /\ \A i \in 1 .. Len(h) : Append(h, e)[i] = h[i]
           /\ Append(h, e)[Len(h) + 1] = e
           /\ Append(h, e) # <<>>
OBVIOUS

\* The steps of this shape preserve the inductive invariant.
LEMMA RowStepIInv == IInv /\ TypeOK' /\ RowStep => IInv'
<1> SUFFICES ASSUME IInv, TypeOK', RowStep PROVE IInv'
  OBVIOUS
<1> USE DEF IInv, ClaimDiscipline
<1>0. \A j \in JobIds : jobs[j] \in Row /\ jobs'[j] \in Row
  BY DEF TypeOK, Table
<1>1. TasksNamed'
  <2>1. ASSUME NEW t \in tasks'
        PROVE  1 <= t.n /\ t.n <= jobs'[t.job].attempts /\ jobs'[t.job].status # "absent"
    <3>1. t \in tasks /\ t.job \in JobIds
      BY <2>1 DEF RowStep, TypeOK, Task
    <3> QED
      BY <3>1 DEF TasksNamed, RowStep, Kept, Dropped, Written, TerminalStatuses
  <2> QED
    BY <2>1 DEF TasksNamed, RowStep
<1>2. TaskHoldsJob'
  <2> SUFFICES ASSUME NEW t \in tasks', reclaimed'[t.job] = 0
               PROVE  /\ jobs'[t.job].status \in {"running", "deleted"}
                      /\ jobs'[t.job].attempts = t.n
                      /\ jobs'[t.job].worker = t.worker
    BY DEF TaskHoldsJob
  <2>1. t \in tasks /\ t.job \in JobIds /\ reclaimed[t.job] = 0
    BY DEF RowStep, TypeOK, Task
  <2> QED
    BY <2>1 DEF TaskHoldsJob, RowStep, Kept, Dropped, Written
<1>3. PendingHasBudget'
  <2> SUFFICES ASSUME NEW j \in JobIds, jobs'[j].status = "pending"
               PROVE  jobs'[j].attempts < MaxAttempts[jobs'[j].kind] + reclaimed'[j]
    BY DEF PendingHasBudget
  <2>1. /\ jobs[j].attempts \in Nat /\ MaxAttempts[jobs[j].kind] \in Nat
        /\ reclaimed[j] \in Nat
    BY <1>0, BudgetPositive DEF Row, TypeOK
  <2> QED
    BY <2>1 DEF PendingHasBudget, RowStep, Kept, Dropped, Written
<1>4. AttemptsWithinBudget'
  BY DEF AttemptsWithinBudget, RowStep
<1>5. ASSUME NEW j \in JobIds, Written(j)
      PROVE  /\ history[j] \in Seq(OpenStatuses \cup TerminalStatuses)
             /\ Len(history[j]) \in Nat
             /\ Len(history'[j]) = Len(history[j]) + 1
             /\ \A i \in 1 .. Len(history[j]) : history'[j][i] = history[j][i]
             /\ history'[j][Len(history[j]) + 1] = jobs'[j].status
             /\ history'[j] # <<>>
  <2>1. history[j] \in Seq(OpenStatuses \cup TerminalStatuses)
    BY DEF TypeOK
  <2>2. jobs'[j].status \in OpenStatuses \cup TerminalStatuses
    BY <1>5 DEF Written, OpenStatuses
  <2>3. history'[j] = Append(history[j], jobs'[j].status)
    BY <1>5 DEF Written
  <2>4. Len(history[j]) \in Nat
    BY <2>1
  <2> DEFINE h == history[j]
             e == jobs'[j].status
  <2>5. h \in Seq(OpenStatuses \cup TerminalStatuses) /\ e \in OpenStatuses \cup TerminalStatuses
    BY <2>1, <2>2
  <2> HIDE DEF h, e
  <2>6. /\ Len(Append(h, e)) = Len(h) + 1
        /\ \A i \in 1 .. Len(h) : Append(h, e)[i] = h[i]
        /\ Append(h, e)[Len(h) + 1] = e
        /\ Append(h, e) # <<>>
    BY <2>5, AppendEntries
  <2> QED
    BY ONLY <2>1, <2>3, <2>4, <2>6 DEF h, e
<1>6. OpenHasNoEnding'
  <2> SUFFICES ASSUME NEW j \in JobIds, reclaimed'[j] = 0,
                      jobs'[j].status \in OpenStatuses \cup {"absent"},
                      NEW i \in 1 .. Len(history'[j])
               PROVE  history'[j][i] \notin TerminalStatuses
    BY DEF OpenHasNoEnding
  <2>1. CASE Kept(j)
    BY <2>1 DEF Kept, OpenHasNoEnding, RowStep
  <2>2. CASE Dropped(j)
    BY <2>2 DEF Dropped, OpenStatuses
  <2>3. CASE Written(j)
    <3>1. jobs'[j].status = "pending"
      BY <2>3 DEF Written, OpenStatuses, TerminalStatuses
    <3>2. reclaimed[j] = 0 /\ jobs[j].status \in OpenStatuses
      BY <2>3 DEF Written, IsOpen, RowStep
    <3>3. \A k \in 1 .. Len(history[j]) : history[j][k] \notin TerminalStatuses
      BY <3>2 DEF OpenHasNoEnding
    <3>4. i \in 1 .. Len(history[j]) \/ i = Len(history[j]) + 1
      BY <2>3, <1>5
    <3> QED
      BY <2>3, <1>5, <3>1, <3>3, <3>4 DEF TerminalStatuses
  <2> QED
    BY <2>1, <2>2, <2>3 DEF RowStep
<1>7. HistoryHasOneEnding'
  <2> SUFFICES ASSUME NEW j \in JobIds, reclaimed'[j] = 0
               PROVE  /\ \A i \in 1 .. Len(history'[j]) :
                            history'[j][i] \in TerminalStatuses => i = Len(history'[j])
                      /\ jobs'[j].status \in TerminalStatuses =>
                            /\ history'[j] # <<>>
                            /\ history'[j][Len(history'[j])] = jobs'[j].status
    BY DEF HistoryHasOneEnding
  <2>0. reclaimed[j] = 0
    BY DEF RowStep
  <2>1. CASE Kept(j)
    BY <2>0, <2>1 DEF Kept, HistoryHasOneEnding
  <2>2. CASE Dropped(j)
    BY <2>0, <2>2 DEF Dropped, HistoryHasOneEnding, TerminalStatuses
  <2>3. CASE Written(j)
    <3>1. \A i \in 1 .. Len(history[j]) : history[j][i] \notin TerminalStatuses
      BY <2>0, <2>3 DEF Written, IsOpen, OpenHasNoEnding
    <3>2. ASSUME NEW i \in 1 .. Len(history'[j]), history'[j][i] \in TerminalStatuses
          PROVE  i = Len(history'[j])
      <4>1. i \in 1 .. Len(history[j]) \/ i = Len(history[j]) + 1
        BY <2>3, <1>5
      <4> QED
        BY <2>3, <1>5, <3>1, <3>2, <4>1
    <3> QED
      BY <2>3, <1>5, <3>2
  <2> QED
    BY <2>1, <2>2, <2>3 DEF RowStep
<1> QED
  BY <1>1, <1>2, <1>3, <1>4, <1>6, <1>7

\* The statements other than claim_one and reclaim_stuck leave kind, attempts and
\* worker_id alone; what each does to the status.
SameClaim(r, s) == s.kind = r.kind /\ s.attempts = r.attempts /\ s.worker = r.worker

\* The statements of queue.py keep kind, attempts and worker, and change the status
\* only as their WHERE clause allows.
LEMMA StatementFields ==
    ASSUME NEW r \in Row
    PROVE  /\ \A w \in Workers :
                 SameClaim(r, HeartbeatRow(r, w)) /\ HeartbeatRow(r, w).status = r.status
           /\ SameClaim(r, FlaggedRow(r)) /\ FlaggedRow(r).status = r.status
           /\ SameClaim(r, DeletedRow(r)) /\ DeletedRow(r).status = "deleted"
           /\ /\ SameClaim(r, CompletedRow(r))
              /\ CompletedRow(r).status = IF Exists(r) THEN "completed" ELSE r.status
           /\ \A b \in BOOLEAN :
                 /\ SameClaim(r, FailedRow(r, b))
                 /\ FailedRow(r, b).status = IF Exists(r) THEN FailStatus(r, b) ELSE r.status
           /\ /\ SameClaim(r, CancelledRow(r))
              /\ CancelledRow(r).status = IF IsOpen(r) THEN "cancelled" ELSE r.status
           /\ /\ SameClaim(r, CancelRequestedForDraftRow(r))
              /\ CancelRequestedForDraftRow(r).status =
                    IF r.status = "pending" THEN "cancelled" ELSE r.status
<1>1. \A w \in Workers :
         SameClaim(r, HeartbeatRow(r, w)) /\ HeartbeatRow(r, w).status = r.status
  BY DEF SameClaim, HeartbeatRow, Row
<1>2. SameClaim(r, FlaggedRow(r)) /\ FlaggedRow(r).status = r.status
  BY DEF SameClaim, FlaggedRow, Row
<1>3. SameClaim(r, DeletedRow(r)) /\ DeletedRow(r).status = "deleted"
  BY DEF SameClaim, DeletedRow, Row
<1>4. /\ SameClaim(r, CompletedRow(r))
      /\ CompletedRow(r).status = IF Exists(r) THEN "completed" ELSE r.status
  BY DEF SameClaim, CompletedRow, Row
<1>5. \A b \in BOOLEAN :
         /\ SameClaim(r, FailedRow(r, b))
         /\ FailedRow(r, b).status = IF Exists(r) THEN FailStatus(r, b) ELSE r.status
  BY DEF SameClaim, FailedRow, Row
<1>6. /\ SameClaim(r, CancelledRow(r))
      /\ CancelledRow(r).status = IF IsOpen(r) THEN "cancelled" ELSE r.status
  BY DEF SameClaim, CancelledRow, Row
<1>7. /\ SameClaim(r, CancelRequestedForDraftRow(r))
      /\ CancelRequestedForDraftRow(r).status =
            IF r.status = "pending" THEN "cancelled" ELSE r.status
  <2>1. CASE r.status = "pending"
    BY <2>1, <1>6 DEF CancelRequestedForDraftRow, IsOpen, OpenStatuses
  <2>2. CASE r.status # "pending"
    BY <2>2, <1>2 DEF CancelRequestedForDraftRow, SameClaim
  <2> QED
    BY <2>1, <2>2
<1> QED
  BY <1>1, <1>2, <1>3, <1>4, <1>5, <1>6, <1>7

\* The table and the tasks of a typed state.
LEMMA TypedState ==
    ASSUME TypeOK
    PROVE  /\ \A j \in JobIds : jobs[j] \in Row
           /\ \A t \in tasks : t.job \in JobIds /\ t.worker \in Workers /\ t.n \in Nat
           /\ DOMAIN jobs = JobIds
BY DEF TypeOK, Table, Task

\* Each of the steps has that shape.  Cancelling the jobs of a document only sets
\* flags.
LEMMA RequestCancelForDocumentIInv ==
    ASSUME IInv, NEW d \in Documents, RequestCancelForDocument(d)
    PROVE  RowStep /\ IInv'
<1>1. TypeOK
  BY DEF IInv
<1>2. TypeOK'
  BY <1>1, TypedState, RowStatements
     DEF TypeOK, Table, RequestCancelForDocument, CancelRequestedForDocument
<1>3. RowStep
  BY <1>1, TypedState, StatementFields
     DEF RequestCancelForDocument, CancelRequestedForDocument, RowStep, SameClaim, Kept
<1> QED
  BY <1>2, <1>3, RowStepIInv

\* Cancelling the jobs of a draft ends the pending ones, which no task holds
\* unless they were reclaimed.
LEMMA RequestCancelForDraftIInv ==
    ASSUME IInv, NEW f \in Drafts, RequestCancelForDraft(f)
    PROVE  RowStep /\ IInv'
<1>1. TypeOK
  BY DEF IInv
<1>0. \A j \in JobIds : jobs[j] \in Row
  BY <1>1, TypedState
<1>2. \A j \in JobIds : jobs'[j] \in {jobs[j], CancelRequestedForDraftRow(jobs[j])}
  BY DEF RequestCancelForDraft, CancelRequestedForDraft
<1>3. jobs' \in Table
  BY <1>0, <1>2, RowStatements DEF RequestCancelForDraft, CancelRequestedForDraft, Table
<1>4. \A j \in JobIds : /\ SameClaim(jobs[j], jobs'[j])
                        /\ \/ jobs'[j].status = jobs[j].status
                           \/ jobs[j].status = "pending" /\ jobs'[j].status = "cancelled"
  BY <1>0, <1>2, StatementFields DEF SameClaim
<1>5. history' \in [JobIds -> Seq(OpenStatuses \cup TerminalStatuses)]
  <2>1. "cancelled" \in OpenStatuses \cup TerminalStatuses
    BY DEF TerminalStatuses
  <2>2. \A j \in JobIds :
           Append(history[j], "cancelled") \in Seq(OpenStatuses \cup TerminalStatuses)
    BY <1>1, <2>1 DEF TypeOK
  <2> QED
    BY <1>1, <2>2 DEF RequestCancelForDraft, TypeOK
<1>6. TypeOK'
  BY <1>1, <1>3, <1>5 DEF TypeOK, RequestCancelForDraft
<1>7. RowStep
  <2> SUFFICES ASSUME NEW j \in JobIds PROVE Kept(j) \/ Written(j)
    BY <1>4 DEF RowStep, RequestCancelForDraft, SameClaim
  <2>1. CASE jobs'[j].status = "cancelled" /\ jobs[j].status = "pending"
    <3>1. history'[j] = Append(history[j], "cancelled")
      BY <2>1 DEF RequestCancelForDraft
    <3>2. reclaimed[j] = 0 => \A u \in tasks : u.job # j
      BY <2>1 DEF IInv, ClaimDiscipline, TaskHoldsJob
    <3> QED
      BY <2>1, <3>1, <3>2 DEF Written, TerminalStatuses, RequestCancelForDraft, IsOpen,
                              OpenStatuses
  <2>2. CASE ~(jobs'[j].status = "cancelled" /\ jobs[j].status = "pending")
    BY <2>2, <1>4 DEF RequestCancelForDraft, Kept
  <2> QED
    BY <2>1, <2>2
<1> QED
  BY <1>6, <1>7, RowStepIInv

\* Deleting rows writes no history.
LEMMA DeleteJobsIInv ==
    ASSUME IInv, NEW d \in Documents, DeleteJobs(d)
    PROVE  RowStep /\ IInv'
<1>1. TypeOK
  BY DEF IInv
<1>2. TypeOK'
  BY <1>1, TypedState, RowStatements DEF TypeOK, Table, DeleteJobs, JobsDeleted
<1>3. RowStep
  <2> SUFFICES ASSUME NEW j \in JobIds
               PROVE  SameClaim(jobs[j], jobs'[j]) /\ (Kept(j) \/ Dropped(j))
    BY DEF DeleteJobs, RowStep, SameClaim
  <2>1. jobs[j] \in Row
    BY <1>1, TypedState
  <2>2. jobs'[j] = jobs[j] \/ (Exists(jobs[j]) /\ jobs'[j] = DeletedRow(jobs[j]))
    BY DEF DeleteJobs, JobsDeleted
  <2> QED
    BY <2>1, <2>2, StatementFields DEF DeleteJobs, SameClaim, Kept, Dropped, Exists
<1> QED
  BY <1>2, <1>3, RowStepIInv

\* A heartbeat changes nothing the invariant looks at.
LEMMA HeartbeatIInv ==
    ASSUME IInv, NEW t \in tasks, Heartbeat(t)
    PROVE  RowStep /\ IInv'
<1>1. TypeOK
  BY DEF IInv
<1>2. t.job \in JobIds /\ t.worker \in Workers /\ jobs[t.job] \in Row
  BY <1>1, TypedState
<1>3. /\ HeartbeatRow(jobs[t.job], t.worker) \in Row
      /\ SameClaim(jobs[t.job], HeartbeatRow(jobs[t.job], t.worker))
      /\ HeartbeatRow(jobs[t.job], t.worker).status = jobs[t.job].status
  BY <1>2, RowStatements, StatementFields
<1>4. TypeOK'
  BY <1>1, <1>2, <1>3 DEF TypeOK, Table, Heartbeat
<1>5. RowStep
  BY <1>1, <1>2, <1>3, TypedState DEF Heartbeat, RowStep, SameClaim, Kept
<1> QED
  BY <1>4, <1>5, RowStepIInv

\* A lease that runs out changes the freshness of one row only.
LEMMA LeaseIInv ==
    ASSUME IInv, NEW j \in JobIds, LeaseExpires(j) \/ LeaseLapses(j)
    PROVE  RowStep /\ IInv'
<1>1. TypeOK
  BY DEF IInv
<1>2. /\ jobs' = [jobs EXCEPT ![j].fresh = FALSE]
      /\ UNCHANGED <<history, tasks, reclaimed>>
      /\ faults' = faults \/ faults' = faults + 1
  BY DEF LeaseExpires, LeaseLapses, Fault
<1>3. jobs[j] \in Row
  BY <1>1, TypedState
<1>4. [jobs[j] EXCEPT !.fresh = FALSE] \in Row
  BY <1>3 DEF Row
<1>5. TypeOK'
  BY <1>1, <1>2, <1>4 DEF TypeOK, Table
<1>6. RowStep
  BY <1>1, <1>2, <1>3, TypedState DEF RowStep, Kept, Row
<1> QED
  BY <1>5, <1>6, RowStepIInv

\* Tasks that die leave the table and the history as they were.
LEMMA TasksLostIInv ==
    ASSUME IInv, tasks' \subseteq tasks, Fault, UNCHANGED <<jobs, history, reclaimed>>
    PROVE  RowStep /\ IInv'
<1>1. TypeOK'
  BY DEF IInv, TypeOK, Fault
<1>2. RowStep
  BY DEF RowStep, Kept
<1> QED
  BY <1>1, <1>2, RowStepIInv

\* A live task of a job that was not reclaimed is the only one of that job, and its
\* row is running unless it was deleted.
LEMMA OnlyTask ==
    ASSUME IInv, NEW t \in tasks, reclaimed[t.job] = 0
    PROVE  /\ jobs[t.job].status \in {"running", "deleted"}
           /\ \A u \in tasks : u.job = t.job => u = t
BY DEF IInv, ClaimDiscipline, TaskHoldsJob, TasksNamed

\* The end of a handler: an outcome is written to an existing row, and the task is
\* gone afterwards.
LEMMA OutcomeIInv ==
    ASSUME IInv, NEW t \in tasks, NEW row \in Row, Outcome(t, row),
           SameClaim(jobs[t.job], row),
           \/ row.status = jobs[t.job].status /\ history' = history
           \/ /\ Exists(jobs[t.job])
              /\ row.status \in TerminalStatuses \cup {"pending"}
              /\ row.status = "pending" =>
                    jobs[t.job].attempts < MaxAttempts[jobs[t.job].kind]
              /\ WriteHistory(t.job)
    PROVE  RowStep /\ IInv'
<1>1. TypeOK
  BY DEF IInv
<1>2. t.job \in JobIds
  BY <1>1, TypedState
<1>3. /\ jobs'[t.job] = row
      /\ \A j \in JobIds \ {t.job} : jobs'[j] = jobs[j]
  BY <1>1, <1>2 DEF Outcome, TypeOK, Table
<1>4. history' \in [JobIds -> Seq(OpenStatuses \cup TerminalStatuses)]
  <2>1. CASE history' = history
    BY <1>1, <2>1 DEF TypeOK
  <2>2. CASE WriteHistory(t.job) /\ row.status \in TerminalStatuses \cup {"pending"}
    <3>1. jobs'[t.job].status \in OpenStatuses \cup TerminalStatuses
      BY <1>3, <2>2 DEF OpenStatuses
    <3>2. Append(history[t.job], jobs'[t.job].status)
             \in Seq(OpenStatuses \cup TerminalStatuses)
      BY <1>1, <1>2, <3>1 DEF TypeOK
    <3> QED
      BY <1>1, <1>2, <2>2, <3>2 DEF WriteHistory, TypeOK
  <2> QED
    BY <2>1, <2>2
<1>5. TypeOK'
  BY <1>1, <1>2, <1>4 DEF TypeOK, Table, Outcome
<1>6. ASSUME NEW j \in JobIds PROVE Kept(j) \/ Written(j)
  <2>1. CASE j # t.job
    BY <1>1, <1>3, <2>1 DEF Kept, WriteHistory, TypeOK
  <2>2. CASE j = t.job /\ row.status = jobs[t.job].status /\ history' = history
    BY <1>3, <2>2 DEF Kept
  <2>3. CASE /\ j = t.job
             /\ Exists(jobs[t.job])
             /\ row.status \in TerminalStatuses \cup {"pending"}
             /\ row.status = "pending" =>
                   jobs[t.job].attempts < MaxAttempts[jobs[t.job].kind]
             /\ WriteHistory(t.job)
    <3>1. history'[j] = Append(history[j], jobs'[j].status)
      BY <1>1, <2>3 DEF WriteHistory, TypeOK
    <3>2. reclaimed[j] = 0 => IsOpen(jobs[j]) /\ \A u \in tasks' : u.job # j
      BY <2>3, OnlyTask DEF Exists, Outcome, IsOpen, OpenStatuses
    <3> QED
      BY <1>3, <2>3, <3>1, <3>2 DEF Written, Exists
  <2> QED
    BY <2>1, <2>2, <2>3
<1>7. RowStep
  BY <1>3, <1>6 DEF RowStep, Outcome, SameClaim
<1> QED
  BY <1>5, <1>7, RowStepIInv

\* A handler that returns completes its job, and writes that ending once.
LEMMA CompleteIInv ==
    ASSUME IInv, NEW t \in tasks, Complete(t)
    PROVE  RowStep /\ IInv'
<1>1. jobs[t.job] \in Row
  BY TypedState DEF IInv
<1>2. /\ CompletedRow(jobs[t.job]) \in Row
      /\ SameClaim(jobs[t.job], CompletedRow(jobs[t.job]))
      /\ CompletedRow(jobs[t.job]).status =
            IF Exists(jobs[t.job]) THEN "completed" ELSE jobs[t.job].status
  BY <1>1, RowStatements, StatementFields
<1> QED
  BY <1>2, OutcomeIInv DEF Complete, TerminalStatuses

\* A handler that raises re-queues its job only with an attempt left.
LEMMA FailIInv ==
    ASSUME IInv, NEW t \in tasks, NEW b \in BOOLEAN, Fail(t, b)
    PROVE  RowStep /\ IInv'
<1>1. jobs[t.job] \in Row
  BY TypedState DEF IInv
<1>2. /\ FailedRow(jobs[t.job], b) \in Row
      /\ SameClaim(jobs[t.job], FailedRow(jobs[t.job], b))
      /\ FailedRow(jobs[t.job], b).status =
            IF Exists(jobs[t.job]) THEN FailStatus(jobs[t.job], b) ELSE jobs[t.job].status
  BY <1>1, RowStatements, StatementFields
<1>3. /\ FailStatus(jobs[t.job], b) \in {"pending", "failed"}
      /\ FailStatus(jobs[t.job], b) = "pending" =>
            jobs[t.job].attempts < MaxAttempts[jobs[t.job].kind]
  BY DEF FailStatus
<1> QED
  BY <1>2, <1>3, OutcomeIInv DEF Fail, TerminalStatuses

\* A handler that gives up at a flag ends the job once.
LEMMA CancelOutIInv ==
    ASSUME IInv, NEW t \in tasks, CancelOut(t)
    PROVE  RowStep /\ IInv'
<1>1. jobs[t.job] \in Row
  BY TypedState DEF IInv
<1>2. /\ CancelledRow(jobs[t.job]) \in Row
      /\ SameClaim(jobs[t.job], CancelledRow(jobs[t.job]))
      /\ CancelledRow(jobs[t.job]).status =
            IF IsOpen(jobs[t.job]) THEN "cancelled" ELSE jobs[t.job].status
  BY <1>1, RowStatements, StatementFields
<1> QED
  BY <1>2, OutcomeIInv DEF CancelOut, TerminalStatuses, IsOpen, OpenStatuses, Exists

\* A shutdown that cancels draft jobs cancels running ones, whose only task dies.
LEMMA ShutdownIInv ==
    ASSUME IInv, NEW w \in Workers, Shutdown(w)
    PROVE  RowStep /\ IInv'
<1>1. TypeOK
  BY DEF IInv
<1>2. PICK written \in SUBSET {j \in JobIds : ShutdownCancels(w, j)} :
         /\ jobs' = [j \in JobIds |-> IF j \in written THEN CancelledRow(jobs[j]) ELSE jobs[j]]
         /\ history' = [j \in JobIds |-> IF j \in written
                                        THEN Append(history[j], "cancelled") ELSE history[j]]
  BY DEF Shutdown
<1>3. /\ tasks' = tasks \ TasksOf(w)
      /\ faults' = faults + 1
      /\ reclaimed' = reclaimed
  BY DEF Shutdown, Fault
<1>4. \A j \in JobIds : jobs[j] \in Row
  BY <1>1, TypedState
<1>5. TypeOK'
  <2>1. \A j \in JobIds :
           Append(history[j], "cancelled") \in Seq(OpenStatuses \cup TerminalStatuses)
    BY <1>1 DEF TypeOK, TerminalStatuses
  <2> QED
    BY <1>1, <1>2, <1>3, <1>4, <2>1, RowStatements DEF TypeOK, Table
<1>6. ASSUME NEW j \in JobIds
      PROVE  SameClaim(jobs[j], jobs'[j]) /\ (Kept(j) \/ Written(j))
  <2>1. CASE j \notin written
    BY <1>2, <2>1 DEF Kept, SameClaim
  <2>2. CASE j \in written
    <3>1. PICK t \in TasksOf(w) : t.job = j
      BY <2>2 DEF ShutdownCancels
    <3>2. IsOpen(jobs[j]) /\ t \in tasks /\ t \notin tasks'
      BY <1>3, <2>2, <3>1 DEF ShutdownCancels, TasksOf
    <3>3. /\ SameClaim(jobs[j], jobs'[j])
          /\ jobs'[j].status = "cancelled"
          /\ history'[j] = Append(history[j], "cancelled")
      BY <1>2, <1>4, <2>2, <3>2, StatementFields
    <3>4. reclaimed[j] = 0 => \A u \in tasks' : u.job # j
      BY <1>3, <3>1, <3>2, OnlyTask DEF IsOpen, OpenStatuses
    <3> QED
      BY <3>2, <3>3, <3>4 DEF Written, TerminalStatuses, IsOpen, OpenStatuses
  <2> QED
    BY <2>1, <2>2
<1>7. RowStep
  BY <1>3, <1>6 DEF RowStep, SameClaim, TasksOf
<1> QED
  BY <1>5, <1>7, RowStepIInv

-----------------------------------------------------------------------------
(* The other steps: a new row, a claim, a task that gets its slot, a reclaim *)

\* A new row has all its attempts left and no task.
LEMMA EnqueueIInv ==
    ASSUME IInv, NEW kind \in Kinds, NEW owner \in Owners, NEW key \in Keys \cup {NoKey},
           Enqueue(kind, owner, key)
    PROVE  IInv'
<1> USE DEF IInv, ClaimDiscipline
<1>1. UNCHANGED <<history, tasks, reclaimed, faults>>
  BY DEF Enqueue
<1>2. CASE jobs' = jobs
  <2>1. TypeOK'
    BY <1>1, <1>2 DEF TypeOK
  <2>2. RowStep
    BY <1>1, <1>2 DEF RowStep, Kept
  <2> QED
    BY <2>1, <2>2, RowStepIInv
<1>3. CASE \E j \in JobIds : NextId(jobs, j)
                             /\ jobs' = [jobs EXCEPT ![j] = NewRow(kind, owner, key)]
  <2>1. PICK j \in JobIds : NextId(jobs, j)
                           /\ jobs' = [jobs EXCEPT ![j] = NewRow(kind, owner, key)]
    BY <1>3
  <2>2. jobs[j].status = "absent"
    BY <2>1 DEF NextId
  <2>3. NewRow(kind, owner, key) \in Row
    BY DEF NewRow, Row, Statuses
  <2>4. TypeOK'
    BY <1>1, <2>1, <2>3 DEF TypeOK, Table
  <2>5. /\ jobs'[j] = NewRow(kind, owner, key)
        /\ \A i \in JobIds : i # j => jobs'[i] = jobs[i]
    BY <2>1 DEF TypeOK, Table
  <2>6. /\ jobs'[j].status = "pending" /\ jobs'[j].attempts = 0
        /\ jobs'[j].kind \in Kinds /\ reclaimed[j] \in Nat
    BY <2>5 DEF NewRow, TypeOK
  <2>7. \A t \in tasks : t.job \in JobIds /\ t.job # j
    BY <2>2, TypedState DEF TasksNamed
  <2>8. TasksNamed'
    BY <1>1, <2>5, <2>7 DEF TasksNamed
  <2>9. TaskHoldsJob'
    BY <1>1, <2>5, <2>7 DEF TaskHoldsJob
  <2>10. MaxAttempts[jobs'[j].kind] \in Nat /\ MaxAttempts[jobs'[j].kind] >= 1
    BY <2>6, BudgetPositive
  <2>11. PendingHasBudget'
    BY <1>1, <2>5, <2>6, <2>10 DEF PendingHasBudget
  <2>12. AttemptsWithinBudget'
    BY <1>1, <2>5, <2>6, <2>10 DEF AttemptsWithinBudget
  <2>13. OpenHasNoEnding'
    BY <1>1, <2>2, <2>5 DEF OpenHasNoEnding
  <2>14. HistoryHasOneEnding'
    BY <1>1, <2>5, <2>6 DEF HistoryHasOneEnding, TerminalStatuses
  <2> QED
    BY <2>4, <2>8, <2>9, <2>11, <2>12, <2>13, <2>14
<1> QED
  BY <1>2, <1>3 DEF Enqueue, Enqueued

\* A claim uses up one attempt; the attempt it counts names the new task.
LEMMA ClaimIInv ==
    ASSUME IInv, NEW w \in Workers, NEW j \in JobIds, Claim(w, j)
    PROVE  IInv'
<1> USE DEF IInv, ClaimDiscipline
<1> DEFINE new == [job |-> j, n |-> jobs[j].attempts + 1, worker |-> w, phase |-> "waiting"]
<1>1. /\ jobs[j].status = "pending"
      /\ jobs' = [jobs EXCEPT ![j] = ClaimedRow(@, w)]
      /\ tasks' = tasks \cup {new}
      /\ UNCHANGED <<history, reclaimed, faults>>
  BY DEF Claim, Claimable
<1>2. jobs[j] \in Row /\ jobs[j].attempts \in Nat
  BY TypedState DEF Row
<1>3. /\ jobs'[j] = ClaimedRow(jobs[j], w)
      /\ \A i \in JobIds : i # j => jobs'[i] = jobs[i]
  BY <1>1 DEF TypeOK, Table
<1>4. /\ jobs'[j].status = "running" /\ jobs'[j].attempts = jobs[j].attempts + 1
      /\ jobs'[j].kind = jobs[j].kind /\ jobs'[j].worker = w
  BY <1>2, <1>3 DEF ClaimedRow, Row
<1>5. TypeOK'
  <2>1. ClaimedRow(jobs[j], w) \in Row
    BY <1>2, RowStatements
  <2>2. new \in Task
    BY <1>2 DEF Task, Phases
  <2> QED
    BY <1>1, <2>1, <2>2 DEF TypeOK, Table
<1>6. \A t \in tasks : t.job \in JobIds /\ t.n \in Nat /\ t.n <= jobs[t.job].attempts
  BY TypedState DEF TasksNamed
<1>7. TasksNamed'
  <2>1. \A t \in tasks' : /\ 1 <= t.n /\ t.n <= jobs'[t.job].attempts
                          /\ jobs'[t.job].status # "absent"
    BY <1>1, <1>2, <1>3, <1>4, <1>6 DEF TasksNamed
  <2>2. \A t \in tasks : ~(t.job = new.job /\ t.n = new.n)
    BY <1>2, <1>6
  <2>3. \A t, u \in tasks' : t.job = u.job /\ t.n = u.n => t = u
    BY <1>1, <2>2 DEF TasksNamed
  <2> QED
    BY <2>1, <2>3 DEF TasksNamed
<1>8. TaskHoldsJob'
  <2>1. \A t \in tasks : reclaimed[t.job] = 0 => t.job # j
    BY <1>1 DEF TaskHoldsJob
  <2> QED
    BY <1>1, <1>3, <1>4, <1>6, <2>1 DEF TaskHoldsJob
<1>9. PendingHasBudget'
  BY <1>1, <1>3, <1>4 DEF PendingHasBudget
<1>10. AttemptsWithinBudget'
  <2>1. MaxAttempts[jobs[j].kind] \in Nat /\ reclaimed[j] \in Nat
    BY <1>2, BudgetPositive DEF Row, TypeOK
  <2>2. jobs[j].attempts < MaxAttempts[jobs[j].kind] + reclaimed[j]
    BY <1>1 DEF PendingHasBudget
  <2> QED
    BY <1>1, <1>2, <1>3, <1>4, <2>1, <2>2 DEF AttemptsWithinBudget
<1>11. OpenHasNoEnding'
  BY <1>1, <1>3, <1>4 DEF OpenHasNoEnding, OpenStatuses
<1>12. HistoryHasOneEnding'
  BY <1>1, <1>3, <1>4 DEF HistoryHasOneEnding, TerminalStatuses
<1> QED
  BY <1>5, <1>7, <1>8, <1>9, <1>10, <1>11, <1>12

\* Getting a slot changes the phase of a task only.
LEMMA StartIInv ==
    ASSUME IInv, NEW t \in tasks, Start(t)
    PROVE  IInv'
<1> USE DEF IInv, ClaimDiscipline
<1> DEFINE started == [t EXCEPT !.phase = "running"]
<1>1. /\ tasks' = (tasks \ {t}) \cup {started}
      /\ UNCHANGED <<jobs, history, reclaimed, faults>>
  BY DEF Start
<1>2. t \in Task
  BY DEF TypeOK
<1>3. started \in Task
  BY <1>2 DEF Task, Phases
<1>4. started.job = t.job /\ started.n = t.n /\ started.worker = t.worker
  BY <1>2 DEF Task
<1> HIDE DEF started
<1>5. TypeOK'
  BY <1>1, <1>3 DEF TypeOK
<1>6. TasksNamed'
  <2>1. \A u \in tasks' : (u \in tasks /\ u # t) \/ u = started
    BY <1>1
  <2>2. \A u \in tasks' : /\ 1 <= u.n /\ u.n <= jobs'[u.job].attempts
                          /\ jobs'[u.job].status # "absent"
    BY <1>1, <1>4, <2>1 DEF TasksNamed
  <2>3. \A u, v \in tasks' : u.job = v.job /\ u.n = v.n => u = v
    BY <1>4, <2>1 DEF TasksNamed
  <2> QED
    BY <2>2, <2>3 DEF TasksNamed
<1>7. TaskHoldsJob'
  BY <1>1, <1>4 DEF TaskHoldsJob
<1>8. PendingHasBudget' /\ AttemptsWithinBudget' /\ OpenHasNoEnding' /\ HistoryHasOneEnding'
  BY <1>1 DEF PendingHasBudget, AttemptsWithinBudget, OpenHasNoEnding, HistoryHasOneEnding
<1> QED
  BY <1>5, <1>6, <1>7, <1>8

\* A reclaim gives the job one attempt more than its budget, and is counted.
LEMMA ReclaimStuckIInv ==
    ASSUME IInv, ReclaimStuck
    PROVE  IInv'
<1> USE DEF IInv, ClaimDiscipline
<1>1. /\ jobs' = [j \in JobIds |-> ReclaimedRow(jobs[j])]
      /\ reclaimed' = [j \in JobIds |-> IF Stuck(jobs[j]) THEN reclaimed[j] + 1
                                        ELSE reclaimed[j]]
      /\ UNCHANGED <<history, tasks, faults>>
  BY DEF ReclaimStuck
<1>2. \A j \in JobIds : jobs[j] \in Row /\ reclaimed[j] \in Nat
  BY TypedState DEF TypeOK
<1>3. TypeOK'
  BY <1>1, <1>2, RowStatements DEF TypeOK, Table
<1>4. ASSUME NEW j \in JobIds
      PROVE  /\ jobs'[j].kind = jobs[j].kind /\ jobs'[j].attempts = jobs[j].attempts
             /\ Stuck(jobs[j]) => /\ jobs[j].status = "running"
                                  /\ jobs'[j].status = "pending"
                                  /\ reclaimed'[j] = reclaimed[j] + 1
                                  /\ reclaimed'[j] # 0
             /\ ~Stuck(jobs[j]) => jobs'[j] = jobs[j] /\ reclaimed'[j] = reclaimed[j]
  <2>1. jobs[j] \in Row /\ reclaimed[j] \in Nat
    BY <1>2
  <2>2. /\ jobs'[j] = ReclaimedRow(jobs[j])
        /\ reclaimed'[j] = IF Stuck(jobs[j]) THEN reclaimed[j] + 1 ELSE reclaimed[j]
    BY <1>1
  <2>3. CASE Stuck(jobs[j])
    <3>1. reclaimed'[j] = reclaimed[j] + 1 /\ reclaimed'[j] # 0
      BY <2>1, <2>2, <2>3
    <3>2. /\ jobs'[j].kind = jobs[j].kind /\ jobs'[j].attempts = jobs[j].attempts
          /\ jobs'[j].status = "pending"
      BY <2>1, <2>2, <2>3 DEF ReclaimedRow, Row
    <3> QED
      BY <2>3, <3>1, <3>2 DEF Stuck
  <2>4. CASE ~Stuck(jobs[j])
    BY <2>2, <2>4 DEF ReclaimedRow
  <2> QED
    BY <2>3, <2>4
<1>5. \A t \in tasks : t.job \in JobIds
  BY TypedState
<1>6. TasksNamed'
  BY <1>1, <1>4, <1>5 DEF TasksNamed
<1>7. TaskHoldsJob'
  BY <1>1, <1>4, <1>5 DEF TaskHoldsJob
<1>8. \A j \in JobIds : MaxAttempts[jobs[j].kind] \in Nat /\ jobs[j].attempts \in Nat
  BY <1>2, BudgetPositive DEF Row
<1>9. PendingHasBudget' /\ AttemptsWithinBudget'
  BY <1>2, <1>4, <1>8 DEF PendingHasBudget, AttemptsWithinBudget
<1>10. OpenHasNoEnding'
  BY <1>1, <1>4 DEF OpenHasNoEnding
<1>11. HistoryHasOneEnding'
  BY <1>1, <1>4 DEF HistoryHasOneEnding
<1> QED
  BY <1>3, <1>6, <1>7, <1>9, <1>10, <1>11

-----------------------------------------------------------------------------
(* The theorems *)

\* Every step of the system preserves the inductive invariant.
LEMMA NextIInv == IInv /\ [Next]_vars => IInv'
<1> SUFFICES ASSUME IInv, [Next]_vars PROVE IInv'
  OBVIOUS
<1>1. CASE UNCHANGED vars
  <2>1. TypeOK'
    BY <1>1 DEF IInv, TypeOK, vars
  <2>2. RowStep
    BY <1>1 DEF RowStep, Kept, vars
  <2> QED
    BY <2>1, <2>2, RowStepIInv
<1>2. CASE ServiceStep
  BY <1>2, EnqueueIInv, RequestCancelForDocumentIInv, DeleteJobsIInv,
     RequestCancelForDraftIInv DEF ServiceStep
<1>3. CASE WorkerStep
  <2>1. CASE \E w \in Workers : \E j \in JobIds : Claim(w, j)
    BY <2>1, ClaimIInv
  <2>2. CASE \E t \in tasks : \/ Start(t) \/ Heartbeat(t) \/ Complete(t) \/ CancelOut(t)
                             \/ \E retryable \in BOOLEAN : Fail(t, retryable)
    BY <2>2, StartIInv, HeartbeatIInv, CompleteIInv, CancelOutIInv, FailIInv
  <2>3. CASE \E t \in tasks : OutcomeLost(t)
    BY <2>3, TasksLostIInv DEF OutcomeLost
  <2>4. CASE \E w \in Workers : Crash(w)
    BY <2>4, TasksLostIInv DEF Crash
  <2>5. CASE \E w \in Workers : Shutdown(w)
    BY <2>5, ShutdownIInv
  <2> QED
    BY <1>3, <2>1, <2>2, <2>3, <2>4, <2>5 DEF WorkerStep
<1>4. CASE TimeStep
  BY <1>4, ReclaimStuckIInv, LeaseIInv DEF TimeStep
<1> QED
  BY <1>1, <1>2, <1>3, <1>4 DEF Next

\* The inductive invariant holds in every reachable state.
THEOREM InductiveInvariant == Spec => []IInv
<1>1. Init => IInv
  BY InitIInv
<1>2. IInv /\ [Next]_vars => IInv'
  BY NextIInv
<1> QED
  BY <1>1, <1>2, PTL DEF Spec

\* Every row, history and task of the queue has its type.
THEOREM TypeCorrect == Spec => []TypeOK
<1>1. IInv => TypeOK
  BY DEF IInv
<1> QED
  BY <1>1, InductiveInvariant, PTL

\* A job is never claimed more often than its budget and its reclaims allow.
THEOREM AttemptsBudget == Spec => []AttemptsWithinBudget
<1>1. IInv => AttemptsWithinBudget
  BY DEF IInv
<1> QED
  BY <1>1, InductiveInvariant, PTL

\* claim_one hands a job to one task at a time, unless reclaim_stuck interferes.
THEOREM Exclusion == Spec => []OverlapNeedsReclaim
<1>1. IInv => OverlapNeedsReclaim
  <2> SUFFICES ASSUME IInv, NEW t \in tasks, NEW u \in tasks, t.job = u.job, t # u
               PROVE  reclaimed[t.job] > 0
    BY DEF OverlapNeedsReclaim
  <2>1. t.job \in JobIds /\ reclaimed[t.job] \in Nat
    BY TypedState DEF IInv, TypeOK
  <2>2. reclaimed[t.job] # 0
    BY OnlyTask
  <2> QED
    BY <2>1, <2>2
<1> QED
  BY <1>1, InductiveInvariant, PTL

\* A job that was not reclaimed has one ending in its history, the one of its row.
THEOREM OneEnding == Spec => []HistoryHasOneEnding
<1>1. IInv => HistoryHasOneEnding
  BY DEF IInv
<1> QED
  BY <1>1, InductiveInvariant, PTL

\* A step that starts no task leaves a finished job finished, unless the job was
\* reclaimed: nobody writes an outcome to it.
LEMMA RowStepKeepsFinished ==
    ASSUME RowStep, NEW j \in JobIds, jobs[j].status \in TerminalStatuses, reclaimed[j] = 0
    PROVE  jobs'[j].status \in {jobs[j].status, "deleted"}
BY DEF RowStep, Kept, Dropped, Written, IsOpen, OpenStatuses, TerminalStatuses

\* The other steps touch absent, pending and running rows only.
LEMMA OtherStepsKeepFinished ==
    ASSUME TypeOK, NEW j \in JobIds, jobs[j].status \in TerminalStatuses,
           \/ \E k \in Kinds, o \in Owners, key \in Keys \cup {NoKey} : Enqueue(k, o, key)
           \/ \E w \in Workers, i \in JobIds : Claim(w, i)
           \/ \E t \in tasks : Start(t)
           \/ ReclaimStuck
    PROVE  jobs'[j].status = jobs[j].status
<1> USE DEF TerminalStatuses
<1>1. DOMAIN jobs = JobIds
  BY TypedState
<1>2. ASSUME NEW k \in Kinds, NEW o \in Owners, NEW key \in Keys \cup {NoKey},
             Enqueue(k, o, key)
      PROVE  jobs'[j] = jobs[j]
  BY <1>1, <1>2 DEF Enqueue, Enqueued, NextId, TypeOK, Table
<1>3. ASSUME NEW w \in Workers, NEW i \in JobIds, Claim(w, i)
      PROVE  jobs'[j] = jobs[j]
  BY <1>1, <1>3 DEF Claim, Claimable, TypeOK, Table
<1>4. ASSUME ReclaimStuck PROVE jobs'[j] = jobs[j]
  BY <1>4 DEF ReclaimStuck, ReclaimedRow, Stuck
<1> QED
  BY <1>2, <1>3, <1>4 DEF Start

\* A step of the system leaves finished jobs finished, whatever step it is.
LEMMA StepKeepsFinished ==
    ASSUME IInv, [Next]_vars, NEW j \in JobIds,
           jobs[j].status \in TerminalStatuses, reclaimed[j] = 0
    PROVE  jobs'[j].status \in {jobs[j].status, "deleted"}
<1>1. CASE UNCHANGED vars
  BY <1>1 DEF vars
<1>2. CASE ServiceStep
  BY <1>2, OtherStepsKeepFinished, RequestCancelForDocumentIInv, DeleteJobsIInv,
     RequestCancelForDraftIInv, RowStepKeepsFinished DEF ServiceStep, IInv
<1>3. CASE WorkerStep
  <2>1. CASE \E w \in Workers : \E i \in JobIds : Claim(w, i)
    BY <2>1, OtherStepsKeepFinished DEF IInv
  <2>2. CASE \E t \in tasks : Start(t)
    BY <2>2, OtherStepsKeepFinished DEF IInv
  <2>3. CASE \E t \in tasks : \/ Heartbeat(t) \/ Complete(t) \/ CancelOut(t)
                             \/ \E retryable \in BOOLEAN : Fail(t, retryable)
    BY <2>3, HeartbeatIInv, CompleteIInv, CancelOutIInv, FailIInv, RowStepKeepsFinished
  <2>4. CASE \/ \E t \in tasks : OutcomeLost(t)
             \/ \E w \in Workers : Crash(w)
    BY <2>4 DEF OutcomeLost, Crash
  <2>5. CASE \E w \in Workers : Shutdown(w)
    BY <2>5, ShutdownIInv, RowStepKeepsFinished
  <2> QED
    BY <1>3, <2>1, <2>2, <2>3, <2>4, <2>5 DEF WorkerStep
<1>4. CASE TimeStep
  BY <1>4, LeaseIInv, OtherStepsKeepFinished, RowStepKeepsFinished DEF TimeStep, IInv
<1> QED
  BY <1>1, <1>2, <1>3, <1>4 DEF Next

\* The outcome of a job is final until its row is deleted, unless the job was
\* reclaimed.
THEOREM FinishedIsFinal == Spec => FinishedStaysFinished
<1>1. IInv /\ [Next]_vars =>
         [\A j \in JobIds :
             jobs[j].status \in TerminalStatuses /\ reclaimed[j] = 0
                 => jobs'[j].status \in {jobs[j].status, "deleted"}]_vars
  BY StepKeepsFinished
<1> QED
  BY <1>1, InductiveInvariant, PTL DEF Spec, FinishedStaysFinished
=============================================================================
