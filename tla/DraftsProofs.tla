----------------------------- MODULE DraftsProofs -----------------------------
(***************************************************************************)
(* Proofs about Drafts, for every set of jobs, workers, requests and forms,   *)
(* every retry budget, and any number of saves, eras and faults.              *)
(*                                                                          *)
(* Nothing in the code keeps two generation tasks of a draft apart once a     *)
(* reclaim has given its job away twice; the status does.  mark_generating    *)
(* lets one task past "queued", and no statement sets a draft to queued       *)
(* again.  The invariant says so: at most one task is past mark_generating    *)
(* and not yet at its end, only while the draft is generating or deleted,     *)
(* and the section's row is there exactly when the draft is complete.         *)
(***************************************************************************)
EXTENDS Drafts, JobTableProofs

Working == {t \in tasks : t.pc \in {"retrieve", "write"}}

\* The types that the argument needs.
RowsTyped ==
    /\ draft \in [status : DraftStatuses, ai : Nat, final : Nat]
    /\ sections \in [rows : Nat, text : Nat]
    /\ tasks \subseteq Task
    /\ written \in Nat
    /\ era \in Nat /\ cited \in Nat /\ cited <= era

OneWorks ==
    /\ \A t, u \in Working : t = u
    /\ Working # {} => draft.status \in {"generating", "deleted"}

RowIffComplete == sections.rows = IF Complete THEN 1 ELSE 0

\* The part of the invariant that is about the draft.
Core == RowsTyped /\ OneWorks /\ RowIffComplete /\ CurrentTextIsCited

\* The types of the rest.
RestTyped ==
    /\ citations \subseteq Citation /\ edits \subseteq Edit
    /\ jobs \in Table
    /\ \A t \in tasks : t.era <= era
    /\ requests \in [Requests -> Request]
    /\ \A r \in Requests : requests[r].era <= era
    /\ forms \in [Forms -> Nat \cup {NoForm}]
    /\ deleting \in {"no", "asked", "cancelled", "flagged", "done"}
    /\ budget \in Budgets /\ era <= budget.eras
    /\ saves \in 0 .. budget.saves /\ faults \in 0 .. budget.faults

IInv == Core /\ RestTyped

-----------------------------------------------------------------------------
(* Initial states, and steps that leave the rows alone *)

\* There is no section and no task at first.
LEMMA InitCore == Init => Core
BY DEF Init, Core, RowsTyped, OneWorks, RowIffComplete, CurrentTextIsCited, Working, Complete,
       DraftStatuses

\* A task that is rewritten by goto stays a task.
LEMMA GotoTyped ==
    ASSUME RowsTyped, NEW t \in tasks, NEW pc \in TaskPcs, Goto(t, pc)
    PROVE  /\ tasks' \subseteq Task
           /\ \A u \in tasks' : u \in tasks \/ (u = [t EXCEPT !.pc = pc] /\ u.pc = pc)
<1>1. t \in Task
  BY DEF RowsTyped
<1>2. [t EXCEPT !.pc = pc] \in Task /\ [t EXCEPT !.pc = pc].pc = pc
  BY <1>1 DEF Task
<1> QED
  BY <1>2 DEF Goto, RowsTyped

\* Such a step ends work or leaves it as it is.
LEMMA KeepsRows ==
    ASSUME Core, UNCHANGED rowVars, tasks' \subseteq Task, Working' \subseteq Working
    PROVE  Core'
<1> USE DEF rowVars
<1>1. RowsTyped'
  BY DEF Core, RowsTyped
<1>2. OneWorks'
  BY DEF Core, OneWorks
<1>3. RowIffComplete' /\ CurrentTextIsCited'
  BY DEF Core, RowIffComplete, CurrentTextIsCited, Complete
<1> QED
  BY <1>1, <1>2, <1>3 DEF Core

\* A task that has not begun to work or has come to its end leaves the others alone.
LEMMA LeavesWork ==
    ASSUME RowsTyped, NEW t \in tasks, NEW pc \in TaskPcs \ {"retrieve", "write"}, Goto(t, pc)
    PROVE  tasks' \subseteq Task /\ Working' \subseteq Working /\ t \notin Working'
<1>1. /\ tasks' \subseteq Task
      /\ \A u \in tasks' : u \in tasks \/ u.pc = pc
  BY GotoTyped
<1>2. Working' \subseteq Working
  BY <1>1 DEF Working
<1>3. t \notin Working'
  <2>1. CASE t.pc = pc
    BY <2>1 DEF Working
  <2>2. CASE t.pc # pc
    <3>1. t # [t EXCEPT !.pc = pc]
      BY <2>2 DEF RowsTyped, Task
    <3> QED
      BY <3>1 DEF Goto, Working
  <2> QED
    BY <2>1, <2>2
<1> QED
  BY <1>1, <1>2, <1>3

-----------------------------------------------------------------------------
(* The generation *)

\* Only a queued draft is taken; nobody works for it then.
LEMMA MarkCore ==
    ASSUME Core, NEW t \in tasks, MarkGenerating(t)
    PROVE  Core'
<1>1. RowsTyped /\ OneWorks /\ RowIffComplete /\ CurrentTextIsCited
  BY DEF Core
<1>2. CASE /\ draft.status = "queued"
           /\ draft' = [draft EXCEPT !.status = "generating"]
           /\ Goto(t, "retrieve")
  <2>1. /\ tasks' \subseteq Task
        /\ \A u \in tasks' : u \in tasks \/ u = [t EXCEPT !.pc = "retrieve"]
    BY <1>1, <1>2, GotoTyped DEF TaskPcs
  <2>2. Working = {}
    BY <1>1, <1>2 DEF OneWorks
  <2>3. \A u \in Working' : u = [t EXCEPT !.pc = "retrieve"]
    BY <2>1, <2>2 DEF Working
  <2>4. /\ draft' \in [status : DraftStatuses, ai : Nat, final : Nat]
        /\ draft'.status = "generating"
    BY <1>1, <1>2 DEF RowsTyped, DraftStatuses
  <2>5. RowsTyped'
    BY <1>1, <2>1, <2>4 DEF RowsTyped, MarkGenerating
  <2>6. OneWorks'
    BY <2>3, <2>4 DEF OneWorks
  <2>7. RowIffComplete' /\ CurrentTextIsCited'
    BY <1>1, <1>2, <2>4 DEF RowIffComplete, CurrentTextIsCited, Complete, MarkGenerating
  <2> QED
    BY <2>5, <2>6, <2>7 DEF Core
<1>3. CASE UNCHANGED draft /\ (Goto(t, "cancelled") \/ Goto(t, "giveup"))
  <2>1. tasks' \subseteq Task /\ Working' \subseteq Working
    BY <1>1, <1>3, LeavesWork DEF TaskPcs
  <2> QED
    BY <1>3, <2>1, KeepsRows DEF MarkGenerating, rowVars
<1> QED
  BY <1>2, <1>3 DEF MarkGenerating

\* The task at work is still the only one.
LEMMA RetrieveCore ==
    ASSUME Core, NEW t \in tasks, Retrieve(t)
    PROVE  Core'
<1> DEFINE t2 == [t EXCEPT !.pc = "write", !.era = era]
<1>1. RowsTyped /\ OneWorks /\ RowIffComplete /\ CurrentTextIsCited
  BY DEF Core
<1>2. t \in Task /\ t \in Working
  BY <1>1 DEF RowsTyped, Retrieve, Working
<1>3. t2 \in Task
  BY <1>1, <1>2 DEF Task, RowsTyped, TaskPcs
<1>4. tasks' \subseteq Task /\ \A u \in tasks' : u \in tasks \ {t} \/ u = t2
  BY <1>1, <1>3 DEF Retrieve, RowsTyped
<1>5. \A u \in Working' : u = t2
  BY <1>1, <1>2, <1>4 DEF OneWorks, Working
<1>6. RowsTyped'
  BY <1>1, <1>4 DEF RowsTyped, Retrieve, rowVars
<1>7. OneWorks'
  BY <1>1, <1>2, <1>5 DEF OneWorks, Retrieve, rowVars
<1>8. RowIffComplete' /\ CurrentTextIsCited'
  BY <1>1 DEF RowIffComplete, CurrentTextIsCited, Complete, Retrieve, rowVars
<1> QED
  BY <1>6, <1>7, <1>8 DEF Core

\* The draft was generating or is gone, so there is no row that "failed" would hide.
LEMMA FailsCore ==
    ASSUME Core, NEW t \in tasks, GenerationFails(t)
    PROVE  Core'
<1>1. RowsTyped /\ OneWorks /\ RowIffComplete /\ CurrentTextIsCited
  BY DEF Core
<1>2. t \in Working
  BY DEF GenerationFails, Working
<1>3. draft.status \in {"generating", "deleted"}
  BY <1>1, <1>2 DEF OneWorks
<1>4. tasks' \subseteq Task /\ Working' \subseteq Working /\ t \notin Working'
  BY <1>1, LeavesWork DEF TaskPcs, GenerationFails
<1>5. Working' = {}
  BY <1>1, <1>2, <1>4 DEF OneWorks
<1>6. /\ draft' \in [status : DraftStatuses, ai : Nat, final : Nat]
      /\ draft'.status \in {"failed", "deleted"}
  BY <1>1, <1>3 DEF RowsTyped, DraftStatuses, GenerationFails, DraftExists
<1>7. RowsTyped'
  BY <1>1, <1>4, <1>6 DEF RowsTyped, GenerationFails
<1>8. OneWorks'
  BY <1>5 DEF OneWorks
<1>9. RowIffComplete' /\ CurrentTextIsCited'
  BY <1>1, <1>3, <1>6 DEF RowIffComplete, CurrentTextIsCited, Complete, GenerationFails
<1> QED
  BY <1>7, <1>8, <1>9 DEF Core

\* The draft was generating and had no row; it is ready and has one.
LEMMA FinalizeCore ==
    ASSUME Core, NEW t \in tasks, Finalize(t)
    PROVE  Core'
<1>1. RowsTyped /\ OneWorks /\ RowIffComplete /\ CurrentTextIsCited
  BY DEF Core
<1>2. t \in Working
  BY DEF Finalize, Working
<1>3. draft.status = "generating"
  BY <1>1, <1>2 DEF OneWorks, Finalize, DraftExists
<1>4. sections.rows = 0
  BY <1>1, <1>3 DEF RowIffComplete, Complete
<1>5. tasks' \subseteq Task /\ Working' \subseteq Working /\ t \notin Working'
  BY <1>1, LeavesWork DEF TaskPcs, Finalize
<1>6. Working' = {}
  BY <1>1, <1>2, <1>5 DEF OneWorks
<1>7. /\ draft' \in [status : DraftStatuses, ai : Nat, final : Nat]
      /\ draft'.status = "ready"
  <2>1. written' \in Nat
    BY <1>1 DEF RowsTyped, Finalize
  <2>2. draft' = [[draft EXCEPT !.status = "ready"] EXCEPT !.ai = written']
    BY DEF Finalize
  <2> QED
    BY <1>1, <2>1, <2>2 DEF RowsTyped, DraftStatuses
<1>8. RowsTyped'
  BY <1>1, <1>4, <1>5, <1>7 DEF RowsTyped, Finalize
<1>9. OneWorks'
  BY <1>6 DEF OneWorks
<1>10. RowIffComplete'
  BY <1>4, <1>7 DEF RowIffComplete, Complete, Finalize
<1>11. CurrentTextIsCited'
  BY DEF CurrentTextIsCited, Finalize
<1> QED
  BY <1>8, <1>9, <1>10, <1>11 DEF Core

\* Every step of a task.
LEMMA TaskCore ==
    ASSUME Core, NEW t \in tasks, TaskStep(t) \/ Shutdown(t)
    PROVE  Core'
<1>1. CASE TemplateMissing(t) \/ CancelSeen(t) \/ FinalizeFails(t)
  <2>1. /\ UNCHANGED rowVars
        /\ \E pc \in TaskPcs \ {"retrieve", "write"} : Goto(t, pc)
    BY <1>1 DEF TemplateMissing, CancelSeen, FinalizeFails, TaskPcs
  <2> QED
    BY <2>1, LeavesWork, KeepsRows DEF Core
<1>2. CASE Outcome(t) \/ Shutdown(t)
  <2>1. UNCHANGED rowVars /\ tasks' \subseteq tasks
    BY <1>2 DEF Outcome, Shutdown
  <2> QED
    BY <2>1, KeepsRows DEF Core, RowsTyped, Working
<1>3. CASE MarkGenerating(t)
  BY <1>3, MarkCore
<1>4. CASE Retrieve(t)
  BY <1>4, RetrieveCore
<1>5. CASE GenerationFails(t)
  BY <1>5, FailsCore
<1>6. CASE Finalize(t)
  BY <1>6, FinalizeCore
<1> QED
  BY <1>1, <1>2, <1>3, <1>4, <1>5, <1>6 DEF TaskStep

-----------------------------------------------------------------------------
(* The other requests *)

\* A regeneration rewrites the text of the one row, and cites it.
LEMMA RegenerateCore ==
    ASSUME Core, NEW r \in Requests, RegenerateStarts(r) \/ RegenerateStep(r)
    PROVE  Core'
<1>1. RowsTyped /\ OneWorks /\ RowIffComplete /\ CurrentTextIsCited
  BY DEF Core
<1>2. CASE RegenerateStarts(r) \/ ReplaceBegins(r) \/ RegenerateFails(r)
  <2>1. UNCHANGED <<rowVars, tasks>>
    BY <1>2 DEF RegenerateStarts, ReplaceBegins, RegenerateFails
  <2> QED
    BY <1>1, <2>1, KeepsRows DEF RowsTyped, Working
<1>3. CASE Replace(r)
  <2>1. sections' \in [rows : Nat, text : Nat] /\ sections'.rows = sections.rows
    BY <1>1, <1>3 DEF RowsTyped, Replace
  <2>2. RowsTyped'
    BY <1>1, <1>3, <2>1 DEF RowsTyped, Replace
  <2>3. OneWorks' /\ RowIffComplete'
    BY <1>1, <1>3, <2>1 DEF OneWorks, RowIffComplete, Working, Complete, Replace
  <2>4. sections'.text = written'
    BY <1>1, <1>3 DEF RowsTyped, Replace
  <2>5. CurrentTextIsCited'
    BY <1>3, <2>4 DEF CurrentTextIsCited, Replace
  <2> QED
    BY <2>2, <2>3, <2>5 DEF Core
<1> QED
  BY <1>2, <1>3 DEF RegenerateStep

\* A saved edit is one of a complete draft, and the draft stays complete.
LEMMA SaveCore ==
    ASSUME Core, forms \in [Forms -> Nat \cup {NoForm}], NEW f \in Forms, Save(f)
    PROVE  Core'
<1>1. RowsTyped /\ OneWorks /\ RowIffComplete /\ CurrentTextIsCited
  BY DEF Core
<1>2. PICK user \in Nat, next \in Nat : /\ draft' = [draft EXCEPT !.status = "edited", !.final = user]
                                       /\ written' = next
  <2>1. forms[f] \in Nat /\ written + 1 \in Nat /\ written \in Nat
    BY <1>1 DEF Save, RowsTyped
  <2>2. PICK changed \in BOOLEAN :
           /\ draft' = [draft EXCEPT !.status = "edited",
                                     !.final = IF changed THEN written + 1 ELSE forms[f]]
           /\ written' = IF changed THEN written + 1 ELSE written
    BY DEF Save
  <2>3. CASE changed = TRUE
    BY <2>1, <2>2, <2>3, Zenon
  <2>4. CASE changed = FALSE
    BY <2>1, <2>2, <2>4, Zenon
  <2> QED
    BY <2>3, <2>4
<1>3. /\ draft' \in [status : DraftStatuses, ai : Nat, final : Nat]
      /\ draft'.status = "edited"
  <2>1. draft' = [[draft EXCEPT !.status = "edited"] EXCEPT !.final = user]
    BY <1>2
  <2> QED
    BY <1>1, <2>1 DEF RowsTyped, DraftStatuses
<1>4. Complete
  BY DEF Save
<1>5. Working = {} /\ sections.rows = 1
  BY <1>1, <1>4 DEF OneWorks, RowIffComplete, Complete
<1>6. RowsTyped'
  BY <1>1, <1>2, <1>3 DEF RowsTyped, Save
<1>7. OneWorks' /\ RowIffComplete' /\ CurrentTextIsCited'
  BY <1>1, <1>3, <1>4, <1>5
     DEF OneWorks, RowIffComplete, CurrentTextIsCited, Complete, Working, Save
<1> QED
  BY <1>6, <1>7 DEF Core

\* New chunks have no citations, but then the text is one of an earlier era; a deleted
\* draft has no row.
LEMMA RowsCore ==
    ASSUME Core, Create \/ NewEra \/ DeleteDraft
    PROVE  Core'
<1>1. RowsTyped /\ OneWorks /\ RowIffComplete /\ CurrentTextIsCited
  BY DEF Core
<1>2. CASE Create
  <2>1. /\ draft' \in [status : DraftStatuses, ai : Nat, final : Nat]
        /\ draft.status = "absent" /\ draft'.status = "queued"
    BY <1>1, <1>2 DEF RowsTyped, DraftStatuses, Create
  <2>2. Working = {} /\ Working' = {}
    BY <1>1, <1>2, <2>1 DEF OneWorks, Working, Create
  <2>3. RowsTyped'
    BY <1>1, <1>2, <2>1 DEF RowsTyped, Create
  <2>4. OneWorks' /\ RowIffComplete' /\ CurrentTextIsCited'
    BY <1>1, <1>2, <2>1, <2>2 DEF OneWorks, RowIffComplete, CurrentTextIsCited, Complete, Create
  <2> QED
    BY <2>3, <2>4 DEF Core
<1>3. CASE NewEra
  <2>1. era' = era + 1 /\ cited' = cited /\ cited' # era'
    BY <1>1, <1>3 DEF RowsTyped, NewEra
  <2>2. RowsTyped'
    BY <1>1, <1>3, <2>1 DEF RowsTyped, NewEra
  <2>3. OneWorks' /\ RowIffComplete' /\ CurrentTextIsCited'
    BY <1>1, <1>3, <2>1 DEF OneWorks, RowIffComplete, CurrentTextIsCited, Complete, Working, NewEra
  <2> QED
    BY <2>2, <2>3 DEF Core
<1>4. CASE DeleteDraft
  <2>1. RowsTyped'
    BY <1>1, <1>4 DEF RowsTyped, DraftStatuses, DeleteDraft
  <2>2. OneWorks' /\ RowIffComplete' /\ CurrentTextIsCited'
    BY <1>1, <1>4 DEF OneWorks, RowIffComplete, CurrentTextIsCited, Complete, Working, DeleteDraft
  <2> QED
    BY <2>1, <2>2 DEF Core
<1> QED
  BY <1>2, <1>3, <1>4

\* The claim of a job, the end of a process, a reclaim, a form and the two statements
\* of a cancellation leave the rows and the work alone.
LEMMA AsideCore ==
    ASSUME Core, jobs \in Table,
           \/ \E w \in Workers : Crash(w) \/ \E j \in JobIds : Claim(w, j)
           \/ \E j \in JobIds : Reclaim(j)
           \/ \E f \in Forms : OpenForm(f)
           \/ AskDelete \/ DeleteCancels \/ DeleteFlags
    PROVE  Core'
<1>1. RowsTyped
  BY DEF Core
<1>2. ASSUME NEW w \in Workers, Crash(w) PROVE Core'
  BY <1>1, <1>2, KeepsRows DEF Crash, RowsTyped, Working
<1>3. ASSUME NEW w \in Workers, NEW j \in JobIds, Claim(w, j) PROVE Core'
  <2> DEFINE t == [job |-> j, n |-> jobs[j].attempts + 1, worker |-> w, pc |-> "start", era |-> 0]
  <2>1. tasks' = tasks \cup {t} /\ t.pc = "start"
    BY <1>3 DEF Claim
  <2>2. jobs[j].attempts + 1 \in Nat
    BY DEF Table, Row
  <2>3. tasks' \subseteq Task
    BY <1>1, <2>1, <2>2 DEF Task, TaskPcs, RowsTyped
  <2>4. Working' \subseteq Working
    BY <2>1 DEF Working
  <2> QED
    BY <1>3, <2>3, <2>4, KeepsRows DEF Claim
<1>4. ASSUME NEW j \in JobIds, Reclaim(j) PROVE Core'
  BY <1>1, <1>4, KeepsRows DEF Reclaim, RowsTyped, Working
<1>5. ASSUME NEW f \in Forms, OpenForm(f) PROVE Core'
  BY <1>1, <1>5, KeepsRows DEF OpenForm, RowsTyped, Working
<1>6. CASE AskDelete \/ DeleteCancels \/ DeleteFlags
  BY <1>1, <1>6, KeepsRows DEF AskDelete, DeleteCancels, DeleteFlags, RowsTyped, Working
<1> QED
  BY <1>2, <1>3, <1>4, <1>5, <1>6

-----------------------------------------------------------------------------
(* The other types *)

\* What RestTyped says of the rows, of the tasks and requests, and of the bounds.
LEMMA JobsTyped ==
    ASSUME RowsTyped, jobs \in Table, [Next]_vars
    PROVE  jobs' \in Table
<1>1. CASE UNCHANGED jobs
  BY <1>1
<1>2. CASE Create
  <2>1. \E j \in JobIds : jobs' = [jobs EXCEPT ![j] = NewRow("draft_generation", Draft, NoKey)]
    BY <1>2 DEF Create, Enqueued, KeyTaken
  <2>2. NewRow("draft_generation", Draft, NoKey) \in Row
    BY DraftAssumption DEF NewRow, Row, Statuses
  <2> QED
    BY <2>1, <2>2 DEF Table
<1>3. ASSUME NEW w \in Workers, NEW j \in JobIds, Claim(w, j) PROVE jobs' \in Table
  <2>1. ClaimedRow(jobs[j], w) \in Row
    BY RowStatements DEF Table
  <2>2. jobs' = [jobs EXCEPT ![j] = ClaimedRow(jobs[j], w)]
    BY <1>3 DEF Claim
  <2> QED
    BY <2>1, <2>2 DEF Table
<1>4. ASSUME NEW t \in tasks, Outcome(t) PROVE jobs' \in Table
  <2>1. t.job \in JobIds
    BY DEF RowsTyped, Task
  <2>2. OutcomeRow(t) \in Row
    <3>1. /\ CompletedRow(jobs[t.job]) \in Row /\ FailedRow(jobs[t.job], FALSE) \in Row
          /\ CancelledRow(jobs[t.job]) \in Row
      BY <2>1, RowStatements DEF Table
    <3> QED
      BY <1>4, <3>1 DEF OutcomeRow, Outcome
  <2> QED
    BY <1>4, <2>1, <2>2 DEF Outcome, Table
<1>5. ASSUME NEW t \in tasks, Shutdown(t) PROVE jobs' \in Table
  <2>1. CancelledRow(jobs[t.job]) \in Row
    BY RowStatements DEF RowsTyped, Task, Table
  <2>2. jobs' = [jobs EXCEPT ![t.job] = CancelledRow(jobs[t.job])]
    BY <1>5 DEF Shutdown
  <2> QED
    BY <2>1, <2>2 DEF Table
<1>6. ASSUME NEW j \in JobIds, Reclaim(j) PROVE jobs' \in Table
  <2> DEFINE r == [jobs[j] EXCEPT !.fresh = FALSE]
  <2>1. r \in Row
    BY DEF Table, Row
  <2>2. ReclaimedRow(r) \in Row
    BY <2>1, RowStatements
  <2>3. jobs' = [jobs EXCEPT ![j] = ReclaimedRow(r)]
    BY <1>6 DEF Reclaim
  <2> QED
    BY <2>2, <2>3 DEF Table
<1>7. CASE DeleteCancels \/ DeleteFlags
  <2>1. \A j \in JobIds : /\ jobs[j] \in Row
                          /\ CancelledRow(jobs[j]) \in Row /\ FlaggedRow(jobs[j]) \in Row
    BY RowStatements DEF Table
  <2> QED
    BY <1>7, <2>1 DEF DeleteCancels, DeleteFlags, Table
<1>8. ASSUME NEW t \in tasks, TaskStep(t), ~Outcome(t) PROVE UNCHANGED jobs
  BY <1>8 DEF TaskStep, TemplateMissing, MarkGenerating, Retrieve, GenerationFails, CancelSeen,
              Finalize, FinalizeFails
<1>9. CASE \/ NewEra \/ AskDelete \/ DeleteDraft \/ \E w \in Workers : Crash(w)
           \/ \E r \in Requests : RegenerateStarts(r) \/ RegenerateStep(r)
           \/ \E f \in Forms : OpenForm(f) \/ Save(f)
           \/ UNCHANGED vars
  BY <1>1, <1>9 DEF NewEra, AskDelete, DeleteDraft, Crash, RegenerateStarts, RegenerateStep,
                    ReplaceBegins, Replace, RegenerateFails, OpenForm, Save, vars
<1> QED
  BY <1>1, <1>2, <1>3, <1>4, <1>5, <1>6, <1>7, <1>8, <1>9 DEF Next, DeleteStep

\* No step changes the bounds, nor passes one.
LEMMA BoundsTyped ==
    ASSUME RowsTyped, RestTyped, [Next]_vars
    PROVE  /\ budget' = budget /\ era <= era' /\ era' <= budget.eras
           /\ saves' \in 0 .. budget.saves /\ faults' \in 0 .. budget.faults
           /\ deleting' \in {"no", "asked", "cancelled", "flagged", "done"}
<1> USE DEF RowsTyped, RestTyped
<1>1. budget.eras \in Nat /\ budget.saves \in Nat /\ budget.faults \in Nat
  BY DraftBudgetsAssumption
<1>2. CASE UNCHANGED <<era, deleting, boundVars>>
  BY <1>2 DEF boundVars
<1>3. CASE UNCHANGED <<era, deleting>> /\ Fault
  BY <1>1, <1>3 DEF Fault
<1>4. ASSUME NEW f \in Forms, Save(f) PROVE /\ UNCHANGED <<era, deleting, faults, budget>>
                                           /\ saves' = saves + 1 /\ saves < budget.saves
  BY <1>4 DEF Save
<1>5. ASSUME NEW t \in tasks, TaskStep(t) PROVE UNCHANGED <<era, deleting, boundVars>>
  BY <1>5 DEF TaskStep, TemplateMissing, MarkGenerating, Retrieve, GenerationFails, CancelSeen,
              Finalize, FinalizeFails, Outcome, rowVars, userVars
<1>6. ASSUME NEW t \in tasks, Shutdown(t) PROVE UNCHANGED <<era, deleting>> /\ Fault
  BY <1>6 DEF Shutdown, rowVars, userVars
<1>7. ASSUME NEW j \in JobIds, Reclaim(j)
      PROVE  UNCHANGED <<era, deleting>> /\ (Fault \/ UNCHANGED boundVars)
  BY <1>7 DEF Reclaim, rowVars, userVars
<1>8. ASSUME NEW w \in Workers, Crash(w) \/ \E j \in JobIds : Claim(w, j)
      PROVE  UNCHANGED <<era, deleting>> /\ (Fault \/ UNCHANGED boundVars)
  BY <1>8 DEF Crash, Claim, rowVars, userVars
<1>9. CASE DeleteStep \/ AskDelete
  <2>1. /\ deleting' \in {"asked", "cancelled", "flagged", "done"}
        /\ UNCHANGED <<era, boundVars>>
    BY <1>9 DEF DeleteStep, DeleteCancels, DeleteFlags, DeleteDraft, AskDelete, rowVars
  <2> QED
    BY <2>1 DEF boundVars
<1>10. CASE NewEra
  BY <1>1, <1>10 DEF NewEra, userVars, boundVars
<1>11. CASE \/ Create \/ \E r \in Requests : RegenerateStarts(r) \/ RegenerateStep(r)
            \/ \E f \in Forms : OpenForm(f)
            \/ UNCHANGED vars
  BY <1>2, <1>11 DEF Create, RegenerateStarts, RegenerateStep, ReplaceBegins, Replace,
                     RegenerateFails, OpenForm, vars, rowVars, userVars
<1> QED
  BY <1>1, <1>2, <1>3, <1>4, <1>5, <1>6, <1>7, <1>8, <1>9, <1>10, <1>11 DEF Next

\* A task has chunks of the present or of an earlier era.
LEMMA TaskErasTyped ==
    ASSUME RowsTyped, RowsTyped', RestTyped, [Next]_vars
    PROVE  \A t \in tasks' : t.era <= era'
<1> USE DEF RowsTyped, RestTyped
<1>1. era <= era' /\ era \in Nat /\ era' \in Nat
  BY BoundsTyped
<1>2. \A t \in tasks : t.era \in Nat /\ t.era <= era'
  BY <1>1 DEF Task
<1>3. CASE tasks' \subseteq tasks
  BY <1>2, <1>3
<1>4. ASSUME NEW t \in tasks, NEW pc \in TaskPcs, Goto(t, pc) PROVE \A u \in tasks' : u.era <= era'
  <2>1. t \in Task /\ [t EXCEPT !.pc = pc].era = t.era
    BY DEF Task
  <2>2. \A u \in tasks' : u \in tasks \/ u = [t EXCEPT !.pc = pc]
    BY <1>4 DEF Goto
  <2> QED
    BY <1>2, <2>1, <2>2
<1>5. ASSUME NEW t \in tasks, Retrieve(t) PROVE \A u \in tasks' : u.era <= era'
  <2> DEFINE t2 == [t EXCEPT !.pc = "write", !.era = era]
  <2>1. t2.era = era
    BY DEF Task
  <2>2. \A u \in tasks' : u \in tasks \/ u = t2
    BY <1>5 DEF Retrieve
  <2> QED
    BY <1>1, <1>2, <2>1, <2>2
<1>6. ASSUME NEW w \in Workers, NEW j \in JobIds, Claim(w, j) PROVE \A u \in tasks' : u.era <= era'
  <2>1. \A u \in tasks' : u \in tasks \/ u.era = 0
    BY <1>6 DEF Claim
  <2> QED
    BY <1>1, <1>2, <2>1
<1>7. ASSUME NEW t \in tasks, TaskStep(t), ~Retrieve(t)
      PROVE  tasks' \subseteq tasks \/ \E pc \in TaskPcs : Goto(t, pc)
  BY <1>7 DEF TaskStep, TemplateMissing, MarkGenerating, GenerationFails, CancelSeen, Finalize,
              FinalizeFails, Outcome, TaskPcs
<1>8. ASSUME NEW t \in tasks, Shutdown(t) PROVE tasks' \subseteq tasks
  BY <1>8 DEF Shutdown
<1>9. ASSUME NEW w \in Workers, Crash(w) PROVE tasks' \subseteq tasks
  BY <1>9 DEF Crash
<1>10. CASE \/ Create \/ NewEra \/ AskDelete \/ DeleteStep \/ \E j \in JobIds : Reclaim(j)
            \/ \E r \in Requests : RegenerateStarts(r) \/ RegenerateStep(r)
            \/ \E f \in Forms : OpenForm(f) \/ Save(f)
            \/ UNCHANGED vars
  BY <1>3, <1>10 DEF Create, NewEra, AskDelete, DeleteStep, DeleteCancels, DeleteFlags, DeleteDraft,
                     Reclaim, RegenerateStarts, RegenerateStep, ReplaceBegins, Replace,
                     RegenerateFails, OpenForm, Save, vars
<1> QED
  BY <1>3, <1>4, <1>5, <1>6, <1>7, <1>8, <1>9, <1>10 DEF Next

\* A request remembers chunks of the present or of an earlier era, and the citations
\* it has seen.
LEMMA RequestsTyped ==
    ASSUME RowsTyped, RowsTyped', RestTyped, [Next]_vars
    PROVE  requests' \in [Requests -> Request] /\ \A r \in Requests : requests'[r].era <= era'
<1> USE DEF RowsTyped, RestTyped
<1>1. era <= era' /\ era \in Nat /\ era' \in Nat
  BY BoundsTyped
<1>2. CASE UNCHANGED requests
  BY <1>1, <1>2 DEF Request
<1>3. ASSUME NEW r \in Requests, RegenerateStarts(r) \/ RegenerateStep(r)
      PROVE  requests' \in [Requests -> Request] /\ \A q \in Requests : requests'[q].era <= era'
  <2>1. PICK pc \in {"write", "replace", "done"}, e \in Nat, seen \in SUBSET Citation :
           e <= era /\ SetRequest(r, pc, e, seen)
    BY <1>1, <1>3 DEF RegenerateStarts, RegenerateStep, ReplaceBegins, Replace, RegenerateFails,
                      Request
  <2> DEFINE q == [pc |-> pc, era |-> e, seen |-> seen]
  <2>2. q \in Request /\ q.era = e
    BY DEF Request
  <2>3. requests' = [requests EXCEPT ![r] = q]
    BY <2>1 DEF SetRequest
  <2> HIDE DEF q
  <2>4. requests' \in [Requests -> Request]
    BY <2>2, <2>3
  <2>5. \A p \in Requests : requests'[p].era <= era'
    BY <1>1, <2>1, <2>2, <2>3 DEF Request
  <2> QED
    BY <2>4, <2>5
<1>4. ASSUME NEW t \in tasks, TaskStep(t) \/ Shutdown(t) PROVE UNCHANGED requests
  BY <1>4 DEF TaskStep, TemplateMissing, MarkGenerating, Retrieve, GenerationFails, CancelSeen,
              Finalize, FinalizeFails, Outcome, Shutdown, userVars
<1>5. CASE \/ Create \/ NewEra \/ AskDelete \/ DeleteStep \/ \E j \in JobIds : Reclaim(j)
           \/ \E w \in Workers : Crash(w) \/ \E j \in JobIds : Claim(w, j)
           \/ \E f \in Forms : OpenForm(f) \/ Save(f)
           \/ UNCHANGED vars
  BY <1>2, <1>5 DEF Create, NewEra, AskDelete, DeleteStep, DeleteCancels, DeleteFlags, DeleteDraft,
                    Reclaim, Crash, Claim, OpenForm, Save, vars, userVars
<1> QED
  BY <1>2, <1>3, <1>4, <1>5 DEF Next

\* A form that is opened shows the section's text.
LEMMA FormsTyped ==
    ASSUME RowsTyped, RestTyped, [Next]_vars
    PROVE  forms' \in [Forms -> Nat \cup {NoForm}]
<1> USE DEF RowsTyped, RestTyped
<1>1. ASSUME NEW f \in Forms, OpenForm(f) \/ Save(f)
      PROVE  \E x \in Nat \cup {NoForm} : forms' = [forms EXCEPT ![f] = x]
  BY <1>1 DEF OpenForm, Save
<1>2. ASSUME NEW t \in tasks, TaskStep(t) \/ Shutdown(t) PROVE UNCHANGED forms
  BY <1>2 DEF TaskStep, TemplateMissing, MarkGenerating, Retrieve, GenerationFails, CancelSeen,
              Finalize, FinalizeFails, Outcome, Shutdown, userVars
<1>3. CASE \/ Create \/ NewEra \/ AskDelete \/ DeleteStep \/ \E j \in JobIds : Reclaim(j)
           \/ \E w \in Workers : Crash(w) \/ \E j \in JobIds : Claim(w, j)
           \/ \E r \in Requests : RegenerateStarts(r) \/ RegenerateStep(r)
           \/ UNCHANGED vars
  BY <1>3 DEF Create, NewEra, AskDelete, DeleteStep, DeleteCancels, DeleteFlags, DeleteDraft,
              Reclaim, Crash, Claim, RegenerateStarts, RegenerateStep, ReplaceBegins, Replace,
              RegenerateFails, vars, userVars
<1> QED
  BY <1>1, <1>2, <1>3 DEF Next

\* A citation names the text and the era that its transaction writes; an edit, the
\* texts of the draft and of the form.
LEMMA CitationsTyped ==
    ASSUME RowsTyped, RowsTyped', RestTyped, [Next]_vars
    PROVE  citations' \subseteq Citation /\ edits' \subseteq Edit
<1> USE DEF RowsTyped, RestTyped
<1>1. CASE UNCHANGED <<citations, edits>>
  BY <1>1
<1>2. [text |-> written', era |-> era] \in Citation
  BY DEF Citation
<1>3. ASSUME NEW t \in tasks, Finalize(t) PROVE citations' \subseteq Citation /\ edits' \subseteq Edit
  BY <1>2, <1>3 DEF Finalize
<1>4. ASSUME NEW r \in Requests, Replace(r) PROVE citations' \subseteq Citation /\ edits' \subseteq Edit
  BY <1>2, <1>4 DEF Replace
<1>5. CASE NewEra \/ DeleteDraft
  BY <1>5 DEF NewEra, DeleteDraft
<1>6. ASSUME NEW f \in Forms, Save(f) PROVE citations' \subseteq Citation /\ edits' \subseteq Edit
  <2>1. PICK changed \in BOOLEAN, user \in Nat :
           \/ edits' = edits
           \/ edits' = edits \cup {[ai |-> draft.ai, user |-> user, byOperator |-> changed]}
    <3>1. forms[f] \in Nat /\ written + 1 \in Nat
      BY <1>6 DEF Save
    <3>2. PICK changed \in BOOLEAN :
             LET user == IF changed THEN written + 1 ELSE forms[f] IN
             \/ edits' = edits
             \/ edits' = edits \cup {[ai |-> draft.ai, user |-> user, byOperator |-> changed]}
      BY <1>6 DEF Save
    <3>3. CASE changed = TRUE
      BY <3>1, <3>2, <3>3, Zenon
    <3>4. CASE changed = FALSE
      BY <3>1, <3>2, <3>4, Zenon
    <3> QED
      BY <3>3, <3>4
  <2>2. [ai |-> draft.ai, user |-> user, byOperator |-> changed] \in Edit
    BY DEF Edit
  <2>3. UNCHANGED citations
    BY <1>6 DEF Save
  <2> QED
    BY <2>1, <2>2, <2>3
<1>7. ASSUME NEW t \in tasks, TaskStep(t) \/ Shutdown(t), ~Finalize(t)
      PROVE  UNCHANGED <<citations, edits>>
  BY <1>7 DEF TaskStep, TemplateMissing, MarkGenerating, Retrieve, GenerationFails, CancelSeen,
              FinalizeFails, Outcome, Shutdown, rowVars
<1>8. CASE \/ Create \/ AskDelete \/ DeleteCancels \/ DeleteFlags \/ \E j \in JobIds : Reclaim(j)
           \/ \E w \in Workers : Crash(w) \/ \E j \in JobIds : Claim(w, j)
           \/ \E r \in Requests : RegenerateStarts(r) \/ ReplaceBegins(r) \/ RegenerateFails(r)
           \/ \E f \in Forms : OpenForm(f)
           \/ UNCHANGED vars
  BY <1>1, <1>8 DEF Create, AskDelete, DeleteCancels, DeleteFlags, Reclaim, Crash, Claim,
                    RegenerateStarts, ReplaceBegins, RegenerateFails, OpenForm, vars, rowVars
<1> QED
  BY <1>1, <1>3, <1>4, <1>5, <1>6, <1>7, <1>8 DEF Next, DeleteStep, RegenerateStep

-----------------------------------------------------------------------------
(* The theorems *)

\* At first nothing is there.
LEMMA InitIInv == Init => IInv
<1> SUFFICES ASSUME Init PROVE IInv
  OBVIOUS
<1>1. Core
  BY InitCore
<1>2. jobs \in Table
  BY UnusedIsRow DEF Init, EmptyTable, Table
<1>3. requests \in [Requests -> Request] /\ \A r \in Requests : requests[r].era <= era
  BY DEF Init, Idle, Request
<1>4. budget \in Budgets /\ budget.eras \in Nat /\ budget.saves \in Nat /\ budget.faults \in Nat
  BY DraftBudgetsAssumption DEF Init
<1> QED
  BY <1>1, <1>2, <1>3, <1>4 DEF Init, IInv, RestTyped

\* Every step keeps what is said of the draft, ...
LEMMA NextCore ==
    ASSUME IInv, [Next]_vars
    PROVE  Core'
<1> USE DEF IInv
<1>1. ASSUME NEW t \in tasks, TaskStep(t) \/ Shutdown(t) PROVE Core'
  BY <1>1, TaskCore
<1>2. ASSUME NEW r \in Requests, RegenerateStarts(r) \/ RegenerateStep(r) PROVE Core'
  BY <1>2, RegenerateCore
<1>3. ASSUME NEW f \in Forms, Save(f) PROVE Core'
  BY <1>3, SaveCore DEF RestTyped
<1>4. CASE Create \/ NewEra \/ DeleteDraft
  BY <1>4, RowsCore
<1>5. CASE \/ \E w \in Workers : Crash(w) \/ \E j \in JobIds : Claim(w, j)
           \/ \E j \in JobIds : Reclaim(j)
           \/ \E f \in Forms : OpenForm(f)
           \/ AskDelete \/ DeleteCancels \/ DeleteFlags
  BY <1>5, AsideCore DEF RestTyped
<1>6. CASE UNCHANGED vars
  BY <1>6, KeepsRows DEF vars, Core, RowsTyped, Working
<1> QED
  BY <1>1, <1>2, <1>3, <1>4, <1>5, <1>6 DEF Next, DeleteStep

\* ... and the types.
LEMMA NextIInv == IInv /\ [Next]_vars => IInv'
<1> SUFFICES ASSUME IInv, [Next]_vars PROVE IInv'
  OBVIOUS
<1>1. Core'
  BY NextCore
<1>2. RowsTyped /\ RowsTyped' /\ RestTyped
  BY <1>1 DEF IInv, Core
<1>3. /\ budget' = budget /\ era' <= budget.eras /\ budget \in Budgets
      /\ saves' \in 0 .. budget.saves /\ faults' \in 0 .. budget.faults
      /\ deleting' \in {"no", "asked", "cancelled", "flagged", "done"}
  BY <1>2, BoundsTyped DEF RestTyped
<1>4. /\ jobs' \in Table /\ \A t \in tasks' : t.era <= era'
      /\ requests' \in [Requests -> Request] /\ \A r \in Requests : requests'[r].era <= era'
      /\ forms' \in [Forms -> Nat \cup {NoForm}]
      /\ citations' \subseteq Citation /\ edits' \subseteq Edit
  BY <1>2, JobsTyped, TaskErasTyped, RequestsTyped, FormsTyped, CitationsTyped DEF RestTyped
<1> QED
  BY <1>1, <1>3, <1>4 DEF IInv, RestTyped

\* At most one task is past mark_generating, and the section's row is there exactly when
\* the draft is complete.
THEOREM InductiveInvariant == Spec => []IInv
<1>1. Init => IInv
  BY InitIInv
<1>2. IInv /\ [Next]_vars => IInv'
  BY NextIInv
<1> QED
  BY <1>1, <1>2, PTL DEF Spec

\* Rows, tasks, requests and forms have their types.
THEOREM TypeCorrect == Spec => []TypeOK
<1>1. IInv => TypeOK
  BY DraftBudgetsAssumption DEF IInv, Core, RowsTyped, RestTyped, TypeOK
<1> QED
  BY <1>1, InductiveInvariant, PTL

\* A draft is generated once, however its job is taken back and its tasks overlap: its
\* section has one row, and none before the draft is complete.
THEOREM GeneratedOnce == Spec => []SectionsOnce
<1>1. IInv => SectionsOnce
  BY DEF IInv, Core, RowIffComplete, SectionsOnce, Complete
<1> QED
  BY <1>1, InductiveInvariant, PTL

\* The text that won has its citations, however many regenerations overlap.
THEOREM TextIsCited == Spec => []CurrentTextIsCited
<1>1. IInv => CurrentTextIsCited
  BY DEF IInv, Core
<1> QED
  BY <1>1, InductiveInvariant, PTL

\* What an operator has edited is not taken back: no task is left that could fail or
\* finish the draft once more.
LEMMA StepKeepsEdited ==
    ASSUME IInv, Next, draft.status = "edited"
    PROVE  draft'.status \in {"edited", "deleted"}
<1>1. RowsTyped /\ OneWorks
  BY DEF IInv, Core
<1>2. Working = {}
  BY <1>1 DEF OneWorks
<1>3. ASSUME NEW t \in tasks, TaskStep(t) \/ Shutdown(t) PROVE UNCHANGED draft
  <2>1. t.pc \notin {"retrieve", "write"}
    BY <1>2 DEF Working
  <2> QED
    BY <1>3, <2>1 DEF TaskStep, TemplateMissing, MarkGenerating, Retrieve, GenerationFails,
                      CancelSeen, Finalize, FinalizeFails, Outcome, Shutdown, rowVars
<1>4. ASSUME NEW f \in Forms, Save(f) PROVE draft'.status = "edited"
  BY <1>1, <1>4 DEF Save, RowsTyped
<1>5. CASE DeleteDraft
  BY <1>5 DEF DeleteDraft
<1>6. CASE \/ Create \/ NewEra \/ AskDelete \/ DeleteCancels \/ DeleteFlags
           \/ \E w \in Workers : Crash(w) \/ \E j \in JobIds : Claim(w, j)
           \/ \E j \in JobIds : Reclaim(j)
           \/ \E r \in Requests : RegenerateStarts(r) \/ RegenerateStep(r)
           \/ \E f \in Forms : OpenForm(f)
  BY <1>6 DEF Create, NewEra, AskDelete, DeleteCancels, DeleteFlags, Crash, Claim, Reclaim,
              RegenerateStarts, RegenerateStep, ReplaceBegins, Replace, RegenerateFails, OpenForm,
              rowVars
<1> QED
  BY <1>3, <1>4, <1>5, <1>6 DEF Next, DeleteStep

\* An edited draft stays edited until it is deleted, however late a task comes.
THEOREM EditedIsKept == Spec => EditedStaysEdited
<1>1. IInv /\ [Next]_vars
        => [draft.status = "edited" => draft'.status \in {"edited", "deleted"}]_vars
  BY StepKeepsEdited
<1> QED
  BY <1>1, InductiveInvariant, PTL DEF Spec, EditedStaysEdited

=============================================================================
