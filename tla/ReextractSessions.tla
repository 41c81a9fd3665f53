--------------------------- MODULE ReextractSessions ---------------------------
(***************************************************************************)
(* Re-extraction sessions (app/ingest/reextract_session.py): an operator has  *)
(* some pages of a document read again by another engine, looks at the       *)
(* result, and accepts or rejects it.  The OCR runs in a page_reextract job   *)
(* beside the pipeline and writes its results apart; accepting replaces the  *)
(* text of the pages, drops what was derived from it and starts the pipeline *)
(* again at the layout.  The document is that of DocumentPipeline, with its   *)
(* handlers, operations and faults; it is ready to begin with.               *)
(*                                                                          *)
(* Between start and finish a task of a session is at "claim", when it has    *)
(* seen that the session is to be run, at "input", at "read", or at "readok"  *)
(* once a page was read successfully (todo: the pages left).                 *)
(* An accepting request holds what it has checked and read until it writes;  *)
(* its DELETE of the spans may come too early to see (late) the spans that    *)
(* another request is writing.  A rejecting request has seen that the session *)
(* is undecided; there is one at a time for a session.                       *)
(***************************************************************************)
EXTENDS DocumentPipeline

CONSTANTS
    Sessions,    \* sessions that may be started
    MaxAccepts   \* accept requests under way at once

ASSUME SessionKeysAssumption ==
    /\ {<<"page_reextract", "session", s>> : s \in Sessions} \subseteq Keys
    /\ "page_reextract" \in Kinds

VARIABLES
    sessions,   \* app.reextract_sessions, with the rows of reextract_page_results
    accepting,  \* accept requests past their checks
    rejecting   \* sessions with a reject request past its check

requests == <<accepting, rejecting>>
sessionVars == <<sessions, requests>>
allVars == <<vars, sessionVars>>

SessionKey(s) == <<"page_reextract", "session", s>>

SessionStatuses == {"absent", "pending", "running", "ready", "accepted", "rejected", "failed"}

\* A page's row in reextract_page_results: none, status ok with spans (text) or
\* without (blank), status failed.
Results == {"none", "text", "blank", "failed"}

Session == [status : SessionStatuses, queued : BOOLEAN, results : [Pages -> Results],
            pages : SUBSET Pages]

NoSession == [status |-> "absent", queued |-> FALSE, results |-> [p \in Pages |-> "none"],
              pages |-> {}]

Live(s) == sessions[s].status \notin {"absent"}

SessionTypeOK ==
    /\ sessions \in [Sessions -> Session]
    /\ \A a \in accepting : /\ a.session \in Sessions /\ a.late \in BOOLEAN
                            /\ a.spans \in [Pages -> Results]
    /\ rejecting \subseteq Sessions
    /\ pageRows \in [Pages -> [full : Nat, empty : Nat]]
    /\ jobs \in Table

\* A document that has become ready: some of its pages have text, if it has pages.
SessionInit ==
    /\ status = "ready" /\ form \in Formats /\ counted = (Pages # {})
    /\ \E full \in SUBSET Pages :
          /\ IF IsText THEN full = {Min(Pages)} ELSE full = {} => Pages = {}
          /\ pageRows = [p \in Pages |-> [full |-> IF p \in full THEN 1 ELSE 0,
                                         empty |-> IF IsText \/ p \in full THEN 0 ELSE 1]]
    /\ blocks = [p \in Pages |-> IF p \in Readable THEN 1 ELSE 0]
    /\ chunks = {[id |-> [run |-> 1, page |-> p], copies |-> 1, embedded |-> TRUE]
                    : p \in Readable}
    /\ jobs = [j \in JobIds |->
                  IF \E k \in PipelineKinds : j = StageKey(k)
                  THEN [NewRow(j[1], Doc, j) EXCEPT !.status = "completed", !.attempts = 1]
                  ELSE Unused]
    /\ tasks = {} /\ deleting = FALSE
    /\ asking = {} /\ overtaken = FALSE /\ operations = 0 /\ faults = 0
    /\ sessions = [s \in Sessions |-> NoSession]
    /\ accepting = {} /\ rejecting = {}

-----------------------------------------------------------------------------
(* start_session: two commits, the row and the job *)

Start(s, pages) ==
    /\ status \in {"ready", "failed"} /\ counted /\ ~Live(s)
    /\ sessions' = [sessions EXCEPT ![s] =
                       [NoSession EXCEPT !.status = "pending", !.queued = TRUE, !.pages = pages]]
    /\ UNCHANGED <<vars, requests>>

StartEnqueues(s) ==
    /\ sessions[s].queued
    /\ sessions' = [sessions EXCEPT ![s].queued = FALSE]
    /\ jobs' = Insert(jobs, SessionKey(s))
    /\ UNCHANGED <<docVars, tasks, deleting, setting, requests>>

-----------------------------------------------------------------------------
(* run_session *)

SessionOf(t) == t.job[3]
OfSession(t) == KindOf(t) = "page_reextract"
Reading(t) == t.pc \in {"read", "readok"}

\* An UPDATE of the session by its id, which may be gone.
WithStatus(s, st) ==
    sessions' = IF Live(s) THEN [sessions EXCEPT ![s].status = st] ELSE sessions

\* SELECT the session: only one that has such a status is run.
LoadIf(t, statuses) ==
    /\ OfSession(t) /\ t.pc = "start"
    /\ LET s == sessions[SessionOf(t)] IN
          \/ s.status = "absent" /\ Goto(t, "retry")
          \/ s.status \notin statuses \cup {"absent"} /\ Goto(t, "finish")
          \/ s.status \in statuses /\ tasks' = Moved(t, "claim", s.pages)
    /\ UNCHANGED <<docVars, jobs, deleting, setting, sessionVars>>

\* Mutant: a run that was interrupted is not taken up again.
SessionLoadPending(t) == LoadIf(t, {"pending"})

\* Mutant: a run that was over is taken up as well.
SessionLoadReady(t) == LoadIf(t, {"pending", "running", "ready"})

SessionLoad(t) == LoadIf(t, {"pending", "running"})

\* UPDATE to running, whatever the session's status is by now.
SessionClaim(t) ==
    /\ t.pc = "claim"
    /\ WithStatus(SessionOf(t), "running")
    /\ tasks' = Moved(t, "input", t.todo)
    /\ UNCHANGED <<docVars, jobs, deleting, setting, requests>>

\* DOCUMENT_NOT_FOUND, FILE_NOT_FOUND
SessionInputFails(t) ==
    /\ t.pc = "input"
    /\ WithStatus(SessionOf(t), "failed")
    /\ Goto(t, "retry")
    /\ UNCHANGED <<docVars, jobs, deleting, setting, requests>>

\* The document and its file are there.
SessionLocate(t) ==
    /\ t.pc = "input" /\ DocExists
    /\ tasks' = Moved(t, "read", t.todo)
    /\ UNCHANGED <<docVars, jobs, deleting, setting, sessionVars>>

\* What reading a page may give; a file without pages cannot be rasterised.
ReadResults == IF IsText THEN {"none", "failed"} ELSE Results

\* _snapshot_page, OCR and _upsert_page_result, one commit per page.  No result is
\* written if the page or the session is gone or the statement fails.
SessionPage(t) ==
    /\ Reading(t) /\ t.todo # {}
    /\ LET s == SessionOf(t)
           p == Min(t.todo) IN
       \E r \in IF HasPage(p) /\ Live(s) THEN ReadResults ELSE {"none"} :
          /\ sessions' = IF r = "none" THEN sessions ELSE [sessions EXCEPT ![s].results[p] = r]
          /\ tasks' = Moved(t, IF r \in {"text", "blank"} THEN "readok" ELSE t.pc, t.todo \ {p})
    /\ UNCHANGED <<docVars, jobs, deleting, setting, requests>>

\* The last commit, whatever the session's status is by now.
SessionEnd(t) ==
    /\ Reading(t) /\ t.todo = {}
    /\ WithStatus(SessionOf(t), IF t.pc = "readok" THEN "ready" ELSE "failed")
    /\ Goto(t, "finish")
    /\ UNCHANGED <<docVars, jobs, deleting, setting, requests>>

\* A statement outside the page's try block fails.
SessionAborts(t) ==
    /\ Reading(t)
    /\ Fault("abort")
    /\ Goto(t, "retry")
    /\ UNCHANGED <<docVars, jobs, deleting, sessionVars>>

SessionStep(t) ==
    \/ SessionLoad(t) \/ SessionClaim(t) \/ SessionInputFails(t) \/ SessionLocate(t)
    \/ SessionPage(t) \/ SessionEnd(t)

-----------------------------------------------------------------------------
(* accept_session, reject_session *)

\* The checks, and the results of the chosen pages (all of them by default).
AcceptChecks(s, pages) ==
    /\ Cardinality(accepting) < MaxAccepts
    /\ sessions[s].status = "ready"
    /\ LET ok == {p \in pages : sessions[s].results[p] \in {"text", "blank"}} IN
          /\ ok # {}
          /\ accepting' = accepting \cup
                {[session |-> s, late |-> FALSE,
                  spans |-> [p \in Pages |-> IF p \in ok THEN sessions[s].results[p] ELSE "none"]]}
    /\ UNCHANGED <<vars, sessions, rejecting>>

\* Mutant: the spans of the row before are not deleted.
RowAdded(r, result, late) == IF result = "text" THEN [r EXCEPT !.full = @ + 1] ELSE r

\* The spans of a page row are deleted, those of the result inserted.  A late
\* request's DELETE misses the spans that were committed while it waited.
RowReplaced(r, result, late) ==
    LET was == IF late \/ r.full = 0 THEN r.full ELSE r.full - 1 IN
    IF result = "none" \/ r.full + r.empty = 0 THEN r
    ELSE IF result = "text"
    THEN [full |-> was + 1, empty |-> IF r.full = 0 THEN r.empty - 1 ELSE r.empty]
    ELSE [full |-> was, empty |-> IF late \/ r.full = 0 THEN r.empty ELSE r.empty + 1]

\* The jobs of the document go, and the tasks that run them become orphans.
WipeJobs(n) ==
    /\ jobs' = Insert(EmptyTable, StageKey("layout"))
    /\ tasks' = {[t EXCEPT !.orphan = IF HasRow(t) THEN n ELSE @] : t \in tasks}

Accepted == {s \in Sessions : sessions[s].status = "accepted"}

\* Mutant: the blocks of the text before are kept.
AcceptKeepsBlocks(a) ==
    /\ a \in accepting /\ Live(a.session)
    /\ pageRows' = [p \in Pages |-> RowReplaced(pageRows[p], a.spans[p], a.late)]
    /\ UNCHANGED blocks /\ chunks' = {}
    /\ status' = "ocr_done"
    /\ WipeJobs(MaxOperations + 1 + Cardinality(Accepted))
    /\ sessions' = [sessions EXCEPT ![a.session].status = "accepted"]
    /\ \E late \in BOOLEAN : accepting' = {[b EXCEPT !.late = late] : b \in accepting \ {a}}
    /\ UNCHANGED <<counted, deleting, setting, rejecting>>

\* Mutant: the status shows the stage that comes next.
AcceptSetsRunning(a) ==
    /\ a \in accepting /\ Live(a.session)
    /\ pageRows' = [p \in Pages |-> RowReplaced(pageRows[p], a.spans[p], a.late)]
    /\ blocks' = NoBlocks /\ chunks' = {}
    /\ status' = "layout_running"
    /\ WipeJobs(MaxOperations + 1 + Cardinality(Accepted))
    /\ sessions' = [sessions EXCEPT ![a.session].status = "accepted"]
    /\ accepting' = accepting \ {a}
    /\ UNCHANGED <<counted, deleting, setting, rejecting>>

\* Everything that accept_session writes, in one transaction.
Accept(a) ==
    /\ a \in accepting /\ Live(a.session)
    /\ pageRows' = [p \in Pages |-> RowReplaced(pageRows[p], a.spans[p], a.late)]
    /\ blocks' = NoBlocks /\ chunks' = {}
    /\ status' = "ocr_done"
    /\ WipeJobs(MaxOperations + 1 + Cardinality(Accepted))
    /\ sessions' = [sessions EXCEPT ![a.session].status = "accepted"]
    /\ \E late \in BOOLEAN : accepting' = {[b EXCEPT !.late = late] : b \in accepting \ {a}}
    /\ UNCHANGED <<counted, deleting, setting, rejecting>>

\* The request dies before its commit, or emit finds no document.
AcceptDies(a) ==
    /\ a \in accepting
    /\ accepting' = accepting \ {a}
    /\ UNCHANGED <<vars, sessions, rejecting>>

\* reject_session: the check of the status, ...
RejectChecks(s) ==
    /\ Live(s) /\ sessions[s].status \notin {"accepted", "rejected"}
    /\ rejecting' = rejecting \cup {s}
    /\ UNCHANGED <<vars, sessions, accepting>>

\* ... and the UPDATE by the session's id, whatever its status is by now.
RejectWrites(s) ==
    /\ s \in rejecting
    /\ WithStatus(s, "rejected")
    /\ rejecting' = rejecting \ {s}
    /\ UNCHANGED <<vars, accepting>>

RejectDies(s) ==
    /\ s \in rejecting
    /\ rejecting' = rejecting \ {s}
    /\ UNCHANGED <<vars, sessions, accepting>>

-----------------------------------------------------------------------------
(* The pipeline, and what its operations take away: the results of a page go with *)
(* the page (ON DELETE CASCADE), the sessions with the document               *)

Cascaded(s) ==
    IF status' = "deleted" THEN NoSession
    ELSE [s EXCEPT !.results =
             [p \in Pages |-> IF pageRows'[p].full + pageRows'[p].empty = 0 THEN "none" ELSE @[p]]]

PipelineStep ==
    /\ HttpStep \/ WorkerStep \/ TimeStep
    /\ sessions' = [s \in Sessions |-> Cascaded(sessions[s])]
    /\ UNCHANGED requests

\* The requests of an operator: start, accept and reject.
SessionRequest ==
    \/ \E s \in Sessions :
          \/ \E pages \in SUBSET Pages \ {{}} : Start(s, pages) \/ AcceptChecks(s, pages)
          \/ StartEnqueues(s) \/ RejectChecks(s) \/ RejectWrites(s) \/ RejectDies(s)
    \/ \E a \in accepting : Accept(a) \/ AcceptDies(a)

SessionNext ==
    \/ SessionRequest
    \/ \E t \in tasks : SessionStep(t) \/ SessionAborts(t)
    \/ PipelineStep

SessionSpec == SessionInit /\ [][SessionNext]_allVars

\* As in DocumentPipeline; operators and requests are free to stop.
SessionFairness ==
    /\ \A j \in JobIds :
          /\ WF_allVars((\E w \in Workers : Claim(w, j)) /\ UNCHANGED sessionVars)
          /\ WF_allVars((\E t \in tasks : t.job = j /\ HandlerStep(t)) /\ UNCHANGED sessionVars)
          /\ WF_allVars(\E t \in tasks : t.job = j /\ SessionStep(t))
          /\ WF_allVars(LeaseExpires(j) /\ UNCHANGED sessionVars)
    /\ WF_allVars(Reconcile /\ UNCHANGED sessionVars)

FairSessionSpec == SessionSpec /\ SessionFairness

-----------------------------------------------------------------------------
(* Properties *)

\* A ready document on which nobody works has no chunk of a page whose text was
\* replaced by none: what was derived from the text before an accept is gone.
ReadyHasNothingElse ==
    status = "ready" /\ ~(\E t \in tasks : AtWork(t)) =>
        \A c \in chunks : pageRows[c.id.page].full > 0

\* An accepted session stays accepted, however often its job is taken up again and
\* whatever the pipeline does: only a reject whose check came before the accept may
\* still overwrite it.
AcceptedStaysAccepted ==
    [][\A s \in Sessions : sessions[s].status = "accepted" =>
          \/ sessions'[s].status \in {"accepted", "absent"}
          \/ s \in rejecting /\ sessions'[s].status = "rejected"]_allVars

\* No session whose text is in the document is shown as rejected
\* (MCSessionsRejected).
AcceptedIsFinal ==
    [][\A s \in Sessions : sessions[s].status = "accepted" =>
          sessions'[s].status \in {"accepted", "absent"}]_allVars

\* A document whose session was accepted becomes ready or failed again, if no
\* handler dies on the way.
AcceptedIsProcessed ==
    (Processing /\ faults = 0) ~> (~Processing \/ DeleteAsked \/ faults > 0)

\* A session whose job was queued comes to an end, though its worker may die,
\* unless a deletion flags the job.
SessionSettles ==
    \A s \in Sessions :
        (sessions[s].status \in {"pending", "running"} /\ Exists(jobs[SessionKey(s)]))
            ~> (sessions[s].status \notin {"pending", "running"} \/ DeleteAsked)

=============================================================================
