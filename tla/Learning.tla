------------------------------- MODULE Learning -------------------------------
(***************************************************************************)
(* What the system learns from the edits of operators.  Each edit is embedded *)
(* for few-shot retrieval by a job of its own (app/edits/few_shot_store.py,    *)
(* app/jobs/handlers/few_shot_index.py), and runs of the rule extractor         *)
(* (app/edits/rule_extractor.py) turn edits into rules that they append to the   *)
(* template (app/draft/templates/registry.py).  Runs are started by the          *)
(* scheduler of the worker and by the admin route of the API process, each of     *)
(* which has its own registry with its own cache.                                *)
(*                                                                          *)
(* One template.  A stored version of it is the sequence of its appended rules,   *)
(* and versions are never deleted: the table is a sequence.  Time is a counter,   *)
(* which each transaction that needs a timestamp advances.                       *)
(*                                                                          *)
(* pc of a run: query, analyse (language model), append, insert, upsert, commit   *)
(* (the lock is released, other templates of the same tick or request may         *)
(* follow); sync is the startup of the API process.                              *)
(***************************************************************************)
EXTENDS JobTable, Sequences, FiniteSets, SequencesExt

CONSTANTS
    Processes,       \* the processes with a registry
    Api,             \* the one that syncs the templates on disk at startup
    NoProcess,       \* nobody holds the advisory lock
    Edits,           \* ids of edits
    Fields,          \* field_or_section_name
    Rules,           \* what a language model may answer
    Similar,         \* pairs of different rules above the similarity threshold
    MinEdits,        \* RULE_EXTRACTOR_MIN_EDITS
    VersionLookback, \* RULE_EXTRACTOR_VERSION_LOOKBACK
    Budgets          \* bounds: saves, deletes, runs, aborts, restarts, and whether
                     \* the worker takes jobs

ASSUME ProcessesAssumption == Api \in Processes /\ NoProcess \notin Processes
ASSUME EditsAssumption == Owners = Edits /\ Keys = Edits /\ Kinds = {"few_shot_index"}
ASSUME FieldsAssumption == Fields # {}
ASSUME SimilarAssumption == Similar \subseteq Rules \X Rules
ASSUME ExtractorAssumption == MinEdits \in Nat \ {0} /\ VersionLookback \in Nat
ASSUME LearningBudgetsAssumption ==
    \A b \in Budgets : /\ {b.saves, b.deletes, b.runs, b.aborts, b.restarts} \subseteq Nat
                       /\ b.indexing \in BOOLEAN

VARIABLES
    edits,     \* app.edits
    vectors,   \* per edit, how often its vector was written
    jobs, tasks,
    templates, \* app.templates
    lastRun,   \* app.template_extractor_state.last_run_at, 0 while there is no row
    lock,      \* the advisory lock
    runs,      \* per process, its run of the extractor
    cache,     \* per process, TemplateRegistry._cache
    time,
    seen,      \* auxiliary: the edits that committed runs have read
    horizon,   \* auxiliary: how far back the first of them asked
    used,      \* bounds: what of the budget is used up
    budget

fewShotVars == <<vectors, jobs, tasks>>
readVars == <<seen, horizon>>
runVars == <<templates, lastRun, lock, runs, cache, readVars>>
vars == <<edits, fewShotVars, runVars, time, used, budget>>

NoEdit == [status |-> "absent", at |-> 0, version |-> 0, late |-> FALSE,
           field |-> CHOOSE f \in Fields : TRUE]

NoRun == [pc |-> "idle", started |-> 0, since |-> 0, base |-> <<>>, read |-> {},
          todo |-> {}, rules |-> <<>>, version |-> 0, row |-> <<>>]

RunPcs == {"idle", "query", "analyse", "append", "insert", "upsert", "commit", "sync"}

Latest == Len(templates)

TypeOK ==
    /\ \A e \in Edits : /\ edits[e].status \in {"absent", "open", "stored", "deleted"}
                        /\ edits[e].at \in 0 .. time /\ edits[e].version \in 0 .. Latest
                        /\ edits[e].field \in Fields /\ edits[e].late \in BOOLEAN
    /\ vectors \in [Edits -> {0, 1}]
    /\ jobs \in Table
    /\ \A t \in tasks : t.job \in JobIds /\ t.pc \in {"start", "embed", "finish", "retry"}
    /\ templates \in Seq(Seq(Rules)) /\ Latest > 0
    /\ lastRun \in 0 .. time
    /\ lock \in Processes \cup {NoProcess}
    /\ \A p \in Processes :
          /\ runs[p].pc \in RunPcs
          /\ (lock = p) = (runs[p].pc \in RunPcs \ {"idle", "commit", "sync"})
          /\ runs[p].version \in 0 .. Latest + 1
          /\ DOMAIN cache[p] \subseteq 1 .. Latest + 1
    /\ seen \subseteq Edits /\ horizon \in 0 .. lastRun
    /\ budget \in Budgets

Init ==
    /\ edits = [e \in Edits |-> NoEdit]
    /\ vectors = [e \in Edits |-> 0]
    /\ jobs = EmptyTable /\ tasks = {}
    /\ templates = <<<<>>>>
    /\ lastRun = 0
    /\ lock = NoProcess
    /\ runs = [p \in Processes |-> NoRun]
    /\ cache = [p \in Processes |-> IF p = Api THEN [v \in {1} |-> <<>>] ELSE [v \in {} |-> <<>>]]
    /\ time = 0
    /\ seen = {} /\ horizon = 0
    /\ used = [runs |-> 0, aborts |-> 0, restarts |-> 0]
    /\ budget \in Budgets

Stored == {e \in Edits : edits[e].status = "stored"}

Use(what) == used[what] < budget[what] /\ used' = [used EXCEPT ![what] = @ + 1]

-----------------------------------------------------------------------------
(* save_edit and the deletion of a draft *)

\* created_at is the time at which the transaction begins; the draft may be of an
\* older version of the template.
SaveBegins(e) ==
    /\ edits[e].status = "absent"
    /\ Cardinality({i \in Edits : edits[i].status # "absent"}) < budget.saves
    /\ \A i \in Edits : edits[i].status = "absent" => e <= i
    /\ time' = time + 1
    /\ \E v \in 1 .. Latest, f \in Fields :
          edits' = [edits EXCEPT ![e] = [NoEdit EXCEPT !.status = "open", !.at = time',
                                              !.version = v, !.field = f]]
    /\ UNCHANGED <<fewShotVars, runVars, used, budget>>

\* Auxiliary: a run that has its timestamp after this one, going on or committed.
RunBegunAfter(at) ==
    lastRun > at \/ \E p \in Processes : runs[p].pc \in RunPcs \ {"idle", "sync"} /\ runs[p].started > at

SaveCommits(e) ==
    /\ edits[e].status = "open"
    /\ edits' = [edits EXCEPT ![e].status = "stored", ![e].late = RunBegunAfter(edits[e].at)]
    /\ Enqueued(jobs, "few_shot_index", e, e, jobs')
    /\ UNCHANGED <<vectors, tasks, runVars, time, used, budget>>

DeleteDraft(e) ==
    /\ edits[e].status = "stored"
    /\ Cardinality({i \in Edits : edits[i].status = "deleted"}) < budget.deletes
    /\ edits' = [edits EXCEPT ![e].status = "deleted"]
    /\ UNCHANGED <<fewShotVars, runVars, time, used, budget>>

-----------------------------------------------------------------------------
(* The few-shot index *)

Claim(w, j) ==
    /\ budget.indexing
    /\ Claimable(jobs[j])
    /\ jobs' = [jobs EXCEPT ![j] = ClaimedRow(@, w)]
    /\ tasks' = tasks \cup {[job |-> j, n |-> jobs[j].attempts + 1, worker |-> w, pc |-> "start"]}
    /\ UNCHANGED <<edits, vectors, runVars, time, used, budget>>

Goto(t, pc) == tasks' = (tasks \ {t}) \cup {[t EXCEPT !.pc = pc]}

EditOf(t) == jobs[t.job].owner

\* index: an edit that is gone or has its vector is passed over.
ReadEdit(t) ==
    /\ t.pc = "start"
    /\ Goto(t, IF EditOf(t) \in Stored /\ vectors[EditOf(t)] = 0 THEN "embed" ELSE "finish")
    /\ UNCHANGED <<edits, vectors, jobs, runVars, time, used, budget>>

\* Mutant: without "AND few_shot_indexed_at IS NULL".
IndexUnguarded(t) ==
    /\ t.pc = "embed"
    /\ vectors' = IF EditOf(t) \in Stored THEN [vectors EXCEPT ![EditOf(t)] = @ + 1] ELSE vectors
    /\ jobs' = [jobs EXCEPT ![t.job] = CompletedRow(@)]
    /\ tasks' = tasks \ {t}
    /\ UNCHANGED <<edits, runVars, time, used, budget>>

\* The embedder has answered: UPDATE ... WHERE few_shot_indexed_at IS NULL, and
\* the job is completed in the same transaction.
Index(t) ==
    /\ t.pc = "embed"
    /\ vectors' = IF EditOf(t) \in Stored THEN [vectors EXCEPT ![EditOf(t)] = 1] ELSE vectors
    /\ jobs' = [jobs EXCEPT ![t.job] = CompletedRow(@)]
    /\ tasks' = tasks \ {t}
    /\ UNCHANGED <<edits, runVars, time, used, budget>>

\* Mutant: the exception is logged, and the job completes.
EmbedderFailsQuietly(t) ==
    /\ t.pc = "embed"
    /\ Goto(t, "finish")
    /\ UNCHANGED <<edits, vectors, jobs, runVars, time, used, budget>>

EmbedderFails(t) ==
    /\ t.pc = "embed"
    /\ Goto(t, "retry")
    /\ UNCHANGED <<edits, vectors, jobs, runVars, time, used, budget>>

Outcome(t) ==
    /\ t.pc \in {"finish", "retry"}
    /\ jobs' = [jobs EXCEPT ![t.job] = IF t.pc = "finish" THEN CompletedRow(@)
                                       ELSE FailedRow(@, TRUE)]
    /\ tasks' = tasks \ {t}
    /\ UNCHANGED <<edits, vectors, runVars, time, used, budget>>

TaskStep(t) == ReadEdit(t) \/ Index(t) \/ EmbedderFails(t) \/ Outcome(t)

Holders(j) == {t \in tasks : t.job = j /\ t.worker = jobs[j].worker}

\* The worker dies with its tasks, and the sweep takes their jobs back; it takes a
\* job that is still held only if its heartbeats fail.
Crash(w) ==
    /\ \E t \in tasks : t.worker = w
    /\ Use("aborts")
    /\ tasks' = {t \in tasks : t.worker # w}
    /\ UNCHANGED <<edits, vectors, jobs, runVars, time, budget>>

Reclaim(j) ==
    /\ jobs[j].status = "running"
    /\ IF Holders(j) = {} THEN UNCHANGED used ELSE Use("aborts")
    /\ jobs' = [jobs EXCEPT ![j] = ReclaimedRow([@ EXCEPT !.fresh = FALSE])]
    /\ UNCHANGED <<edits, vectors, tasks, runVars, time, budget>>

\* reconcile_unembedded_edits: the same dedup key as that of save_edit.
Reconcile(e) ==
    /\ e \in Stored /\ vectors[e] = 0
    /\ Enqueued(jobs, "few_shot_index", e, e, jobs')
    /\ UNCHANGED <<edits, vectors, tasks, runVars, time, used, budget>>

-----------------------------------------------------------------------------
(* The registry *)

\* get_latest looks for the newest version in the table, and for its contents in
\* the cache first.
GetLatest(p) == IF Latest \in DOMAIN cache[p] THEN cache[p][Latest] ELSE templates[Latest]

Cached(p, v, rules) ==
    [cache EXCEPT ![p] = [i \in DOMAIN @ \cup {v} |-> IF i = v THEN rules ELSE @[i]]]

\* An INSERT of a version waits while another transaction has inserted it.
Inserted(p) == runs[p].pc \in {"upsert", "commit"} /\ runs[p].version # 0

Waits(p, v) == \E q \in Processes \ {p} : Inserted(q) /\ runs[q].version = v

-----------------------------------------------------------------------------
(* A run of the rule extractor *)

SetRun(p, r) == runs' = [runs EXCEPT ![p] = r]

\* Where there is no state, a run asks for the edits of the last days.  These begin at any
\* time (it matters after which edit), but are more than a run takes.
Lookback ==
    {t \in {0} \cup {edits[e].at : e \in Edits} :
        \A q \in Processes : runs[q].pc \in RunPcs \ {"idle", "sync"} => t < runs[q].started}

\* pg_try_advisory_lock, the state, and the timestamp of this run.
Acquire(p) ==
    /\ runs[p].pc = "idle" /\ lock = NoProcess
    /\ Use("runs")
    /\ lock' = p
    /\ time' = time + 1
    /\ \E since \in IF lastRun = 0 THEN Lookback ELSE {lastRun} :
          SetRun(p, [NoRun EXCEPT !.pc = "query", !.started = time', !.since = since])
    /\ UNCHANGED <<edits, fewShotVars, templates, lastRun, cache, readVars, budget>>

Floor == IF Latest > VersionLookback + 1 THEN Latest - VersionLookback ELSE 1

Recent(since) == {e \in Stored : edits[e].at > since /\ edits[e].version >= Floor}

\* Groups that are too small are passed over.
LargeGroups(read) ==
    {f \in Fields : Cardinality({e \in read : edits[e].field = f}) >= MinEdits}

Query(p) ==
    /\ runs[p].pc = "query"
    /\ cache' = Cached(p, Latest, GetLatest(p))
    /\ LET read == Recent(runs[p].since) IN
       SetRun(p, [runs[p] EXCEPT !.pc = IF read = {} THEN "upsert" ELSE "analyse",
                                 !.base = GetLatest(p), !.read = read,
                                 !.todo = LargeGroups(read)])
    /\ UNCHANGED <<edits, fewShotVars, templates, lastRun, lock, time, readVars, used, budget>>

IsSimilar(rule, existing) ==
    \E r \in existing : r = rule \/ <<r, rule>> \in Similar \/ <<rule, r>> \in Similar

\* One group: the model fails, says NO_RULE or has too little evidence, or answers
\* a rule, which is taken unless it is similar to one of the template or of this run.
Analyse(p) ==
    /\ runs[p].pc = "analyse"
    /\ \E f \in runs[p].todo :
          LET rest == [runs[p] EXCEPT !.todo = @ \ {f}] IN
          \/ SetRun(p, rest)
          \/ \E rule \in Rules :
                /\ ~IsSimilar(rule, ToSet(runs[p].base) \cup ToSet(runs[p].rules))
                /\ SetRun(p, [rest EXCEPT !.rules = Append(@, rule)])
    /\ UNCHANGED <<edits, fewShotVars, templates, lastRun, lock, cache, time, readVars, used, budget>>

Analysed(p) ==
    /\ runs[p].pc = "analyse" /\ runs[p].todo = {}
    /\ SetRun(p, [runs[p] EXCEPT !.pc = IF runs[p].rules = <<>> THEN "upsert" ELSE "append"])
    /\ UNCHANGED <<edits, fewShotVars, templates, lastRun, lock, cache, time, readVars, used, budget>>

\* Mutants: the rules of the snapshot are extended; the rules are not compared again.
AppendToSnapshot(p) ==
    /\ runs[p].pc = "append"
    /\ LET row == runs[p].base \o runs[p].rules IN
       SetRun(p, [runs[p] EXCEPT !.pc = "insert", !.version = Latest + 1, !.row = row])
    /\ UNCHANGED <<edits, fewShotVars, templates, lastRun, lock, cache, time, readVars, used, budget>>

AppendAll(p) ==
    /\ runs[p].pc = "append"
    /\ LET row == GetLatest(p) \o runs[p].rules IN
       SetRun(p, [runs[p] EXCEPT !.pc = "insert", !.version = Latest + 1, !.row = row])
    /\ cache' = Cached(p, Latest, GetLatest(p))
    /\ UNCHANGED <<edits, fewShotVars, templates, lastRun, lock, time, readVars, used, budget>>

\* The rules that are not among the existing ones, in their order.
Deduped(rules, existing) ==
    LET new == {i \in DOMAIN rules : rules[i] \notin existing}
        Place(i) == Cardinality({k \in new : k <= i}) IN
    [n \in 1 .. Cardinality(new) |-> rules[CHOOSE i \in new : Place(i) = n]]

\* append_rules reads the latest version again and leaves out the rules it has.
AppendRules(p) ==
    /\ runs[p].pc = "append"
    /\ LET current == GetLatest(p)
           deduped == Deduped(runs[p].rules, ToSet(current)) IN
       SetRun(p, IF deduped = <<>>
                 THEN [runs[p] EXCEPT !.pc = "upsert"]
                 ELSE [runs[p] EXCEPT !.pc = "insert", !.version = Latest + 1,
                                      !.row = current \o deduped])
    /\ cache' = Cached(p, Latest, GetLatest(p))
    /\ UNCHANGED <<edits, fewShotVars, templates, lastRun, lock, time, readVars, used, budget>>

\* The INSERT, which fails if the version has been committed in the meantime; then
\* the cache, before the caller's commit.
InsertVersion(p) ==
    /\ runs[p].pc = "insert" /\ ~Waits(p, runs[p].version)
    /\ IF runs[p].version <= Latest
       THEN SetRun(p, NoRun) /\ lock' = NoProcess /\ UNCHANGED cache
       ELSE /\ SetRun(p, [runs[p] EXCEPT !.pc = "upsert"])
            /\ cache' = [cache EXCEPT ![p] = [v \in {runs[p].version} |-> runs[p].row]]
            /\ UNCHANGED lock
    /\ UNCHANGED <<edits, fewShotVars, templates, lastRun, time, readVars, used, budget>>

\* Mutant: last_run_at = NOW().
UpsertStateNow(p) ==
    /\ runs[p].pc = "upsert" /\ \A q \in Processes \ {p} : runs[q].pc # "commit"
    /\ time' = time + 1
    /\ SetRun(p, [runs[p] EXCEPT !.pc = "commit", !.started = time'])
    /\ lock' = NoProcess
    /\ UNCHANGED <<edits, fewShotVars, templates, lastRun, cache, readVars, used, budget>>

\* _upsert_state, which waits for another uncommitted one, and the release of the lock.
UpsertState(p) ==
    /\ runs[p].pc = "upsert" /\ \A q \in Processes \ {p} : runs[q].pc # "commit"
    /\ SetRun(p, [runs[p] EXCEPT !.pc = "commit"])
    /\ lock' = NoProcess
    /\ UNCHANGED <<edits, fewShotVars, templates, lastRun, cache, time, readVars, used, budget>>

Commit(p) ==
    /\ runs[p].pc = "commit"
    /\ templates' = IF Inserted(p) THEN Append(templates, runs[p].row) ELSE templates
    /\ lastRun' = runs[p].started
    /\ seen' = seen \cup runs[p].read
    /\ horizon' = IF lastRun = 0 THEN runs[p].since ELSE horizon
    /\ SetRun(p, NoRun)
    /\ UNCHANGED <<edits, fewShotVars, lock, cache, time, used, budget>>

\* An exception of this run, or of that of another template before the commit:
\* all is rolled back but the cache.
AbortRun(p) ==
    /\ runs[p].pc \in RunPcs \ {"idle", "sync"}
    /\ Use("aborts")
    /\ SetRun(p, NoRun)
    /\ lock' = IF lock = p THEN NoProcess ELSE lock
    /\ UNCHANGED <<edits, fewShotVars, templates, lastRun, cache, time, readVars, budget>>

RunStep(p) ==
    \/ Query(p) \/ Analyse(p) \/ Analysed(p) \/ AppendRules(p) \/ InsertVersion(p)
    \/ UpsertState(p) \/ Commit(p)

-----------------------------------------------------------------------------
(* Restart of a process; the API process then runs sync_to_db, whose template on  *)
(* disk has no learned rules                                                    *)

Restart(p) ==
    /\ Use("restarts")
    /\ lock' = IF lock = p THEN NoProcess ELSE lock
    /\ IF p = Api /\ templates[Latest] # <<>>
       THEN /\ SetRun(p, [NoRun EXCEPT !.pc = "sync", !.version = Latest + 1])
            /\ cache' = [cache EXCEPT ![p] = [v \in {} |-> <<>>]]
       ELSE /\ SetRun(p, NoRun)
            /\ cache' = [cache EXCEPT ![p] = IF p = Api THEN [v \in {Latest} |-> <<>>]
                                             ELSE [v \in {} |-> <<>>]]
    /\ UNCHANGED <<edits, fewShotVars, templates, lastRun, time, readVars, budget>>

\* A version that another process inserts first makes the sync fail, which is logged.
SyncInsert(p) ==
    /\ runs[p].pc = "sync" /\ ~Waits(p, runs[p].version)
    /\ IF runs[p].version <= Latest
       THEN UNCHANGED <<templates, cache>>
       ELSE /\ templates' = Append(templates, <<>>)
            /\ cache' = Cached(p, runs[p].version, <<>>)
    /\ SetRun(p, NoRun)
    /\ UNCHANGED <<edits, fewShotVars, lastRun, lock, time, readVars, used, budget>>

-----------------------------------------------------------------------------
Next ==
    \/ \E e \in Edits : SaveBegins(e) \/ SaveCommits(e) \/ DeleteDraft(e) \/ Reconcile(e)
    \/ \E w \in Workers : Crash(w) \/ \E j \in JobIds : Claim(w, j)
    \/ \E t \in tasks : TaskStep(t)
    \/ \E j \in JobIds : Reclaim(j)
    \/ \E p \in Processes : Acquire(p) \/ RunStep(p) \/ AbortRun(p) \/ Restart(p) \/ SyncInsert(p)

Spec == Init /\ [][Next]_vars

\* Workers poll and finish; the sweep takes back the jobs of the dead, and asks for
\* the jobs of edits without a vector.
Fairness ==
    /\ \A j \in JobIds :
          /\ WF_vars(\E w \in Workers : Claim(w, j))
          /\ WF_vars(\E t \in tasks : t.job = j /\ TaskStep(t))
          /\ WF_vars(Holders(j) = {} /\ Reclaim(j))
    /\ \A e \in Edits : WF_vars(Reconcile(e))

FairSpec == Spec /\ Fairness

-----------------------------------------------------------------------------
(* Properties *)

\* Every saved edit gets its vector, through failures of the embedder, the death of the
\* worker and a job taken back, unless the edit is deleted or its own job has failed for
\* good.
EditIsIndexed ==
    \A e \in Edits :
        (e \in Stored /\ budget.indexing)
            ~> \/ vectors[e] = 1 \/ e \notin Stored
               \/ \E j \in JobIds : jobs[j].owner = e /\ jobs[j].status = "failed"

\* No version has a rule twice, although two runs may analyse the same edits, one
\* before the other has committed.
RulesOnce == \A v \in 1 .. Latest : IsInjective(templates[v])

\* A run adds to the rules of the version before it: it never takes those away that
\* another process has added since it looked, unless a run was rolled back and left
\* its version in the cache.
RunsKeepRules ==
    [][\A p \in Processes :
          (/\ runs[p].pc = "commit" /\ runs'[p].pc = "idle"
           /\ Len(templates') > Latest /\ used.aborts = 0)
              => IsPrefix(templates[Latest], templates'[Len(templates')])]_vars

IsRead(e) == e \in seen \/ edits[e].version < Floor

\* An edit that the next run will not ask for was read by a run, unless its version is
\* too old, it is from before the days that the first run asked for, or it was committed
\* after a run had begun that took its timestamp after the edit's: "any edit committed
\* between the query and _upsert_state is counted in the next run's window", if it also
\* began there.
NothingSkipped ==
    \A e \in Stored : horizon < edits[e].at /\ edits[e].at <= lastRun /\ ~edits[e].late => IsRead(e)

\* "any edit committed between the query and _upsert_state is counted in the next
\* run's window"
EveryEditCounted ==
    \A e \in Stored : horizon < edits[e].at /\ edits[e].at <= lastRun => IsRead(e)

\* What the first run does not ask for, no run does.
NothingForgotten == \A e \in Stored : edits[e].at <= lastRun /\ ~edits[e].late => IsRead(e)

\* "durable rules": a rule that was learned stays.
RulesAreDurable ==
    [][Len(templates') > Latest => IsPrefix(templates[Latest], templates'[Len(templates')])]_vars

\* "A cosine-similarity gate prevents near-duplicate rules."
RulesAreDissimilar ==
    \A v \in 1 .. Latest : \A i, k \in DOMAIN templates[v] :
        i # k => <<templates[v][i], templates[v][k]>> \notin Similar

\* "a periodic sweep retries any Edit row still un-embedded after one minute"
SweepRetries ==
    \A e \in Edits :
        (e \in Stored /\ vectors[e] = 0)
            ~> (vectors[e] = 1 \/ \E j \in JobIds : jobs[j].owner = e /\ IsOpen(jobs[j]))

=============================================================================
