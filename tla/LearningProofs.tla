----------------------------- MODULE LearningProofs -----------------------------
(***************************************************************************)
(* Proofs about Learning, for every set of edits, processes, rules and jobs,  *)
(* every similarity, and any number of saves, runs, aborts and restarts.      *)
(***************************************************************************)
EXTENDS Learning, JobTableProofs, FiniteSetTheorems

-----------------------------------------------------------------------------
(* The invariant *)

EditRow == [status : {"absent", "open", "stored", "deleted"}, at : Nat, version : Nat,
            late : BOOLEAN, field : Fields]

Task == [job : JobIds, n : Nat, worker : Workers, pc : {"start", "embed", "finish", "retry"}]

Run == [pc : RunPcs, started : Nat, since : Nat, base : Seq(Rules), read : SUBSET Edits,
        todo : SUBSET Fields, rules : Seq(Rules), version : Nat, row : Seq(Rules)]

Used == [runs : Nat, aborts : Nat, restarts : Nat]

\* What the few-shot index, the table of templates and the two registries hold.
IndexTypes ==
    /\ edits \in [Edits -> EditRow]
    /\ vectors \in [Edits -> {0, 1}]
    /\ jobs \in Table
    /\ tasks \subseteq Task

RunTypes ==
    /\ templates \in Seq(Seq(Rules)) /\ Len(templates) > 0
    /\ lastRun \in Nat /\ time \in Nat
    /\ lock \in Processes \cup {NoProcess}
    /\ runs \in [Processes -> Run]
    /\ DOMAIN cache = Processes
    /\ \A p \in Processes : /\ cache[p] \in [DOMAIN cache[p] -> Seq(Rules)]
                            /\ DOMAIN cache[p] \subseteq 1 .. Latest + 1
    /\ seen \subseteq Edits /\ horizon \in Nat
    /\ used \in Used /\ budget \in Budgets

TypeInv == IndexTypes /\ RunTypes

Active(p) == runs[p].pc \in RunPcs \ {"idle", "sync"}

Locking(p) == runs[p].pc \in RunPcs \ {"idle", "commit", "sync"}

\* Timestamps are of the past, and no two are the same.
TimeInv ==
    /\ \A e \in Edits : edits[e].at <= time /\ edits[e].version <= Latest
    /\ lastRun <= time /\ horizon <= lastRun
    /\ \A p \in Processes : runs[p].started <= time /\ runs[p].version <= Latest + 1
    /\ \A e \in Edits : edits[e].status # "absent" =>
          /\ edits[e].at > 0 /\ edits[e].at # lastRun
          /\ \A p \in Processes : Active(p) => edits[e].at # runs[p].started

\* One run has the lock; the last one may not have committed, and the state is
\* written in the order of the timestamps.  No run asks for less than what comes after
\* the beginning of another one.
LockInv ==
    /\ \A p \in Processes : (lock = p) = Locking(p)
    /\ \A p \in Processes : Active(p) => /\ lastRun < runs[p].started
                                         /\ lastRun # 0 => runs[p].since <= lastRun
    /\ \A p, q \in Processes : Active(p) /\ Active(q) => runs[p].since < runs[q].started
    /\ \A p, q \in Processes : p # q /\ runs[p].pc = "commit" /\ Active(q) =>
          runs[q].pc # "commit" /\ runs[p].started < runs[q].started

\* What this run asks for, if no other one is committed first.
AskedFrom(p) == IF lastRun = 0 THEN runs[p].since ELSE horizon

\* An edit that is older than a run, but not from before what the first one asked for, and
\* was not late, was read by it or before.
ReadInv ==
    /\ NothingSkipped
    /\ \A p \in Processes : Active(p) /\ runs[p].pc # "query" =>
          \A e \in Stored :
              AskedFrom(p) < edits[e].at /\ edits[e].at <= runs[p].started /\ ~edits[e].late =>
              e \in seen \cup runs[p].read \/ edits[e].version < Floor

\* No rule twice, wherever rules are kept.
OnceInv ==
    /\ RulesOnce
    /\ \A p \in Processes :
          /\ IsInjective(runs[p].rules) /\ IsInjective(runs[p].row)
          /\ \A v \in DOMAIN cache[p] : IsInjective(cache[p][v])

\* At most one version is inserted and not committed.
VersionInv ==
    /\ \A p \in Processes : runs[p].pc \in {"query", "analyse", "append"} => runs[p].version = 0
    /\ \A p \in Processes : Inserted(p) => runs[p].version = Latest + 1
    /\ \A p, q \in Processes : Inserted(p) /\ Inserted(q) => p = q

\* While no run is rolled back, a cache agrees with the table, but for the version
\* that is inserted, and a row extends the version before it.
CacheInv ==
    used.aborts = 0 => \A p \in Processes :
        /\ \A v \in DOMAIN cache[p] :
              IF v <= Latest THEN cache[p][v] = templates[v]
              ELSE Inserted(p) /\ cache[p][v] = runs[p].row
        /\ (runs[p].pc = "insert" \/ Inserted(p)) /\ runs[p].version = Latest + 1 =>
              IsPrefix(templates[Latest], runs[p].row)

IInv == TypeInv /\ TimeInv /\ LockInv /\ ReadInv /\ OnceInv /\ VersionInv /\ CacheInv

-----------------------------------------------------------------------------
(* Lemmas on sequences of rules *)

\* What append_rules adds are rules of the run, none of them among the existing ones,
\* and none twice if the run has none twice.
LEMMA DedupedRules ==
    ASSUME NEW rules \in Seq(Rules), NEW existing
    PROVE  /\ Deduped(rules, existing) \in Seq(Rules)
           /\ \A n \in DOMAIN Deduped(rules, existing) : Deduped(rules, existing)[n] \notin existing
           /\ IsInjective(rules) => IsInjective(Deduped(rules, existing))
<1> DEFINE new == {i \in DOMAIN rules : rules[i] \notin existing}
           Place(i) == Cardinality({k \in new : k <= i})
           At(n) == CHOOSE i \in new : Place(i) = n
           c == Cardinality(new)
<1>1. DOMAIN rules = 1 .. Len(rules) /\ Len(rules) \in Nat /\ new \subseteq 1 .. Len(rules)
  OBVIOUS
<1>2. IsFiniteSet(new) /\ c \in Nat
  <2>1. IsFiniteSet(1 .. Len(rules))
    BY <1>1, FS_Interval
  <2>2. IsFiniteSet(new)
    BY <1>1, <2>1, FS_Subset
  <2> QED
    BY <2>2, FS_CardinalityType
<1>3. ASSUME NEW i \in new
      PROVE  IsFiniteSet({k \in new : k <= i}) /\ Place(i) \in Nat /\ Place(i) \in 1 .. c
  <2>1. IsFiniteSet({k \in new : k <= i}) /\ Place(i) <= c
    BY <1>2, FS_Subset
  <2>2. i \in {k \in new : k <= i}
    BY <1>1
  <2>3. Place(i) \in Nat /\ Place(i) # 0
    BY <2>1, <2>2, FS_CardinalityType, FS_EmptySet
  <2> QED
    BY <1>2, <2>1, <2>3
<1>4. \A i, j \in new : i < j => Place(i) < Place(j)
  <2> SUFFICES ASSUME NEW i \in new, NEW j \in new, i < j PROVE Place(i) < Place(j)
    OBVIOUS
  <2>1. {k \in new : k <= i} \subseteq {k \in new : k <= j}
    BY <1>1
  <2>2. {k \in new : k <= i} # {k \in new : k <= j}
    <3>1. j \in {k \in new : k <= j} /\ j \notin {k \in new : k <= i}
      BY <1>1
    <3> QED
      BY <3>1
  <2>3. Cardinality({k \in new : k <= i}) < Cardinality({k \in new : k <= j})
    <3> DEFINE A == {k \in new : k <= i}
               B == {k \in new : k <= j}
    <3>1. IsFiniteSet(A) /\ IsFiniteSet(B) /\ A \subseteq B /\ A # B
      BY <1>3, <2>1, <2>2
    <3> HIDE DEF A, B
    <3>2. Cardinality(A) <= Cardinality(B) /\ Cardinality(A) # Cardinality(B)
      BY <3>1, FS_Subset
    <3>3. Cardinality(A) \in Nat /\ Cardinality(B) \in Nat
      BY <3>1, FS_CardinalityType
    <3>4. Cardinality(A) < Cardinality(B)
      BY <3>2, <3>3
    <3> QED
      BY <3>4 DEF A, B
  <2> QED
    BY <2>3
<1>5. \A i, j \in new : Place(i) = Place(j) => i = j
  <2> HIDE DEF Place
  <2> SUFFICES ASSUME NEW i \in new, NEW j \in new, Place(i) = Place(j), i # j PROVE FALSE
    OBVIOUS
  <2>1. i < j \/ j < i
    BY <1>1
  <2>2. Place(i) < Place(j) \/ Place(j) < Place(i)
    BY <1>4, <2>1
  <2>3. Place(i) \in Nat /\ Place(j) \in Nat
    BY <1>3
  <2> QED
    BY <2>2, <2>3
<1>6. \A n \in 1 .. c : At(n) \in new /\ Place(At(n)) = n
  <2> DEFINE f == [i \in new |-> Place(i)]
             image == {Place(i) : i \in new}
  <2>1. f \in Bijection(new, image)
    BY <1>5 DEF Bijection, Injection, Surjection, IsInjective
  <2>2. Cardinality(image) = c /\ IsFiniteSet(image)
    BY <1>2, <2>1, FS_Bijection DEF ExistsBijection
  <2>3. image \subseteq 1 .. c
    BY <1>3
  <2>4. IsFiniteSet(1 .. c) /\ Cardinality(1 .. c) = c
    BY <1>2, FS_Interval
  <2>5. image = 1 .. c
    BY <2>2, <2>3, <2>4, FS_Subset
  <2> QED
    BY <2>5
<1>7. Deduped(rules, existing) = [n \in 1 .. c |-> rules[At(n)]]
  BY DEF Deduped
<1> DEFINE d == Deduped(rules, existing)
<1>8. DOMAIN d = 1 .. c /\ \A n \in 1 .. c : d[n] = rules[At(n)]
  BY <1>7
<1> HIDE DEF At, Place, c, d
<1>9. \A n \in 1 .. c : rules[At(n)] \in Rules /\ rules[At(n)] \notin existing
  BY <1>1, <1>6
<1>10. d \in Seq(Rules)
  <2>1. d \in [1 .. c -> Rules]
    BY <1>7, <1>9 DEF d
  <2> QED
    BY <1>2, <2>1
<1>11. ASSUME IsInjective(rules) PROVE IsInjective(d)
  <2> SUFFICES ASSUME NEW m \in 1 .. c, NEW n \in 1 .. c, d[m] = d[n] PROVE m = n
    BY <1>8 DEF IsInjective
  <2>1. rules[At(m)] = rules[At(n)]
    BY <1>8
  <2>2. At(m) \in DOMAIN rules /\ At(n) \in DOMAIN rules
    BY <1>6
  <2>3. At(m) = At(n)
    BY <1>11, <2>1, <2>2 DEF IsInjective
  <2> QED
    BY <1>6, <2>3
<1> QED
  BY <1>8, <1>9, <1>10, <1>11 DEF d

\* Rules that are appended leave those before them, and repeat none that they lack.
LEMMA AppendedRules ==
    ASSUME NEW s \in Seq(Rules), NEW t \in Seq(Rules)
    PROVE  /\ s \o t \in Seq(Rules)
           /\ IsPrefix(s, s \o t)
           /\ (IsInjective(s) /\ IsInjective(t) /\ \A n \in DOMAIN t : t[n] \notin ToSet(s))
                  => IsInjective(s \o t)
<1>1. s \o t \in Seq(Rules) /\ Len(s \o t) = Len(s) + Len(t)
  OBVIOUS
<1>2. /\ \A i \in 1 .. Len(s) : (s \o t)[i] = s[i]
      /\ \A i \in Len(s) + 1 .. Len(s) + Len(t) :
            (s \o t)[i] = t[i - Len(s)] /\ i - Len(s) \in 1 .. Len(t)
  OBVIOUS
<1>3. IsPrefix(s, s \o t)
  <2>1. SubSeq(s \o t, 1, Len(s)) = SubSeq(s, 1, Len(s))
    BY <1>1, <1>2
  <2> QED
    BY <1>1, <2>1 DEF IsPrefix
<1>4. ASSUME IsInjective(s), IsInjective(t), \A n \in DOMAIN t : t[n] \notin ToSet(s)
      PROVE  IsInjective(s \o t)
  <2>1. \A i, j \in 1 .. Len(s) : s[i] = s[j] => i = j
    BY <1>4 DEF IsInjective
  <2>2. \A i, j \in 1 .. Len(t) : t[i] = t[j] => i = j
    BY <1>4 DEF IsInjective
  <2>3. \A i \in 1 .. Len(s), j \in 1 .. Len(t) : s[i] # t[j]
    BY <1>4 DEF ToSet
  <2> SUFFICES ASSUME NEW i \in 1 .. Len(s) + Len(t), NEW j \in 1 .. Len(s) + Len(t),
                      (s \o t)[i] = (s \o t)[j]
               PROVE  i = j
    BY <1>1 DEF IsInjective
  <2> DEFINE I == i <= Len(s)
             J == j <= Len(s)
  <2>4. CASE I /\ J
    BY <1>2, <2>1, <2>4
  <2>5. CASE ~I /\ ~J
    <3>1. i \in Len(s) + 1 .. Len(s) + Len(t) /\ j \in Len(s) + 1 .. Len(s) + Len(t)
      BY <2>5
    <3>2. /\ i - Len(s) \in 1 .. Len(t) /\ (s \o t)[i] = t[i - Len(s)]
          /\ j - Len(s) \in 1 .. Len(t) /\ (s \o t)[j] = t[j - Len(s)]
      BY <1>2, <3>1
    <3>3. i - Len(s) = j - Len(s)
      BY <2>2, <3>2
    <3> QED
      BY <3>3
  <2>6. CASE I /\ ~J
    <3>1. i \in 1 .. Len(s) /\ j \in Len(s) + 1 .. Len(s) + Len(t)
      BY <2>6
    <3> QED
      BY <1>2, <2>3, <3>1
  <2>7. CASE ~I /\ J
    <3>1. j \in 1 .. Len(s) /\ i \in Len(s) + 1 .. Len(s) + Len(t)
      BY <2>7
    <3> QED
      BY <1>2, <2>3, <3>1
  <2> QED
    BY <2>4, <2>5, <2>6, <2>7
<1> QED
  BY <1>1, <1>3, <1>4

-----------------------------------------------------------------------------
(* The edits and their index: types *)

NewEdit(t, v, f) == [NoEdit EXCEPT !.status = "open", !.at = t, !.version = v, !.field = f]

\* The row of an edit that save_edit inserts.
LEMMA NewEditType ==
    ASSUME NEW t \in Nat, NEW v \in Nat, NEW f \in Fields
    PROVE  /\ NewEdit(t, v, f) \in EditRow
           /\ NewEdit(t, v, f).status = "open"
           /\ NewEdit(t, v, f).at = t /\ NewEdit(t, v, f).version = v
BY FieldsAssumption DEF NewEdit, NoEdit, EditRow

\* Asking for an index job leaves a table of jobs.
LEMMA EnqueuedType ==
    ASSUME jobs \in Table, NEW e \in Edits, NEW T, Enqueued(jobs, "few_shot_index", e, e, T)
    PROVE  T \in Table
<1>1. NewRow("few_shot_index", e, e) \in Row
  BY EditsAssumption DEF NewRow, Row, Statuses
<1> QED
  BY <1>1 DEF Enqueued, Table

\* A step of a task leaves tasks.
LEMMA GotoType ==
    ASSUME tasks \subseteq Task, NEW t \in tasks,
           NEW pc \in {"start", "embed", "finish", "retry"}, Goto(t, pc)
    PROVE  tasks' \subseteq Task
BY DEF Goto, Task

\* What the steps of edits, index jobs and workers leave alone.
IndexFrame ==
    /\ UNCHANGED <<runVars, budget>>
    /\ time' \in {time, time + 1}
    /\ used' \in Used /\ (used'.aborts = 0 => used.aborts = 0)

IndexNext ==
    \/ \E e \in Edits : SaveBegins(e) \/ SaveCommits(e) \/ DeleteDraft(e) \/ Reconcile(e)
    \/ \E w \in Workers : Crash(w) \/ \E j \in JobIds : Claim(w, j)
    \/ \E t \in tasks : TaskStep(t)
    \/ \E j \in JobIds : Reclaim(j)

\* Taking one of the budget of faults leaves counters.
LEMMA UseAborts ==
    ASSUME used \in Used, Use("aborts")
    PROVE  used' \in Used /\ used'.aborts # 0
BY DEF Use, Used

\* Every other part of the budget leaves the count of aborts.
LEMMA UseOther ==
    ASSUME used \in Used, NEW what \in {"runs", "restarts"}, Use(what)
    PROVE  used' \in Used /\ used'.aborts = used.aborts
BY DEF Use, Used

\* An edit that is stored, and one whose draft is gone.
StoredRow(row, late) == [row EXCEPT !.status = "stored", !.late = late]
DraftGone(row) == [row EXCEPT !.status = "deleted"]

\* They are rows of the table.
LEMMA StoredType ==
    ASSUME NEW row \in EditRow, NEW late \in BOOLEAN
    PROVE  StoredRow(row, late) \in EditRow /\ DraftGone(row) \in EditRow
BY DEF StoredRow, DraftGone, EditRow

\* A row without a heartbeat.
LEMMA LateType ==
    ASSUME NEW row \in Row
    PROVE  [row EXCEPT !.fresh = FALSE] \in Row
BY DEF Row

\* Each of these steps keeps the types of the index and leaves the runs alone.
LEMMA IndexStepTypes ==
    ASSUME TypeInv, IndexNext
    PROVE  IndexTypes' /\ IndexFrame
<1> USE DEF TypeInv, IndexTypes, RunTypes
<1>1. ASSUME NEW e \in Edits, SaveBegins(e) PROVE IndexTypes' /\ IndexFrame
  <2>1. time' \in Nat /\ Latest \in Nat
    BY <1>1 DEF SaveBegins, Latest
  <2>2. PICK v \in 1 .. Latest, f \in Fields :
            edits' = [edits EXCEPT ![e] = NewEdit(time', v, f)]
    BY <1>1, Zenon DEF SaveBegins, NewEdit
  <2>3. NewEdit(time', v, f) \in EditRow
    <3>1. v \in Nat /\ f \in Fields
      BY <2>1
    <3> QED
      BY <2>1, <3>1, NewEditType
  <2>4. edits' \in [Edits -> EditRow]
    BY <2>2, <2>3
  <2> QED
    BY <1>1, <2>4 DEF SaveBegins, IndexFrame, fewShotVars
<1>2. ASSUME NEW e \in Edits, SaveCommits(e) PROVE IndexTypes' /\ IndexFrame
  <2>1. jobs' \in Table
    BY <1>2, EnqueuedType DEF SaveCommits
  <2>2. RunBegunAfter(edits[e].at) \in BOOLEAN
    BY DEF RunBegunAfter
  <2>3. edits' \in [Edits -> EditRow]
    <3>1. StoredRow(edits[e], RunBegunAfter(edits[e].at)) \in EditRow
      BY <2>2, StoredType
    <3>2. edits' = [edits EXCEPT ![e] = StoredRow(edits[e], RunBegunAfter(edits[e].at))]
      BY <1>2 DEF SaveCommits, StoredRow
    <3> QED
      BY <3>1, <3>2
  <2>4. UNCHANGED <<vectors, tasks, runVars, time, used, budget>>
    BY <1>2 DEF SaveCommits
  <2>5. IndexTypes'
    BY <2>1, <2>3, <2>4
  <2> QED
    BY <2>4, <2>5 DEF IndexFrame
<1>3. ASSUME NEW e \in Edits, DeleteDraft(e) PROVE IndexTypes' /\ IndexFrame
  <2>1. edits' \in [Edits -> EditRow]
    <3>1. DraftGone(edits[e]) \in EditRow
      BY StoredType
    <3>2. edits' = [edits EXCEPT ![e] = DraftGone(edits[e])]
      BY <1>3 DEF DeleteDraft, DraftGone
    <3> QED
      BY <3>1, <3>2
  <2> QED
    BY <1>3, <2>1 DEF DeleteDraft, IndexFrame, fewShotVars
<1>4. ASSUME NEW e \in Edits, Reconcile(e) PROVE IndexTypes' /\ IndexFrame
  BY <1>4, EnqueuedType DEF Reconcile, IndexFrame
<1>5. ASSUME NEW w \in Workers, Crash(w) PROVE IndexTypes' /\ IndexFrame
  BY <1>5, UseAborts DEF Crash, IndexFrame
<1>6. ASSUME NEW w \in Workers, NEW j \in JobIds, Claim(w, j) PROVE IndexTypes' /\ IndexFrame
  <2>1. jobs[j] \in Row /\ jobs[j].attempts + 1 \in Nat
    BY DEF Table, Row
  <2>2. jobs' \in Table
    BY <1>6, <2>1, RowStatements DEF Claim, Table
  <2>3. tasks' \subseteq Task
    BY <1>6, <2>1 DEF Claim, Task
  <2> QED
    BY <1>6, <2>2, <2>3 DEF Claim, IndexFrame
<1>7. ASSUME NEW t \in tasks, TaskStep(t) PROVE IndexTypes' /\ IndexFrame
  <2>1. t.job \in JobIds /\ jobs[t.job] \in Row
    BY DEF Task, Table
  <2>2. /\ [jobs EXCEPT ![t.job] = CompletedRow(@)] \in Table
        /\ [jobs EXCEPT ![t.job] = FailedRow(@, TRUE)] \in Table
    BY <2>1, RowStatements DEF Table
  <2>3. CASE ReadEdit(t)
    BY <2>3, GotoType DEF ReadEdit, IndexFrame
  <2>4. CASE Index(t)
    <3>1. vectors' \in [Edits -> {0, 1}]
      BY <2>4 DEF Index
    <3> QED
      BY <2>2, <2>4, <3>1 DEF Index, IndexFrame
  <2>5. CASE EmbedderFails(t)
    BY <2>5, GotoType DEF EmbedderFails, IndexFrame
  <2>6. CASE Outcome(t)
    <3>1. jobs' \in Table
      <4>1. CASE t.pc = "finish"
        BY <2>2, <2>6, <4>1 DEF Outcome
      <4>2. CASE t.pc # "finish"
        BY <2>2, <2>6, <4>2 DEF Outcome
      <4> QED
        BY <4>1, <4>2
    <3> QED
      BY <2>6, <3>1 DEF Outcome, IndexFrame
  <2> QED
    BY <1>7, <2>3, <2>4, <2>5, <2>6 DEF TaskStep
<1>8. ASSUME NEW j \in JobIds, Reclaim(j) PROVE IndexTypes' /\ IndexFrame
  <2>1. jobs[j] \in Row /\ [jobs[j] EXCEPT !.fresh = FALSE] \in Row
    BY LateType DEF Table
  <2>2. jobs' \in Table
    BY <1>8, <2>1, RowStatements DEF Reclaim, Table
  <2>3. used' \in Used /\ (used'.aborts = 0 => used.aborts = 0)
    BY <1>8, UseAborts DEF Reclaim
  <2> QED
    BY <1>8, <2>2, <2>3 DEF Reclaim, IndexFrame
<1> QED
  BY <1>1, <1>2, <1>3, <1>4, <1>5, <1>6, <1>7, <1>8 DEF IndexNext

-----------------------------------------------------------------------------
(* The runs of the extractor and the registries: types, and what each step does *)

\* A process that is given another run.
LEMMA SetRunType ==
    ASSUME runs \in [Processes -> Run], NEW p \in Processes, NEW r \in Run, SetRun(p, r)
    PROVE  /\ runs' \in [Processes -> Run]
           /\ runs'[p] = r
           /\ \A q \in Processes : q # p => runs'[q] = runs[q]
BY DEF SetRun

\* No run.
LEMMA NoRunType ==
    /\ NoRun \in Run
    /\ NoRun.pc = "idle" /\ NoRun.version = 0 /\ NoRun.rules = <<>> /\ NoRun.row = <<>>
    /\ NoRun.started = 0
BY DEF NoRun, Run, RunPcs

Begun(t, s) == [NoRun EXCEPT !.pc = "query", !.started = t, !.since = s]

Syncing(v) == [NoRun EXCEPT !.pc = "sync", !.version = v]

Moved(r, pc) == [r EXCEPT !.pc = pc]

Queried(r, pc, b, read, todo) == [r EXCEPT !.pc = pc, !.base = b, !.read = read, !.todo = todo]

Passed(r, f) == [r EXCEPT !.todo = r.todo \ {f}]

Learnt(r, f, rule) == [Passed(r, f) EXCEPT !.rules = Append(Passed(r, f).rules, rule)]

Appending(r, v, row) == [r EXCEPT !.pc = "insert", !.version = v, !.row = row]

\* A run that begins.
LEMMA BegunRun ==
    ASSUME NEW t \in Nat, NEW s \in Nat
    PROVE  LET r == Begun(t, s) IN
           /\ r \in Run
           /\ r.pc = "query" /\ r.started = t /\ r.since = s
           /\ r.version = 0 /\ r.rules = <<>> /\ r.row = <<>>
<1> DEFINE r1 == [NoRun EXCEPT !.pc = "query"]
           r2 == [r1 EXCEPT !.started = t]
           r3 == [r2 EXCEPT !.since = s]
<1>1. Begun(t, s) = r3
  BY DEF Begun
<1>2. r1 \in Run /\ r1.pc = "query" /\ r1.version = 0 /\ r1.rules = <<>> /\ r1.row = <<>>
  BY NoRunType DEF Run, RunPcs
<1> HIDE DEF r1
<1>3. r2 \in Run /\ r2.pc = r1.pc /\ r2.started = t
      /\ r2.version = r1.version /\ r2.rules = r1.rules /\ r2.row = r1.row
  BY <1>2 DEF Run
<1> HIDE DEF r2
<1>4. r3 \in Run /\ r3.pc = r2.pc /\ r3.started = r2.started /\ r3.since = s
      /\ r3.version = r2.version /\ r3.rules = r2.rules /\ r3.row = r2.row
  BY <1>3 DEF Run
<1> QED
  BY <1>1, <1>2, <1>3, <1>4

\* The startup that will insert a version.
LEMMA SyncingRun ==
    ASSUME NEW v \in Nat
    PROVE  LET r == Syncing(v) IN
           /\ r \in Run
           /\ r.pc = "sync" /\ r.version = v /\ r.started = 0 /\ r.rules = <<>> /\ r.row = <<>>
<1> DEFINE r1 == [NoRun EXCEPT !.pc = "sync"]
           r2 == [r1 EXCEPT !.version = v]
<1>1. Syncing(v) = r2
  BY DEF Syncing
<1>2. r1 \in Run /\ r1.pc = "sync" /\ r1.started = 0 /\ r1.rules = <<>> /\ r1.row = <<>>
  BY NoRunType DEF Run, RunPcs
<1> HIDE DEF r1
<1>3. r2 \in Run /\ r2.pc = r1.pc /\ r2.version = v
      /\ r2.started = r1.started /\ r2.rules = r1.rules /\ r2.row = r1.row
  BY <1>2 DEF Run
<1> QED
  BY <1>1, <1>2, <1>3

\* Everything of a run that has the same timestamps and edits.
SameReading(r, s) == r.started = s.started /\ r.since = s.since /\ r.read = s.read

\* A run that goes on to another place.
LEMMA MovedRun ==
    ASSUME NEW r \in Run, NEW pc \in RunPcs
    PROVE  LET s == Moved(r, pc) IN
           /\ s \in Run /\ SameReading(s, r)
           /\ s.pc = pc /\ s.rules = r.rules /\ s.version = r.version /\ s.row = r.row
BY DEF Moved, Run, SameReading

\* A run that has read its edits.
LEMMA QueriedRun ==
    ASSUME NEW r \in Run, NEW pc \in RunPcs, NEW b \in Seq(Rules), NEW read \in SUBSET Edits,
           NEW todo \in SUBSET Fields
    PROVE  LET s == Queried(r, pc, b, read, todo) IN
           /\ s \in Run /\ s.started = r.started /\ s.since = r.since /\ s.read = read
           /\ s.pc = pc /\ s.rules = r.rules /\ s.version = r.version /\ s.row = r.row
<1> DEFINE r1 == [r EXCEPT !.pc = pc]
           r2 == [r1 EXCEPT !.base = b]
           r3 == [r2 EXCEPT !.read = read]
           r4 == [r3 EXCEPT !.todo = todo]
<1>1. Queried(r, pc, b, read, todo) = r4
  BY DEF Queried
<1>2. r1 \in Run /\ r1.pc = pc /\ r1.started = r.started /\ r1.since = r.since
      /\ r1.rules = r.rules /\ r1.version = r.version /\ r1.row = r.row
  BY DEF Run
<1> HIDE DEF r1
<1>3. r2 \in Run /\ r2.pc = r1.pc /\ r2.started = r1.started /\ r2.since = r1.since
      /\ r2.rules = r1.rules /\ r2.version = r1.version /\ r2.row = r1.row
  BY <1>2 DEF Run
<1> HIDE DEF r2
<1>4. r3 \in Run /\ r3.pc = r2.pc /\ r3.started = r2.started /\ r3.since = r2.since
      /\ r3.read = read
      /\ r3.rules = r2.rules /\ r3.version = r2.version /\ r3.row = r2.row
  BY <1>3 DEF Run
<1> HIDE DEF r3
<1>5. r4 \in Run /\ r4.pc = r3.pc /\ r4.started = r3.started /\ r4.since = r3.since
      /\ r4.read = r3.read
      /\ r4.rules = r3.rules /\ r4.version = r3.version /\ r4.row = r3.row
  BY <1>4 DEF Run
<1> QED
  BY <1>1, <1>2, <1>3, <1>4, <1>5

\* A run that has analysed a group without a rule.
LEMMA PassedRun ==
    ASSUME NEW r \in Run, NEW f
    PROVE  LET s == Passed(r, f) IN
           /\ s \in Run /\ SameReading(s, r) /\ s.pc = r.pc
           /\ s.rules = r.rules /\ s.version = r.version /\ s.row = r.row
BY DEF Passed, Run, SameReading

\* A run that has got a rule from it.
LEMMA LearntRun ==
    ASSUME NEW r \in Run, NEW f, NEW rule \in Rules
    PROVE  LET s == Learnt(r, f, rule) IN
           /\ s \in Run /\ SameReading(s, r) /\ s.pc = r.pc
           /\ s.rules = Append(r.rules, rule) /\ s.version = r.version /\ s.row = r.row
<1> DEFINE rest == Passed(r, f)
           a == Append(rest.rules, rule)
           s == [rest EXCEPT !.rules = a]
<1>1. /\ rest \in Run /\ SameReading(rest, r) /\ rest.pc = r.pc
      /\ rest.rules = r.rules /\ rest.version = r.version /\ rest.row = r.row
  BY PassedRun
<1>2. Learnt(r, f, rule) = s
  BY DEF Learnt
<1> HIDE DEF rest
<1>3. rest.rules \in Seq(Rules)
  BY <1>1 DEF Run
<1>4. a \in Seq(Rules)
  BY <1>3
<1> HIDE DEF a
<1>5. /\ s \in Run /\ s.pc = rest.pc /\ s.rules = a
      /\ s.version = rest.version /\ s.row = rest.row
      /\ s.started = rest.started /\ s.since = rest.since /\ s.read = rest.read
  BY <1>1, <1>4 DEF Run
<1> HIDE DEF s
<1>6. s \in Run /\ SameReading(s, r) /\ s.pc = r.pc /\ s.version = r.version /\ s.row = r.row
  BY <1>1, <1>5 DEF SameReading
<1>7. s.rules = Append(r.rules, rule)
  BY <1>1, <1>5, Zenon DEF a
<1> QED
  BY <1>2, <1>6, <1>7, Zenon

\* A run that has a version to insert.
LEMMA AppendingRun ==
    ASSUME NEW r \in Run, NEW v \in Nat, NEW row \in Seq(Rules)
    PROVE  LET s == Appending(r, v, row) IN
           /\ s \in Run /\ SameReading(s, r)
           /\ s.pc = "insert" /\ s.rules = r.rules /\ s.version = v /\ s.row = row
<1> DEFINE r1 == [r EXCEPT !.pc = "insert"]
           r2 == [r1 EXCEPT !.version = v]
           r3 == [r2 EXCEPT !.row = row]
<1>1. Appending(r, v, row) = r3
  BY DEF Appending
<1>2. r1 \in Run /\ r1.pc = "insert" /\ SameReading(r1, r) /\ r1.rules = r.rules
  BY DEF Run, RunPcs, SameReading
<1> HIDE DEF r1
<1>3. r2 \in Run /\ r2.pc = r1.pc /\ SameReading(r2, r1) /\ r2.rules = r1.rules /\ r2.version = v
  BY <1>2 DEF Run, SameReading
<1> HIDE DEF r2
<1>4. r3 \in Run /\ r3.pc = r2.pc /\ SameReading(r3, r2) /\ r3.rules = r2.rules
      /\ r3.version = r2.version /\ r3.row = row
  BY <1>3 DEF Run, SameReading
<1> QED
  BY <1>1, <1>2, <1>3, <1>4 DEF SameReading

\* What a registry takes for the rules of the latest version.
LEMMA GetLatestType ==
    ASSUME RunTypes, NEW p \in Processes
    PROVE  /\ Latest \in Nat \ {0} /\ templates[Latest] \in Seq(Rules)
           /\ GetLatest(p) \in Seq(Rules)
BY DEF RunTypes, GetLatest, Latest

\* A registry that caches a version.
LEMMA CachedType ==
    ASSUME RunTypes, NEW p \in Processes, NEW v \in Nat, NEW rules \in Seq(Rules),
           NEW c, c = Cached(p, v, rules)
    PROVE  /\ DOMAIN c = Processes
           /\ \A q \in Processes : q # p => c[q] = cache[q]
           /\ DOMAIN c[p] = DOMAIN cache[p] \cup {v}
           /\ c[p] \in [DOMAIN c[p] -> Seq(Rules)]
           /\ c[p][v] = rules
           /\ \A i \in DOMAIN cache[p] : i # v => c[p][i] = cache[p][i]
<1>1. Cached(p, v, rules) =
        [cache EXCEPT ![p] = [i \in DOMAIN cache[p] \cup {v} |->
                                 IF i = v THEN rules ELSE cache[p][i]]]
  BY DEF Cached
<1>2. DOMAIN cache = Processes /\ cache[p] \in [DOMAIN cache[p] -> Seq(Rules)]
  BY DEF RunTypes
<1> QED
  BY <1>1, <1>2

-----------------------------------------------------------------------------
(* What the steps of a run do *)

\* The other processes keep their runs and caches, and the index is left alone.
RunFrame(p) ==
    /\ RunTypes'
    /\ UNCHANGED edits
    /\ \A q \in Processes : q # p => runs'[q] = runs[q] /\ cache'[q] = cache[q]
    /\ used'.aborts = 0 => used.aborts = 0

\* Only p's run changes, and it keeps its timestamps; nothing of it is committed.
LocalStep(p) ==
    /\ RunFrame(p)
    /\ Locking(p) /\ runs'[p].pc \in RunPcs \ {"idle", "commit", "sync", "query"}
    /\ runs'[p].started = runs[p].started /\ runs'[p].since = runs[p].since
    /\ UNCHANGED <<templates, lastRun, lock, time, readVars, used>>

\* p's cache is as before, or has the rules of the latest version that p takes for it.
CacheRead(p) ==
    /\ DOMAIN cache'[p] \subseteq DOMAIN cache[p] \cup {Latest}
    /\ \A v \in DOMAIN cache'[p] :
          cache'[p][v] = IF v = Latest THEN GetLatest(p) ELSE cache[p][v]

\* Taking the rules of the latest version from the cache or the table.
LEMMA ReadsCache ==
    ASSUME RunTypes, NEW p \in Processes, cache' = Cached(p, Latest, GetLatest(p))
    PROVE  /\ CacheRead(p) /\ DOMAIN cache' = Processes
           /\ \A q \in Processes : q # p => cache'[q] = cache[q]
           /\ \A q \in Processes : /\ cache'[q] \in [DOMAIN cache'[q] -> Seq(Rules)]
                                   /\ DOMAIN cache'[q] \subseteq 1 .. Latest + 1
<1>1. GetLatest(p) \in Seq(Rules) /\ Latest \in Nat /\ Latest # 0
  BY GetLatestType
<1>2. /\ DOMAIN cache' = Processes
      /\ \A q \in Processes : q # p => cache'[q] = cache[q]
      /\ DOMAIN cache'[p] = DOMAIN cache[p] \cup {Latest}
      /\ cache'[p] \in [DOMAIN cache'[p] -> Seq(Rules)]
      /\ cache'[p][Latest] = GetLatest(p)
      /\ \A i \in DOMAIN cache[p] : i # Latest => cache'[p][i] = cache[p][i]
  BY <1>1, CachedType
<1>3. CacheRead(p)
  BY <1>2 DEF CacheRead
<1>4. \A q \in Processes : /\ cache'[q] \in [DOMAIN cache'[q] -> Seq(Rules)]
                           /\ DOMAIN cache'[q] \subseteq 1 .. Latest + 1
  <2>1. \A q \in Processes : /\ cache[q] \in [DOMAIN cache[q] -> Seq(Rules)]
                             /\ DOMAIN cache[q] \subseteq 1 .. Latest + 1
    BY DEF RunTypes
  <2>2. DOMAIN cache'[p] \subseteq 1 .. Latest + 1
    BY <1>1, <1>2, <2>1
  <2> QED
    BY <1>2, <2>1, <2>2, Zenon
<1> QED
  BY <1>2, <1>3, <1>4

\* The lock is taken.
LEMMA AcquireStep ==
    ASSUME TypeInv, NEW p \in Processes, Acquire(p)
    PROVE  /\ RunFrame(p)
           /\ runs[p].pc = "idle" /\ lock = NoProcess /\ lock' = p /\ time' = time + 1
           /\ runs'[p].pc = "query" /\ runs'[p].started = time'
           /\ runs'[p].since \in (IF lastRun = 0 THEN Lookback ELSE {lastRun})
           /\ runs'[p].version = 0 /\ runs'[p].rules = <<>> /\ runs'[p].row = <<>>
           /\ UNCHANGED <<templates, lastRun, cache, readVars>>
<1>1. RunTypes
  BY DEF TypeInv
<1>2. time' \in Nat /\ lastRun \in Nat /\ used \in Used /\ runs \in [Processes -> Run]
  BY <1>1 DEF RunTypes, Acquire
<1> PICK since \in IF lastRun = 0 THEN Lookback ELSE {lastRun} : SetRun(p, Begun(time', since))
  BY DEF Acquire, Begun
<1> DEFINE r == Begun(time', since)
<1>3. /\ r \in Run /\ r.pc = "query" /\ r.started = time' /\ r.since = since
      /\ r.version = 0 /\ r.rules = <<>> /\ r.row = <<>>
  <2>1. since \in Nat
    <3>1. Lookback \subseteq Nat
      BY DEF Lookback, TypeInv, IndexTypes, EditRow
    <3> QED
      BY <1>2, <3>1
  <2> QED
    BY <1>2, <2>1, BegunRun
<1>4. SetRun(p, r)
  OBVIOUS
<1> HIDE DEF r
<1>5. /\ runs' \in [Processes -> Run] /\ runs'[p] = r
      /\ \A q \in Processes : q # p => runs'[q] = runs[q]
  BY <1>2, <1>3, <1>4, SetRunType
<1>6. used' \in Used /\ used'.aborts = used.aborts
  BY <1>2, UseOther DEF Acquire
<1>7. RunTypes'
  BY <1>1, <1>2, <1>5, <1>6 DEF RunTypes, readVars, Acquire, Latest
<1> QED
  BY <1>3, <1>5, <1>6, <1>7 DEF RunFrame, Acquire

\* The edits are read.
LEMMA QueryStep ==
    ASSUME TypeInv, NEW p \in Processes, Query(p)
    PROVE  /\ LocalStep(p) /\ CacheRead(p)
           /\ runs[p].pc = "query" /\ runs'[p].pc \in {"upsert", "analyse"}
           /\ runs'[p].read = Recent(runs[p].since)
           /\ runs'[p].version = runs[p].version /\ runs'[p].rules = runs[p].rules
           /\ runs'[p].row = runs[p].row
<1>1. RunTypes /\ runs \in [Processes -> Run] /\ runs[p] \in Run
  BY DEF TypeInv, RunTypes
<1> DEFINE read == Recent(runs[p].since)
           pc == IF read = {} THEN "upsert" ELSE "analyse"
           base == GetLatest(p)
           todo == LargeGroups(read)
           r == Queried(runs[p], pc, base, read, todo)
<1>2. base \in Seq(Rules) /\ Latest \in Nat \ {0}
  BY <1>1, GetLatestType
<1>3. read \in SUBSET Edits /\ todo \in SUBSET Fields
  BY DEF Recent, Stored, LargeGroups
<1>4. pc \in RunPcs /\ pc \in {"upsert", "analyse"}
  BY DEF RunPcs
<1>5. SetRun(p, r) /\ cache' = Cached(p, Latest, base) /\ runs[p].pc = "query"
  BY Zenon DEF Query, Queried
<1>6. UNCHANGED <<edits, templates, lastRun, lock, time, readVars, used, budget>>
  BY DEF Query
<1> HIDE DEF read, pc, base, todo
<1>7. /\ r \in Run /\ r.started = runs[p].started /\ r.since = runs[p].since /\ r.read = read
      /\ r.pc = pc /\ r.rules = runs[p].rules /\ r.version = runs[p].version
      /\ r.row = runs[p].row
  BY <1>1, <1>2, <1>3, <1>4, QueriedRun
<1> HIDE DEF r
<1>8. /\ runs' \in [Processes -> Run] /\ runs'[p] = r
      /\ \A q \in Processes : q # p => runs'[q] = runs[q]
  BY <1>1, <1>5, <1>7, SetRunType
<1>9. /\ CacheRead(p) /\ DOMAIN cache' = Processes
      /\ \A q \in Processes : q # p => cache'[q] = cache[q]
      /\ \A q \in Processes : /\ cache'[q] \in [DOMAIN cache'[q] -> Seq(Rules)]
                              /\ DOMAIN cache'[q] \subseteq 1 .. Latest + 1
  BY <1>1, <1>5, ReadsCache DEF base
<1>10. Latest' = Latest
  BY <1>6 DEF Latest
<1>12. RunTypes'
  BY <1>1, <1>6, <1>8, <1>9, <1>10 DEF RunTypes, readVars
<1>13. RunFrame(p)
  BY <1>6, <1>8, <1>9, <1>12 DEF RunFrame
<1>14. Locking(p) /\ runs'[p].pc \in RunPcs \ {"idle", "commit", "sync", "query"}
  BY <1>4, <1>5, <1>7, <1>8 DEF Locking, RunPcs
<1>15. LocalStep(p)
  BY <1>6, <1>7, <1>8, <1>13, <1>14 DEF LocalStep
<1> QED
  BY <1>4, <1>5, <1>7, <1>8, <1>9, <1>15 DEF read

\* A group is analysed.
LEMMA AnalyseStep ==
    ASSUME TypeInv, NEW p \in Processes, Analyse(p)
    PROVE  /\ LocalStep(p) /\ cache' = cache
           /\ runs[p].pc = "analyse" /\ runs'[p].pc = "analyse"
           /\ runs'[p].read = runs[p].read
           /\ runs'[p].version = runs[p].version /\ runs'[p].row = runs[p].row
           /\ \/ runs'[p].rules = runs[p].rules
              \/ \E rule \in Rules : /\ rule \notin ToSet(runs[p].rules)
                                     /\ runs'[p].rules = Append(runs[p].rules, rule)
<1>1. RunTypes /\ runs \in [Processes -> Run] /\ runs[p] \in Run
  BY DEF TypeInv, RunTypes
<1>2. PICK f \in runs[p].todo :
          \/ SetRun(p, Passed(runs[p], f))
          \/ \E rule \in Rules :
                /\ ~IsSimilar(rule, ToSet(runs[p].base) \cup ToSet(runs[p].rules))
                /\ SetRun(p, Learnt(runs[p], f, rule))
  BY Zenon DEF Analyse, Passed, Learnt
<1> DEFINE rest == Passed(runs[p], f)
           more(rule) == Learnt(runs[p], f, rule)
           old == runs[p]
<1>3. /\ rest \in Run /\ SameReading(rest, old) /\ rest.pc = old.pc
      /\ rest.rules = old.rules /\ rest.version = old.version /\ rest.row = old.row
      /\ \A rule \in Rules :
            /\ more(rule) \in Run /\ SameReading(more(rule), old) /\ more(rule).pc = old.pc
            /\ more(rule).rules = Append(old.rules, rule)
            /\ more(rule).version = old.version /\ more(rule).row = old.row
  <2>1. old \in Run
    BY <1>1
  <2> HIDE DEF old
  <2>2. /\ rest \in Run /\ SameReading(rest, old) /\ rest.pc = old.pc
        /\ rest.rules = old.rules /\ rest.version = old.version /\ rest.row = old.row
    BY <2>1, PassedRun DEF old
  <2>3. ASSUME NEW rule \in Rules
        PROVE  /\ more(rule) \in Run /\ SameReading(more(rule), old) /\ more(rule).pc = old.pc
               /\ more(rule).rules = Append(old.rules, rule)
               /\ more(rule).version = old.version /\ more(rule).row = old.row
    BY <2>1, LearntRun DEF old
  <2> QED
    BY <2>2, <2>3, Zenon
<1>4. runs[p].pc = "analyse" /\ UNCHANGED <<edits, templates, lastRun, lock, cache, time, readVars, used, budget>>
  BY DEF Analyse
<1>5. \A r \in Run : SetRun(p, r) =>
          /\ runs' \in [Processes -> Run] /\ runs'[p] = r
          /\ \A q \in Processes : q # p => runs'[q] = runs[q]
  BY <1>1, SetRunType
<1>6. \/ SetRun(p, rest)
      \/ \E rule \in Rules : rule \notin ToSet(old.rules) /\ SetRun(p, more(rule))
  BY <1>2 DEF IsSimilar
<1> HIDE DEF rest, more
<1>7. /\ runs' \in [Processes -> Run] /\ \A q \in Processes : q # p => runs'[q] = runs[q]
      /\ SameReading(runs'[p], old) /\ runs'[p].pc = old.pc
      /\ runs'[p].version = old.version /\ runs'[p].row = old.row
      /\ \/ runs'[p].rules = old.rules
         \/ \E rule \in Rules : /\ rule \notin ToSet(old.rules)
                                /\ runs'[p].rules = Append(old.rules, rule)
  <2>1. CASE SetRun(p, rest)
    BY <1>3, <1>5, <2>1, Zenon
  <2>2. ASSUME NEW rule \in Rules, rule \notin ToSet(old.rules), SetRun(p, more(rule))
        PROVE  <1>7!:
    BY <1>3, <1>5, <2>2, Zenon
  <2> QED
    BY <1>6, <2>1, <2>2, Zenon
<1>8. RunTypes'
  BY <1>1, <1>4, <1>7 DEF RunTypes, readVars, Latest
<1>9. RunFrame(p)
  BY <1>4, <1>7, <1>8 DEF RunFrame
<1>10. LocalStep(p)
  BY <1>4, <1>7, <1>9 DEF LocalStep, Locking, RunPcs, SameReading
<1> QED
  BY <1>4, <1>7, <1>10 DEF SameReading

\* The groups are all analysed.
LEMMA AnalysedStep ==
    ASSUME TypeInv, NEW p \in Processes, Analysed(p)
    PROVE  /\ LocalStep(p) /\ cache' = cache
           /\ runs[p].pc = "analyse" /\ runs'[p].pc \in {"upsert", "append"}
           /\ runs'[p].read = runs[p].read /\ runs'[p].rules = runs[p].rules
           /\ runs'[p].version = runs[p].version /\ runs'[p].row = runs[p].row
<1>1. RunTypes /\ runs \in [Processes -> Run] /\ runs[p] \in Run
  BY DEF TypeInv, RunTypes
<1> DEFINE pc == IF runs[p].rules = <<>> THEN "upsert" ELSE "append"
           r == Moved(runs[p], pc)
<1>2. pc \in RunPcs /\ pc \in {"upsert", "append"}
  BY DEF RunPcs
<1>3. SetRun(p, r) /\ runs[p].pc = "analyse"
      /\ UNCHANGED <<edits, templates, lastRun, lock, cache, time, readVars, used, budget>>
  BY DEF Analysed, Moved
<1> HIDE DEF pc
<1>4. /\ r \in Run /\ SameReading(r, runs[p])
      /\ r.pc = pc /\ r.rules = runs[p].rules /\ r.version = runs[p].version /\ r.row = runs[p].row
  BY <1>1, <1>2, MovedRun
<1> HIDE DEF r
<1>5. /\ runs' \in [Processes -> Run] /\ runs'[p] = r
      /\ \A q \in Processes : q # p => runs'[q] = runs[q]
  BY <1>1, <1>3, <1>4, SetRunType
<1>6. RunTypes'
  BY <1>1, <1>3, <1>5 DEF RunTypes, readVars, Latest
<1>7. RunFrame(p)
  BY <1>3, <1>5, <1>6 DEF RunFrame
<1>8. LocalStep(p)
  BY <1>2, <1>3, <1>4, <1>5, <1>7 DEF LocalStep, Locking, RunPcs, SameReading
<1> QED
  BY <1>2, <1>3, <1>4, <1>5, <1>8 DEF SameReading

\* The rules are compared with the latest version again.
LEMMA AppendRulesStep ==
    ASSUME TypeInv, NEW p \in Processes, AppendRules(p)
    PROVE  /\ LocalStep(p) /\ CacheRead(p)
           /\ runs[p].pc = "append"
           /\ runs'[p].read = runs[p].read /\ runs'[p].rules = runs[p].rules
           /\ \/ /\ runs'[p].pc = "upsert"
                 /\ runs'[p].version = runs[p].version /\ runs'[p].row = runs[p].row
              \/ /\ runs'[p].pc = "insert" /\ runs'[p].version = Latest + 1
                 /\ runs'[p].row = GetLatest(p) \o Deduped(runs[p].rules, ToSet(GetLatest(p)))
<1>1. RunTypes /\ runs \in [Processes -> Run] /\ runs[p] \in Run /\ runs[p].rules \in Seq(Rules)
  BY DEF TypeInv, RunTypes, Run
<1> DEFINE current == GetLatest(p)
           deduped == Deduped(runs[p].rules, ToSet(current))
           row == current \o deduped
           r1 == Moved(runs[p], "upsert")
           v == Latest + 1
           r2 == Appending(runs[p], v, row)
<1>2. current \in Seq(Rules) /\ Latest \in Nat /\ Latest # 0 /\ v \in Nat
  BY <1>1, GetLatestType
<1>3. deduped \in Seq(Rules)
  BY <1>1, DedupedRules
<1>4. (SetRun(p, r1) \/ SetRun(p, r2)) /\ runs[p].pc = "append"
      /\ cache' = Cached(p, Latest, GetLatest(p))
  BY DEF AppendRules, Moved, Appending
<1>5. UNCHANGED <<edits, templates, lastRun, lock, time, readVars, used, budget>>
  BY DEF AppendRules
<1> HIDE DEF current, deduped, v
<1>6. row \in Seq(Rules)
  BY <1>2, <1>3
<1> HIDE DEF row
<1>7. /\ r1 \in Run /\ SameReading(r1, runs[p])
      /\ r1.pc = "upsert" /\ r1.rules = runs[p].rules /\ r1.version = runs[p].version
      /\ r1.row = runs[p].row
  BY <1>1, MovedRun DEF RunPcs
<1>8. /\ r2 \in Run /\ SameReading(r2, runs[p])
      /\ r2.pc = "insert" /\ r2.rules = runs[p].rules /\ r2.version = v /\ r2.row = row
  <2>1. runs[p] \in Run /\ v \in Nat
    BY <1>1, <1>2
  <2> QED
    BY <1>6, <2>1, AppendingRun
<1> HIDE DEF r1, r2
<1>9. /\ runs' \in [Processes -> Run] /\ runs'[p] \in {r1, r2}
      /\ \A q \in Processes : q # p => runs'[q] = runs[q]
  BY <1>1, <1>4, <1>7, <1>8, SetRunType
<1>10. /\ CacheRead(p) /\ DOMAIN cache' = Processes
       /\ \A q \in Processes : q # p => cache'[q] = cache[q]
       /\ \A q \in Processes : /\ cache'[q] \in [DOMAIN cache'[q] -> Seq(Rules)]
                               /\ DOMAIN cache'[q] \subseteq 1 .. Latest + 1
  BY <1>1, <1>4, ReadsCache
<1>11. Latest' = Latest
  BY <1>5 DEF Latest
<1>12. RunTypes'
  BY <1>1, <1>5, <1>9, <1>10, <1>11 DEF RunTypes, readVars
<1>13. RunFrame(p)
  BY <1>5, <1>9, <1>10, <1>12 DEF RunFrame
<1>14. Locking(p) /\ runs'[p].pc \in RunPcs \ {"idle", "commit", "sync", "query"}
  BY <1>4, <1>7, <1>8, <1>9 DEF Locking, RunPcs
<1>15. SameReading(runs'[p], runs[p]) /\ runs'[p].rules = runs[p].rules
  BY <1>7, <1>8, <1>9
<1>16. LocalStep(p)
  BY <1>5, <1>13, <1>14, <1>15 DEF LocalStep, SameReading
<1> QED
  BY <1>4, <1>7, <1>8, <1>9, <1>10, <1>15, <1>16 DEF SameReading, row, deduped, current, v

\* p is given another run.
LEMMA RunChanges ==
    ASSUME TypeInv, NEW p \in Processes, NEW r \in Run, SetRun(p, r)
    PROVE  /\ runs' \in [Processes -> Run] /\ runs'[p] = r
           /\ \A q \in Processes : q # p => runs'[q] = runs[q]
<1>1. runs \in [Processes -> Run]
  BY DEF TypeInv, RunTypes
<1> QED
  BY <1>1, SetRunType

\* p's cache is replaced.
LEMMA CacheChanges ==
    ASSUME TypeInv, NEW p \in Processes, NEW D \in SUBSET (1 .. Latest + 1),
           NEW c \in [D -> Seq(Rules)], cache' = [cache EXCEPT ![p] = c]
    PROVE  /\ DOMAIN cache' = Processes /\ cache'[p] = c
           /\ \A q \in Processes : q # p => cache'[q] = cache[q]
           /\ \A q \in Processes : /\ cache'[q] \in [DOMAIN cache'[q] -> Seq(Rules)]
                                   /\ DOMAIN cache'[q] \subseteq 1 .. Latest + 1
<1>1. /\ DOMAIN cache = Processes
      /\ \A q \in Processes : /\ cache[q] \in [DOMAIN cache[q] -> Seq(Rules)]
                              /\ DOMAIN cache[q] \subseteq 1 .. Latest + 1
  BY DEF TypeInv, RunTypes
<1>2. DOMAIN cache' = Processes /\ cache'[p] = c /\ \A q \in Processes : q # p => cache'[q] = cache[q]
  BY <1>1
<1>3. DOMAIN c = D
  OBVIOUS
<1> QED
  BY <1>1, <1>2, <1>3, Zenon

\* The new version is inserted, or there is one already and the run fails.
LEMMA InsertStep ==
    ASSUME TypeInv, TimeInv, NEW p \in Processes, InsertVersion(p)
    PROVE  /\ RunFrame(p) /\ runs[p].pc = "insert" /\ ~Waits(p, runs[p].version)
           /\ UNCHANGED <<templates, lastRun, time, readVars, used>>
           /\ \/ /\ runs'[p] = NoRun /\ lock' = NoProcess /\ cache' = cache
              \/ /\ runs[p].version = Latest + 1 /\ lock' = lock
                 /\ runs'[p] = Moved(runs[p], "upsert")
                 /\ cache'[p] = [v \in {Latest + 1} |-> runs[p].row]
<1>1. RunTypes /\ runs[p] \in Run /\ Latest \in Nat
  BY GetLatestType DEF TypeInv, RunTypes
<1>2. runs[p].version <= Latest + 1 /\ runs[p].version \in Nat /\ runs[p].row \in Seq(Rules)
  BY <1>1 DEF TimeInv, Run
<1>3. /\ runs[p].pc = "insert" /\ ~Waits(p, runs[p].version)
      /\ UNCHANGED <<edits, templates, lastRun, time, readVars, used, budget>>
  BY DEF InsertVersion
<1>4. Latest' = Latest
  BY <1>3 DEF Latest
<1>5. CASE runs[p].version <= Latest
  <2>1. SetRun(p, NoRun) /\ lock' = NoProcess /\ cache' = cache
    BY <1>5 DEF InsertVersion
  <2>2. /\ runs' \in [Processes -> Run] /\ runs'[p] = NoRun
        /\ \A q \in Processes : q # p => runs'[q] = runs[q]
    BY <2>1, NoRunType, RunChanges
  <2>3. RunTypes'
    BY <1>1, <1>3, <1>4, <2>1, <2>2 DEF RunTypes, readVars
  <2> QED
    BY <1>3, <2>1, <2>2, <2>3 DEF RunFrame
<1>6. CASE ~(runs[p].version <= Latest)
  <2>1. runs[p].version = Latest + 1
    BY <1>1, <1>2, <1>6
  <2> DEFINE r == Moved(runs[p], "upsert")
             c == [v \in {Latest + 1} |-> runs[p].row]
  <2>2. SetRun(p, r) /\ cache' = [cache EXCEPT ![p] = c] /\ lock' = lock
    BY <1>6, <2>1 DEF InsertVersion, Moved
  <2>3. r \in Run
    BY <1>1, MovedRun DEF RunPcs
  <2>4. c \in [{Latest + 1} -> Seq(Rules)] /\ {Latest + 1} \in SUBSET (1 .. Latest + 1)
    BY <1>1, <1>2
  <2> HIDE DEF r, c
  <2>5. /\ runs' \in [Processes -> Run] /\ runs'[p] = r
        /\ \A q \in Processes : q # p => runs'[q] = runs[q]
    BY <2>2, <2>3, RunChanges
  <2>6. /\ DOMAIN cache' = Processes /\ cache'[p] = c
        /\ \A q \in Processes : q # p => cache'[q] = cache[q]
        /\ \A q \in Processes : /\ cache'[q] \in [DOMAIN cache'[q] -> Seq(Rules)]
                                /\ DOMAIN cache'[q] \subseteq 1 .. Latest + 1
    BY <2>2, <2>4, CacheChanges, Zenon
  <2>7. RunTypes'
    BY <1>1, <1>3, <1>4, <2>2, <2>5, <2>6 DEF RunTypes, readVars
  <2>8. RunFrame(p)
    BY <1>3, <2>5, <2>6, <2>7 DEF RunFrame
  <2> QED
    BY <1>3, <2>1, <2>2, <2>5, <2>6, <2>8 DEF r, c
<1> QED
  BY <1>5, <1>6

\* The state is written and the lock released.
LEMMA UpsertStep ==
    ASSUME TypeInv, NEW p \in Processes, UpsertState(p)
    PROVE  /\ RunFrame(p) /\ runs[p].pc = "upsert"
           /\ \A q \in Processes \ {p} : runs[q].pc # "commit"
           /\ runs'[p] = Moved(runs[p], "commit") /\ lock' = NoProcess
           /\ UNCHANGED <<templates, lastRun, cache, time, readVars, used>>
<1>1. RunTypes /\ runs[p] \in Run
  BY DEF TypeInv, RunTypes
<1>2. /\ runs[p].pc = "upsert" /\ \A q \in Processes \ {p} : runs[q].pc # "commit"
      /\ lock' = NoProcess
      /\ UNCHANGED <<edits, templates, lastRun, cache, time, readVars, used, budget>>
  BY DEF UpsertState
<1> DEFINE r == Moved(runs[p], "commit")
<1>3. SetRun(p, r)
  BY DEF UpsertState, Moved
<1>4. r \in Run
  BY <1>1, MovedRun DEF RunPcs
<1> HIDE DEF r
<1>5. /\ runs' \in [Processes -> Run] /\ runs'[p] = r
      /\ \A q \in Processes : q # p => runs'[q] = runs[q]
  BY <1>3, <1>4, RunChanges
<1>6. RunTypes'
  BY <1>1, <1>2, <1>5 DEF RunTypes, readVars, Latest
<1> QED
  BY <1>2, <1>5, <1>6 DEF RunFrame, r

\* The run is committed.
LEMMA CommitStep ==
    ASSUME TypeInv, NEW p \in Processes, Commit(p)
    PROVE  /\ RunFrame(p) /\ runs[p].pc = "commit" /\ runs'[p] = NoRun
           /\ lastRun' = runs[p].started /\ seen' = seen \cup runs[p].read
           /\ horizon' = AskedFrom(p)
           /\ IF Inserted(p)
              THEN templates' = Append(templates, runs[p].row) /\ Latest' = Latest + 1
              ELSE templates' = templates /\ Latest' = Latest
           /\ UNCHANGED <<lock, cache, time, used>>
<1>1. RunTypes /\ runs[p] \in Run /\ Latest \in Nat
  BY GetLatestType DEF TypeInv, RunTypes
<1>2. runs[p].row \in Seq(Rules) /\ runs[p].started \in Nat /\ runs[p].since \in Nat
      /\ runs[p].read \subseteq Edits
  BY <1>1 DEF Run
<1>3. /\ runs[p].pc = "commit" /\ SetRun(p, NoRun)
      /\ lastRun' = runs[p].started /\ seen' = seen \cup runs[p].read
      /\ horizon' = AskedFrom(p)
      /\ templates' = IF Inserted(p) THEN Append(templates, runs[p].row) ELSE templates
      /\ UNCHANGED <<edits, lock, cache, time, used, budget>>
  BY DEF Commit, AskedFrom
<1>4. /\ runs' \in [Processes -> Run] /\ runs'[p] = NoRun
      /\ \A q \in Processes : q # p => runs'[q] = runs[q]
  BY <1>3, NoRunType, RunChanges
<1>5. /\ templates' \in Seq(Seq(Rules)) /\ Latest' \in Nat /\ Len(templates') > 0
      /\ Latest <= Latest'
      /\ IF Inserted(p) THEN Latest' = Latest + 1 ELSE Latest' = Latest
  <2>1. templates \in Seq(Seq(Rules)) /\ Len(templates) > 0 /\ Latest = Len(templates)
        /\ Latest' = Len(templates')
    BY <1>1 DEF RunTypes, Latest
  <2>2. CASE Inserted(p)
    <3>1. templates' = Append(templates, runs[p].row)
      BY <1>3, <2>2
    <3>2. templates' \in Seq(Seq(Rules)) /\ Len(templates') = Len(templates) + 1
      BY <1>2, <2>1, <3>1
    <3> QED
      BY <1>1, <2>1, <2>2, <3>2
  <2>3. CASE ~Inserted(p)
    BY <1>1, <1>3, <2>1, <2>3
  <2> QED
    BY <2>2, <2>3
<1>6. \A q \in Processes : DOMAIN cache'[q] \subseteq 1 .. Latest' + 1
  BY <1>1, <1>3, <1>5 DEF RunTypes
<1>7. RunTypes'
  BY <1>1, <1>2, <1>3, <1>4, <1>5, <1>6 DEF RunTypes, AskedFrom
<1>8. RunFrame(p)
  BY <1>3, <1>4, <1>7 DEF RunFrame
<1> QED
  BY <1>3, <1>4, <1>5, <1>8

\* The run is rolled back.
LEMMA AbortStep ==
    ASSUME TypeInv, NEW p \in Processes, AbortRun(p)
    PROVE  /\ RunFrame(p) /\ Active(p) /\ runs'[p] = NoRun /\ used'.aborts # 0
           /\ lock' = IF lock = p THEN NoProcess ELSE lock
           /\ UNCHANGED <<templates, lastRun, cache, time, readVars>>
<1>1. RunTypes /\ used \in Used
  BY DEF TypeInv, RunTypes
<1>2. /\ Active(p) /\ SetRun(p, NoRun) /\ Use("aborts")
      /\ lock' = IF lock = p THEN NoProcess ELSE lock
      /\ UNCHANGED <<edits, templates, lastRun, cache, time, readVars, budget>>
  BY DEF AbortRun, Active
<1>3. /\ runs' \in [Processes -> Run] /\ runs'[p] = NoRun
      /\ \A q \in Processes : q # p => runs'[q] = runs[q]
  BY <1>2, NoRunType, RunChanges
<1>4. used' \in Used /\ used'.aborts # 0
  BY <1>1, <1>2, UseAborts
<1>5. RunTypes'
  BY <1>1, <1>2, <1>3, <1>4 DEF RunTypes, readVars, Latest
<1> QED
  BY <1>2, <1>3, <1>4, <1>5 DEF RunFrame

\* The process starts again, with an empty cache or that of the template on disk.
LEMMA RestartStep ==
    ASSUME TypeInv, NEW p \in Processes, Restart(p)
    PROVE  /\ RunFrame(p)
           /\ lock' = IF lock = p THEN NoProcess ELSE lock
           /\ UNCHANGED <<templates, lastRun, time, readVars>>
           /\ runs'[p] \in {NoRun, Syncing(Latest + 1)}
           /\ \/ DOMAIN cache'[p] = {}
              \/ /\ DOMAIN cache'[p] = {Latest} /\ cache'[p][Latest] = <<>>
                 /\ templates[Latest] = <<>>
<1>1. RunTypes /\ used \in Used /\ Latest \in Nat /\ Latest # 0 /\ Latest + 1 \in Nat
  BY GetLatestType DEF TypeInv, RunTypes
<1>2. /\ Use("restarts")
      /\ lock' = IF lock = p THEN NoProcess ELSE lock
      /\ UNCHANGED <<edits, templates, lastRun, time, readVars, budget>>
  BY DEF Restart
<1>3. used' \in Used /\ used'.aborts = used.aborts
  BY <1>1, <1>2, UseOther
<1> DEFINE none == [v \in {} |-> <<>>]
           disk == [v \in {Latest} |-> <<>>]
<1>4. PICK r \in {NoRun, Syncing(Latest + 1)} : SetRun(p, r)
  BY DEF Restart, Syncing
<1>5. \/ cache' = [cache EXCEPT ![p] = none]
      \/ cache' = [cache EXCEPT ![p] = disk] /\ templates[Latest] = <<>>
  BY DEF Restart
<1>6. r \in Run
  BY <1>1, NoRunType, SyncingRun
<1>7. /\ runs' \in [Processes -> Run] /\ runs'[p] = r
      /\ \A q \in Processes : q # p => runs'[q] = runs[q]
  BY <1>4, <1>6, RunChanges
<1>8. /\ none \in [{} -> Seq(Rules)] /\ {} \in SUBSET (1 .. Latest + 1)
      /\ disk \in [{Latest} -> Seq(Rules)] /\ {Latest} \in SUBSET (1 .. Latest + 1)
  BY <1>1
<1>9. DOMAIN none = {} /\ DOMAIN disk = {Latest} /\ disk[Latest] = <<>>
  OBVIOUS
<1> HIDE DEF none, disk
<1>10. /\ DOMAIN cache' = Processes
       /\ \A q \in Processes : q # p => cache'[q] = cache[q]
       /\ \A q \in Processes : /\ cache'[q] \in [DOMAIN cache'[q] -> Seq(Rules)]
                               /\ DOMAIN cache'[q] \subseteq 1 .. Latest + 1
       /\ cache'[p] = none \/ (cache'[p] = disk /\ templates[Latest] = <<>>)
  <2>1. CASE cache' = [cache EXCEPT ![p] = none]
    BY <1>8, <2>1, CacheChanges, Zenon
  <2>2. CASE cache' = [cache EXCEPT ![p] = disk] /\ templates[Latest] = <<>>
    BY <1>8, <2>2, CacheChanges, Zenon
  <2> QED
    BY <1>5, <2>1, <2>2
<1>11. Latest' = Latest
  BY <1>2 DEF Latest
<1>12. RunTypes'
  BY <1>1, <1>2, <1>3, <1>7, <1>10, <1>11 DEF RunTypes, readVars
<1>13. RunFrame(p)
  BY <1>2, <1>3, <1>7, <1>10, <1>12 DEF RunFrame
<1> QED
  BY <1>2, <1>7, <1>9, <1>10, <1>13

\* The template on disk is inserted, or another process was first.
LEMMA SyncStep ==
    ASSUME TypeInv, TimeInv, NEW p \in Processes, SyncInsert(p)
    PROVE  /\ RunFrame(p) /\ runs[p].pc = "sync" /\ ~Waits(p, runs[p].version)
           /\ runs'[p] = NoRun
           /\ UNCHANGED <<lastRun, lock, time, readVars, used>>
           /\ \/ UNCHANGED <<templates, cache>> /\ Latest' = Latest
              \/ /\ runs[p].version = Latest + 1
                 /\ templates' = Append(templates, <<>>) /\ Latest' = Latest + 1
                 /\ DOMAIN cache'[p] = DOMAIN cache[p] \cup {Latest + 1}
                 /\ cache'[p][Latest + 1] = <<>>
                 /\ \A v \in DOMAIN cache[p] : v # Latest + 1 => cache'[p][v] = cache[p][v]
<1>1. RunTypes /\ runs[p] \in Run /\ Latest \in Nat
  BY GetLatestType DEF TypeInv, RunTypes
<1>2. runs[p].version <= Latest + 1 /\ runs[p].version \in Nat
  BY <1>1 DEF TimeInv, Run
<1>3. /\ runs[p].pc = "sync" /\ ~Waits(p, runs[p].version) /\ SetRun(p, NoRun)
      /\ UNCHANGED <<edits, lastRun, lock, time, readVars, used, budget>>
  BY DEF SyncInsert
<1>4. /\ runs' \in [Processes -> Run] /\ runs'[p] = NoRun
      /\ \A q \in Processes : q # p => runs'[q] = runs[q]
  BY <1>3, NoRunType, RunChanges
<1>5. CASE runs[p].version <= Latest
  <2>1. UNCHANGED <<templates, cache>> /\ Latest' = Latest
    BY <1>5 DEF SyncInsert, Latest
  <2>2. RunTypes'
    BY <1>1, <1>3, <1>4, <2>1 DEF RunTypes, readVars
  <2> QED
    BY <1>3, <1>4, <2>1, <2>2 DEF RunFrame
<1>6. CASE ~(runs[p].version <= Latest)
  <2>1. runs[p].version = Latest + 1 /\ Latest + 1 \in Nat
    BY <1>1, <1>2, <1>6
  <2>2. templates' = Append(templates, <<>>) /\ cache' = Cached(p, Latest + 1, <<>>)
    BY <1>6, <2>1 DEF SyncInsert
  <2>3. templates' \in Seq(Seq(Rules)) /\ Latest' = Latest + 1 /\ Len(templates') > 0
    <3>1. templates \in Seq(Seq(Rules)) /\ <<>> \in Seq(Rules)
      BY <1>1 DEF RunTypes
    <3> QED
      BY <1>1, <2>2, <3>1 DEF Latest
  <2>4. <<>> \in Seq(Rules)
    OBVIOUS
  <2>5. /\ DOMAIN cache' = Processes
        /\ \A q \in Processes : q # p => cache'[q] = cache[q]
        /\ DOMAIN cache'[p] = DOMAIN cache[p] \cup {Latest + 1}
        /\ cache'[p] \in [DOMAIN cache'[p] -> Seq(Rules)]
        /\ cache'[p][Latest + 1] = <<>>
        /\ \A i \in DOMAIN cache[p] : i # Latest + 1 => cache'[p][i] = cache[p][i]
    <3> DEFINE v == Latest + 1
               none == <<>>
    <3>1. RunTypes /\ v \in Nat /\ none \in Seq(Rules) /\ cache' = Cached(p, v, none)
      BY <1>1, <2>1, <2>2, <2>4
    <3> HIDE DEF v, none
    <3>2. /\ DOMAIN cache' = Processes
          /\ \A q \in Processes : q # p => cache'[q] = cache[q]
          /\ DOMAIN cache'[p] = DOMAIN cache[p] \cup {v}
          /\ cache'[p] \in [DOMAIN cache'[p] -> Seq(Rules)]
          /\ cache'[p][v] = none
          /\ \A i \in DOMAIN cache[p] : i # v => cache'[p][i] = cache[p][i]
      BY <3>1, CachedType
    <3> QED
      BY <3>2 DEF v, none
  <2>6. \A q \in Processes : /\ cache'[q] \in [DOMAIN cache'[q] -> Seq(Rules)]
                             /\ DOMAIN cache'[q] \subseteq 1 .. Latest' + 1
    <3>1. \A q \in Processes : /\ cache[q] \in [DOMAIN cache[q] -> Seq(Rules)]
                               /\ DOMAIN cache[q] \subseteq 1 .. Latest + 1
      BY <1>1 DEF RunTypes
    <3>2. 1 .. Latest + 1 \subseteq 1 .. Latest' + 1 /\ Latest + 1 \in 1 .. Latest' + 1
      BY <1>1, <2>3
    <3>3. \A q \in Processes : DOMAIN cache'[q] \subseteq 1 .. Latest' + 1
      BY <2>5, <3>1, <3>2, Zenon
    <3>4. \A q \in Processes : cache'[q] \in [DOMAIN cache'[q] -> Seq(Rules)]
      BY <2>5, <3>1, Zenon
    <3> QED
      BY <3>3, <3>4
  <2>7. RunTypes'
    BY <1>1, <1>3, <1>4, <2>3, <2>5, <2>6 DEF RunTypes, readVars
  <2>8. RunFrame(p)
    BY <1>3, <1>4, <2>5, <2>7 DEF RunFrame
  <2> QED
    BY <1>3, <1>4, <2>1, <2>2, <2>3, <2>5, <2>8
<1> QED
  BY <1>5, <1>6

-----------------------------------------------------------------------------
(* The invariant and the edits *)

\* What may happen to an edit: it is saved, or committed, which may be late, or deleted.
EditChanges(e) ==
    /\ \A i \in Edits : i # e => edits'[i] = edits[i]
    /\ \/ /\ edits'[e].status = "open" /\ edits'[e].at = time + 1 /\ time' = time + 1
          /\ edits'[e].version <= Latest
       \/ /\ edits[e].status = "open" /\ edits'[e].status = "stored"
          /\ edits'[e].at = edits[e].at /\ edits'[e].version = edits[e].version
          /\ edits'[e].late = RunBegunAfter(edits[e].at)
       \/ /\ edits[e].status = "stored" /\ edits'[e].status = "deleted"
          /\ edits'[e].at = edits[e].at /\ edits'[e].version = edits[e].version

\* Every step of edits, index jobs and workers does this to one edit, or nothing.
LEMMA IndexEdits ==
    ASSUME TypeInv, IndexNext
    PROVE  edits' = edits \/ \E e \in Edits : EditChanges(e)
<1>1. edits \in [Edits -> EditRow] /\ time \in Nat /\ Latest \in Nat
  BY GetLatestType DEF TypeInv, IndexTypes, RunTypes, Latest
<1>2. ASSUME NEW e \in Edits, SaveBegins(e) PROVE EditChanges(e)
  <2>1. PICK v \in 1 .. Latest, f \in Fields :
            edits' = [edits EXCEPT ![e] = NewEdit(time', v, f)]
    BY <1>2, Zenon DEF SaveBegins, NewEdit
  <2>2. time' = time + 1 /\ time' \in Nat
    BY <1>1, <1>2 DEF SaveBegins
  <2>3. v \in Nat /\ v <= Latest /\ f \in Fields
    BY <1>1
  <2>4. /\ NewEdit(time', v, f).status = "open"
        /\ NewEdit(time', v, f).at = time' /\ NewEdit(time', v, f).version = v
    BY <2>2, <2>3, NewEditType
  <2> QED
    BY <1>1, <2>1, <2>2, <2>3, <2>4 DEF EditChanges
<1>3. ASSUME NEW e \in Edits, SaveCommits(e) PROVE EditChanges(e)
  <2>1. RunBegunAfter(edits[e].at) \in BOOLEAN
    BY DEF RunBegunAfter
  <2> DEFINE b == RunBegunAfter(edits[e].at)
             r1 == [edits[e] EXCEPT !.status = "stored"]
             r == [r1 EXCEPT !.late = b]
  <2>2. edits' = [edits EXCEPT ![e] = r] /\ edits[e].status = "open"
    BY <1>1, <1>3 DEF SaveCommits
  <2> HIDE DEF b
  <2>3. edits[e] \in EditRow
    BY <1>1
  <2>4. r.status = "stored" /\ r.at = edits[e].at /\ r.version = edits[e].version /\ r.late = b
    BY <2>1, <2>3 DEF EditRow
  <2> HIDE DEF r
  <2> QED
    BY <1>1, <2>2, <2>4 DEF EditChanges, b
<1>4. ASSUME NEW e \in Edits, DeleteDraft(e) PROVE EditChanges(e)
  BY <1>1, <1>4 DEF DeleteDraft, EditChanges, EditRow
<1>5. ASSUME NEW e \in Edits, Reconcile(e) PROVE edits' = edits
  BY <1>5 DEF Reconcile
<1>6. ASSUME NEW w \in Workers, Crash(w) \/ \E j \in JobIds : Claim(w, j) PROVE edits' = edits
  BY <1>6 DEF Crash, Claim
<1>7. ASSUME NEW t \in tasks, TaskStep(t) PROVE edits' = edits
  BY <1>7 DEF TaskStep, ReadEdit, Index, EmbedderFails, Outcome
<1>8. ASSUME NEW j \in JobIds, Reclaim(j) PROVE edits' = edits
  BY <1>8 DEF Reclaim
<1> QED
  BY <1>2, <1>3, <1>4, <1>5, <1>6, <1>7, <1>8 DEF IndexNext

\* These steps keep the invariant: a run that has begun after an edit makes it late.
LEMMA IndexStepInv ==
    ASSUME IInv, IndexNext
    PROVE  IInv'
<1>1. TypeInv /\ TimeInv /\ LockInv /\ ReadInv /\ OnceInv /\ VersionInv /\ CacheInv
  BY DEF IInv
<1>2. IndexTypes' /\ UNCHANGED <<runVars, budget>>
      /\ time' \in {time, time + 1} /\ used' \in Used /\ (used'.aborts = 0 => used.aborts = 0)
  BY <1>1, IndexStepTypes DEF IndexFrame
<1>3. UNCHANGED <<templates, lastRun, lock, runs, cache, readVars>>
  BY <1>2 DEF runVars
<1>4. time \in Nat /\ time' \in Nat /\ time <= time' /\ lastRun \in Nat
      /\ Latest \in Nat /\ Latest' = Latest /\ Floor' = Floor
  BY <1>1, <1>2, <1>3, GetLatestType DEF TypeInv, RunTypes, Latest, Floor
<1>5. edits \in [Edits -> EditRow] /\ edits' \in [Edits -> EditRow] /\ runs \in [Processes -> Run]
  BY <1>1, <1>2 DEF TypeInv, IndexTypes, RunTypes
<1>6. TypeInv'
  BY <1>1, <1>2, <1>3, <1>4 DEF TypeInv, RunTypes, readVars
<1>7. /\ \A p \in Processes : Active(p)' = Active(p) /\ Locking(p)' = Locking(p)
      /\ \A p \in Processes : Inserted(p)' = Inserted(p)
  BY <1>3 DEF Active, Locking, Inserted
<1>8. LockInv' /\ OnceInv' /\ VersionInv'
  <2>1. LockInv'
    BY <1>1, <1>3, <1>7 DEF LockInv
  <2>2. OnceInv'
    BY <1>1, <1>3, <1>4 DEF OnceInv, RulesOnce
  <2>3. VersionInv'
    BY <1>1, <1>3, <1>4, <1>7 DEF VersionInv
  <2> QED
    BY <2>1, <2>2, <2>3
<1>9. CacheInv'
  BY <1>1, <1>2, <1>3, <1>4, <1>7 DEF CacheInv
<1>10. \A e \in Edits : edits[e].at \in Nat /\ edits[e].version \in Nat /\ edits'[e].at \in Nat
  BY <1>5 DEF EditRow
<1>11. \A p \in Processes : runs[p].started \in Nat
  BY <1>5 DEF Run
<1>12. TimeInv'
  <2>1. CASE edits' = edits
    BY <1>1, <1>3, <1>4, <1>7, <1>10, <1>11, <2>1 DEF TimeInv, readVars
  <2>2. ASSUME NEW e \in Edits, EditChanges(e) PROVE TimeInv'
    <3>1. \A i \in Edits : edits'[i].at <= time' /\ edits'[i].version <= Latest
      BY <1>1, <1>4, <1>10, <2>2 DEF TimeInv, EditChanges
    <3>2. ASSUME NEW i \in Edits, edits'[i].status # "absent"
          PROVE  /\ edits'[i].at > 0 /\ edits'[i].at # lastRun
                 /\ \A p \in Processes : Active(p) => edits'[i].at # runs[p].started
      <4>1. CASE edits'[i].at = time + 1
        BY <1>1, <1>4, <1>11, <4>1 DEF TimeInv
      <4>2. CASE edits[i].status # "absent" /\ edits'[i].at = edits[i].at
        BY <1>1, <4>2 DEF TimeInv
      <4> QED
        BY <2>2, <3>2, <4>1, <4>2 DEF EditChanges
    <3>3. \A p \in Processes : runs[p].started <= time' /\ runs[p].version <= Latest + 1
      BY <1>1, <1>4, <1>11 DEF TimeInv
    <3>4. lastRun <= time' /\ horizon <= lastRun
      BY <1>1, <1>4 DEF TimeInv
    <3> QED
      BY <1>3, <1>4, <1>7, <3>1, <3>2, <3>3, <3>4 DEF TimeInv, readVars
  <2> QED
    BY <1>1, <2>1, <2>2, IndexEdits
<1>13. ReadInv'
  <2>1. CASE edits' = edits
    BY <1>1, <1>3, <1>4, <1>7, <2>1 DEF ReadInv, NothingSkipped, IsRead, AskedFrom, Stored, readVars
  <2>2. ASSUME NEW e \in Edits, EditChanges(e) PROVE ReadInv'
    <3>1. ASSUME NEW i \in Edits, edits'[i].status = "stored", ~edits'[i].late
          PROVE  \/ /\ i \in Stored /\ ~edits[i].late /\ edits'[i].at = edits[i].at
                    /\ edits'[i].version = edits[i].version
                 \/ /\ edits'[i].at > lastRun
                    /\ \A p \in Processes : Active(p) => edits'[i].at > runs[p].started
      <4>1. CASE i # e
        BY <2>2, <3>1, <4>1 DEF EditChanges, Stored
      <4>2. CASE i = e
        <5>1. /\ edits[i].status = "open" /\ edits'[i].at = edits[i].at
              /\ ~RunBegunAfter(edits[i].at)
          BY <2>2, <3>1, <4>2 DEF EditChanges
        <5>2. ~(lastRun > edits[i].at) /\ edits[i].at # lastRun
          BY <1>1, <5>1 DEF RunBegunAfter, TimeInv
        <5>3. \A p \in Processes : Active(p) =>
                  ~(runs[p].started > edits[i].at) /\ edits[i].at # runs[p].started
          BY <1>1, <5>1 DEF RunBegunAfter, TimeInv, Active
        <5> QED
          BY <1>4, <1>10, <1>11, <5>1, <5>2, <5>3
      <4> QED
        BY <4>1, <4>2
    <3>2. NothingSkipped'
      <4> SUFFICES ASSUME NEW i \in Edits, edits'[i].status = "stored", ~edits'[i].late,
                          horizon < edits'[i].at, edits'[i].at <= lastRun
                   PROVE  i \in seen \/ edits'[i].version < Floor
        BY <1>3, <1>4 DEF NothingSkipped, IsRead, Stored, readVars
      <4>1. /\ i \in Stored /\ ~edits[i].late /\ edits'[i].at = edits[i].at
            /\ edits'[i].version = edits[i].version
        BY <1>4, <1>10, <3>1
      <4> QED
        BY <1>1, <4>1 DEF ReadInv, NothingSkipped, IsRead
    <3>3. ASSUME NEW p \in Processes, Active(p), runs[p].pc # "query", NEW i \in Edits,
                 edits'[i].status = "stored", ~edits'[i].late, edits'[i].at > AskedFrom(p),
                 edits'[i].at <= runs[p].started
          PROVE  i \in seen \cup runs[p].read \/ edits'[i].version < Floor
      <4>1. /\ i \in Stored /\ ~edits[i].late /\ edits'[i].at = edits[i].at
            /\ edits'[i].version = edits[i].version
        BY <1>10, <1>11, <3>1, <3>3
      <4> QED
        BY <1>1, <3>3, <4>1 DEF ReadInv
    <3> QED
      BY <1>3, <1>4, <1>7, <3>2, <3>3 DEF ReadInv, AskedFrom, Stored, readVars
  <2> QED
    BY <1>1, <2>1, <2>2, IndexEdits
<1> QED
  BY <1>6, <1>8, <1>9, <1>12, <1>13 DEF IInv

-----------------------------------------------------------------------------
(* The invariant and the runs *)

RunNext(p) ==
    \/ Acquire(p) \/ Query(p) \/ Analyse(p) \/ Analysed(p) \/ AppendRules(p)
    \/ InsertVersion(p) \/ UpsertState(p) \/ Commit(p) \/ AbortRun(p) \/ Restart(p)
    \/ SyncInsert(p)

\* The four steps of a run that only look and compute.
LookingNext(p) == Query(p) \/ Analyse(p) \/ Analysed(p) \/ AppendRules(p)

\* They change this run only, and its timestamps stay.
LEMMA LookingStep ==
    ASSUME TypeInv, NEW p \in Processes, LookingNext(p)
    PROVE  LocalStep(p)
BY QueryStep, AnalyseStep, AnalysedStep, AppendRulesStep DEF LookingNext

\* Types that the steps of a run start from.
LEMMA RunFacts ==
    ASSUME TypeInv
    PROVE  /\ time \in Nat /\ lastRun \in Nat /\ Latest \in Nat /\ Latest # 0
           /\ edits \in [Edits -> EditRow]
           /\ \A e \in Edits : edits[e].at \in Nat /\ edits[e].version \in Nat
           /\ \A q \in Processes : /\ runs[q] \in Run /\ runs[q].pc \in RunPcs
                                   /\ runs[q].started \in Nat /\ runs[q].since \in Nat
                                   /\ runs[q].version \in Nat
                                   /\ runs[q].rules \in Seq(Rules) /\ runs[q].row \in Seq(Rules)
           /\ lock \in Processes \cup {NoProcess} /\ NoProcess \notin Processes
<1>1. RunTypes /\ runs \in [Processes -> Run] /\ edits \in [Edits -> EditRow]
  BY DEF TypeInv, RunTypes, IndexTypes
<1>2. Latest \in Nat /\ Latest # 0
  BY <1>1 DEF RunTypes, Latest
<1>3. \A e \in Edits : edits[e].at \in Nat /\ edits[e].version \in Nat
  BY <1>1 DEF EditRow
<1>4. ASSUME NEW q \in Processes
      PROVE  /\ runs[q] \in Run /\ runs[q].pc \in RunPcs
             /\ runs[q].started \in Nat /\ runs[q].since \in Nat
             /\ runs[q].version \in Nat
             /\ runs[q].rules \in Seq(Rules) /\ runs[q].row \in Seq(Rules)
  BY <1>1 DEF Run
<1> QED
  BY <1>1, <1>2, <1>3, <1>4, ProcessesAssumption DEF RunTypes

\* A moved run but for its place.
LEMMA MovedFacts ==
    ASSUME TypeInv, NEW p \in Processes, NEW pc \in {"upsert", "commit"},
           runs'[p] = Moved(runs[p], pc)
    PROVE  /\ runs'[p].pc = pc /\ SameReading(runs'[p], runs[p])
           /\ runs'[p].rules = runs[p].rules /\ runs'[p].version = runs[p].version
           /\ runs'[p].row = runs[p].row
<1>1. runs[p] \in Run /\ pc \in RunPcs
  BY RunFacts DEF RunPcs
<1> QED
  BY <1>1, MovedRun

\* What the steps of a run do to its timestamps, the lock and the state.
TimesChange(p) ==
    /\ UNCHANGED edits
    /\ \A q \in Processes : q # p => runs'[q] = runs[q]
    /\ \/ /\ Locking(p) /\ Locking(p)'
          /\ runs'[p].started = runs[p].started /\ runs'[p].since = runs[p].since
          /\ UNCHANGED <<lastRun, horizon, lock, time>>
       \/ /\ runs[p].pc = "idle" /\ lock = NoProcess /\ lock' = p /\ time' = time + 1
          /\ runs'[p].pc = "query" /\ runs'[p].started = time + 1
          /\ runs'[p].since \in (IF lastRun = 0 THEN Lookback ELSE {lastRun})
          /\ UNCHANGED <<lastRun, horizon>>
       \/ /\ runs[p].pc = "upsert" /\ \A q \in Processes \ {p} : runs[q].pc # "commit"
          /\ runs'[p].pc = "commit" /\ lock' = NoProcess
          /\ runs'[p].started = runs[p].started /\ runs'[p].since = runs[p].since
          /\ UNCHANGED <<lastRun, horizon, time>>
       \/ /\ runs[p].pc = "commit" /\ runs'[p].pc = "idle" /\ runs'[p].started = 0
          /\ lastRun' = runs[p].started
          /\ horizon' = AskedFrom(p)
          /\ UNCHANGED <<lock, time>>
       \/ /\ runs'[p].pc \in {"idle", "sync"} /\ runs'[p].started = 0
          /\ lock' = (IF lock = p THEN NoProcess ELSE lock)
          /\ UNCHANGED <<lastRun, horizon, time>>
    /\ Latest' \in Nat /\ Latest <= Latest'
    /\ runs'[p].version <= Latest' + 1

\* Every step of a run does one of these.
LEMMA RunTimes ==
    ASSUME TypeInv, TimeInv, LockInv, NEW p \in Processes, RunNext(p)
    PROVE  TimesChange(p) /\ RunTypes'
<1>1. /\ time \in Nat /\ lastRun \in Nat /\ Latest \in Nat /\ Latest # 0
      /\ \A q \in Processes : runs[q].pc \in RunPcs
      /\ NoProcess \notin Processes
  BY RunFacts
<1>2. runs[p].version <= Latest + 1 /\ (lock = p) = Locking(p)
  BY DEF TimeInv, LockInv
<1>3. templates' = templates => Latest' = Latest
  BY DEF Latest
<1>4. CASE Acquire(p)
  BY <1>1, <1>3, <1>4, AcquireStep DEF TimesChange, RunFrame, readVars
<1>5. CASE LookingNext(p)
  <2>1. LocalStep(p)
    BY <1>5, LookingStep
  <2>2. runs'[p].version \in {0, runs[p].version, Latest + 1}
    BY <1>5, QueryStep, AnalyseStep, AnalysedStep, AppendRulesStep DEF LookingNext
  <2>3. Locking(p)'
    BY <2>1 DEF LocalStep, Locking
  <2> QED
    BY <1>1, <1>2, <1>3, <2>1, <2>2, <2>3 DEF TimesChange, LocalStep, RunFrame, readVars
<1>6. CASE InsertVersion(p)
  <2>1. /\ RunFrame(p) /\ runs[p].pc = "insert" /\ UNCHANGED <<templates, lastRun, horizon, time>>
        /\ \/ runs'[p] = NoRun /\ lock' = NoProcess
           \/ lock' = lock /\ runs'[p] = Moved(runs[p], "upsert")
    BY <1>6, InsertStep DEF readVars
  <2>2. CASE runs'[p] = NoRun /\ lock' = NoProcess
    <3>1. lock = p
      BY <1>2, <2>1 DEF Locking, RunPcs
    <3> QED
      BY <1>1, <1>3, <2>1, <2>2, <3>1, NoRunType DEF TimesChange, RunFrame
  <2>3. CASE lock' = lock /\ runs'[p] = Moved(runs[p], "upsert")
    <3>1. /\ runs'[p].pc = "upsert" /\ SameReading(runs'[p], runs[p])
          /\ runs'[p].version = runs[p].version
      BY <2>3, MovedFacts
    <3>2. Locking(p) /\ Locking(p)'
      BY <2>1, <3>1 DEF Locking, RunPcs
    <3> QED
      BY <1>1, <1>2, <1>3, <2>1, <2>3, <3>1, <3>2 DEF TimesChange, RunFrame, SameReading
  <2> QED
    BY <2>1, <2>2, <2>3
<1>7. CASE UpsertState(p)
  <2>1. /\ RunFrame(p) /\ runs[p].pc = "upsert"
        /\ \A q \in Processes \ {p} : runs[q].pc # "commit"
        /\ runs'[p] = Moved(runs[p], "commit") /\ lock' = NoProcess
        /\ UNCHANGED <<templates, lastRun, horizon, time>>
    BY <1>7, UpsertStep DEF readVars
  <2>2. /\ runs'[p].pc = "commit" /\ SameReading(runs'[p], runs[p])
        /\ runs'[p].version = runs[p].version
    BY <2>1, MovedFacts
  <2> QED
    BY <1>1, <1>2, <1>3, <2>1, <2>2 DEF TimesChange, RunFrame, SameReading
<1>8. CASE Commit(p)
  <2>1. /\ RunFrame(p) /\ runs[p].pc = "commit" /\ runs'[p] = NoRun
        /\ lastRun' = runs[p].started /\ UNCHANGED <<lock, time>>
        /\ horizon' = AskedFrom(p)
        /\ Latest' \in {Latest, Latest + 1}
    BY <1>8, CommitStep
  <2>2. /\ runs'[p].pc = "idle" /\ runs'[p].started = 0 /\ runs'[p].version = 0
        /\ Latest' \in Nat /\ Latest <= Latest' /\ 0 <= Latest' + 1
    BY <1>1, <2>1, NoRunType
  <2>3. RunTypes' /\ UNCHANGED edits /\ \A q \in Processes : q # p => runs'[q] = runs[q]
    BY <2>1 DEF RunFrame
  <2> QED
    BY <2>1, <2>2, <2>3 DEF TimesChange
<1>9. CASE AbortRun(p)
  <2>1. /\ RunFrame(p) /\ runs'[p] = NoRun /\ lock' = IF lock = p THEN NoProcess ELSE lock
        /\ UNCHANGED <<templates, lastRun, horizon, time>>
    BY <1>9, AbortStep DEF readVars
  <2> QED
    BY <1>1, <1>3, <2>1, NoRunType DEF TimesChange, RunFrame
<1>10. CASE Restart(p)
  <2>1. /\ RunFrame(p) /\ runs'[p] \in {NoRun, Syncing(Latest + 1)}
        /\ lock' = IF lock = p THEN NoProcess ELSE lock
        /\ UNCHANGED <<templates, lastRun, horizon, time>>
    BY <1>10, RestartStep DEF readVars
  <2>2. /\ Syncing(Latest + 1).pc = "sync" /\ Syncing(Latest + 1).started = 0
        /\ Syncing(Latest + 1).version = Latest + 1
    BY <1>1, SyncingRun
  <2> QED
    BY <1>1, <1>3, <2>1, <2>2, NoRunType DEF TimesChange, RunFrame
<1>11. CASE SyncInsert(p)
  <2>1. /\ RunFrame(p) /\ runs[p].pc = "sync" /\ runs'[p] = NoRun
        /\ UNCHANGED <<lastRun, horizon, lock, time>> /\ (Latest' = Latest \/ Latest' = Latest + 1)
    BY <1>11, SyncStep DEF readVars
  <2>2. lock # p
    BY <1>2, <2>1 DEF Locking
  <2>3. Latest' \in Nat /\ Latest <= Latest' /\ 0 <= Latest' + 1
    BY <1>1, <2>1
  <2>4. runs'[p].pc = "idle" /\ runs'[p].started = 0 /\ runs'[p].version = 0
    BY <2>1, NoRunType
  <2> QED
    BY <2>1, <2>2, <2>3, <2>4 DEF TimesChange, RunFrame
<1> QED
  BY <1>4, <1>5, <1>6, <1>7, <1>8, <1>9, <1>10, <1>11 DEF RunNext, LookingNext, TimesChange,
     RunFrame

\* The timestamps and the lock after a step of a run.
LEMMA RunStepTimes ==
    ASSUME TypeInv, TimeInv, LockInv, NEW p \in Processes, RunNext(p)
    PROVE  TimeInv' /\ LockInv'
<1>1. /\ time \in Nat /\ lastRun \in Nat /\ Latest \in Nat /\ horizon \in Nat
      /\ \A e \in Edits : edits[e].at \in Nat /\ edits[e].version \in Nat
      /\ \A q \in Processes : /\ runs[q].pc \in RunPcs
                              /\ runs[q].started \in Nat /\ runs[q].since \in Nat
                              /\ runs[q].version \in Nat
      /\ NoProcess \notin Processes
  BY RunFacts DEF TypeInv, RunTypes
<1>2. TimesChange(p) /\ RunTypes'
  BY RunTimes
<1>3. runs'[p].pc \in RunPcs /\ runs'[p].started \in Nat /\ runs'[p].since \in Nat
  BY <1>2 DEF RunTypes, Run
<1>4. \A q \in Processes : q # p => /\ runs'[q] = runs[q]
                                    /\ Active(q)' = Active(q) /\ Locking(q)' = Locking(q)
  BY <1>2 DEF TimesChange, Active, Locking
<1>5. \A q \in Processes : Locking(q) => Active(q) /\ runs[q].pc # "commit"
  BY DEF Locking, Active
<1>6. \A q \in Processes : Active(q) => Locking(q) \/ runs[q].pc = "commit"
  BY DEF Locking, Active, RunPcs
<1>7. TimeInv'
  <2>1. edits' = edits /\ time' \in Nat /\ time <= time' /\ Latest' \in Nat /\ Latest <= Latest'
        /\ lastRun' \in {lastRun, runs[p].started}
    BY <1>1, <1>2 DEF TimesChange
  <2>2. \A e \in Edits : edits'[e].at <= time' /\ edits'[e].version <= Latest'
    BY <1>1, <2>1 DEF TimeInv
  <2>3. lastRun' <= time' /\ horizon' <= lastRun'
    <3>1. CASE lastRun' = lastRun /\ horizon' = horizon
      BY <1>1, <2>1, <3>1 DEF TimeInv
    <3>2. CASE /\ runs[p].pc = "commit" /\ lastRun' = runs[p].started
               /\ horizon' = AskedFrom(p)
      <4>1. Active(p)
        BY <3>2 DEF Active, RunPcs
      <4>2. lastRun < runs[p].started /\ runs[p].since < runs[p].started
        BY <4>1 DEF LockInv
      <4> QED
        BY <1>1, <2>1, <3>2, <4>2 DEF TimeInv, AskedFrom
    <3> QED
      BY <1>2, <3>1, <3>2 DEF TimesChange
  <2>4. runs'[p].started <= time' /\ runs'[p].version <= Latest' + 1
    BY <1>1, <1>2, <2>1 DEF TimesChange, TimeInv
  <2>5. \A q \in Processes : runs'[q].started <= time' /\ runs'[q].version <= Latest' + 1
    BY <1>1, <1>4, <2>1, <2>4 DEF TimeInv
  <2>6. ASSUME NEW e \in Edits, edits[e].status # "absent"
        PROVE  edits[e].at > 0 /\ edits[e].at # lastRun'
    <3>1. CASE lastRun' = lastRun
      BY <2>6, <3>1 DEF TimeInv
    <3>2. CASE runs[p].pc = "commit" /\ lastRun' = runs[p].started
      BY <2>6, <3>2 DEF TimeInv, Active, RunPcs
    <3> QED
      BY <1>2, <3>1, <3>2 DEF TimesChange
  <2>7. ASSUME NEW e \in Edits, edits[e].status # "absent", Active(p)'
        PROVE  edits[e].at # runs'[p].started
    <3>1. CASE Active(p) /\ runs'[p].started = runs[p].started
      BY <2>7, <3>1 DEF TimeInv
    <3>2. CASE runs'[p].started = time + 1
      BY <1>1, <3>2 DEF TimeInv
    <3>3. Active(p) \/ runs[p].pc \in {"idle", "sync"}
      BY <1>1 DEF Active
    <3> QED
      BY <1>2, <1>5, <2>7, <3>1, <3>2 DEF TimesChange, Active, RunPcs
  <2> QED
    BY <1>4, <2>1, <2>2, <2>3, <2>5, <2>6, <2>7 DEF TimeInv
<1>8. ASSUME NEW q \in Processes PROVE (lock' = q) = Locking(q)'
  <2>1. \A r \in Processes : (lock = r) = Locking(r)
    BY DEF LockInv
  <2> QED
    BY <1>1, <1>2, <1>3, <1>4, <2>1 DEF TimesChange, Locking, RunPcs
<1>9. ASSUME NEW q \in Processes, Active(q)'
      PROVE  lastRun' < runs'[q].started /\ (lastRun' # 0 => runs'[q].since <= lastRun')
  <2>1. \A r \in Processes : Active(r) => /\ lastRun < runs[r].started
                                          /\ lastRun # 0 => runs[r].since <= lastRun
    BY DEF LockInv
  <2>2. CASE lastRun' = lastRun /\ q # p
    BY <1>4, <1>9, <2>1, <2>2
  <2>3. CASE lastRun' = lastRun /\ q = p
    <3>1. CASE Active(p) /\ runs'[p].started = runs[p].started /\ runs'[p].since = runs[p].since
      BY <2>1, <2>3, <3>1
    <3>2. CASE /\ runs'[p].started = time + 1
               /\ runs'[p].since \in (IF lastRun = 0 THEN Lookback ELSE {lastRun})
      BY <1>1, <2>3, <3>2 DEF TimeInv
    <3> QED
      BY <1>2, <1>5, <1>9, <2>3, <3>1, <3>2 DEF TimesChange, Active, RunPcs
  <2>4. CASE /\ runs[p].pc = "commit" /\ runs'[p].pc = "idle"
             /\ lastRun' = runs[p].started
    <3>1. q # p /\ Active(q) /\ Active(p) /\ runs'[q] = runs[q]
      BY <1>4, <1>9, <2>4 DEF Active, RunPcs
    <3>2. runs[p].started < runs[q].started
      BY <2>4, <3>1 DEF LockInv
    <3>3. runs[q].since < runs[p].started /\ lastRun < runs[p].started
      BY <2>1, <3>1 DEF LockInv
    <3> QED
      BY <1>1, <2>4, <3>1, <3>2, <3>3
  <2> QED
    BY <1>2, <2>2, <2>3, <2>4 DEF TimesChange
<1>10. ASSUME NEW q \in Processes, NEW r \in Processes, q # r, runs'[q].pc = "commit", Active(r)'
       PROVE  runs'[r].pc # "commit" /\ runs'[q].started < runs'[r].started
  <2>1. \A a, b \in Processes : a # b /\ runs[a].pc = "commit" /\ Active(b) =>
            runs[b].pc # "commit" /\ runs[a].started < runs[b].started
    BY DEF LockInv
  <2>2. CASE q # p /\ r # p
    BY <1>4, <1>10, <2>1, <2>2
  <2>3. CASE r = p
    <3>1. q # p /\ runs[q].pc = "commit" /\ runs'[q] = runs[q] /\ Active(q)
      BY <1>4, <1>10, <2>3 DEF Active, RunPcs
    <3>2. CASE Locking(p) /\ Locking(p)' /\ runs'[p].started = runs[p].started
      <4>1. runs'[p].pc # "commit"
        BY <3>2 DEF Locking
      <4> QED
        BY <1>5, <2>1, <2>3, <3>1, <3>2, <4>1
    <3>3. CASE runs'[p].pc = "query" /\ runs'[p].started = time + 1
      BY <1>1, <2>3, <3>1, <3>3 DEF TimeInv
    <3> QED
      BY <1>2, <1>10, <2>3, <3>1, <3>2, <3>3 DEF TimesChange, Active, RunPcs
  <2>4. CASE q = p
    <3>1. r # p /\ Active(r) /\ runs'[r] = runs[r]
      BY <1>4, <1>10, <2>4
    <3>2. /\ runs[p].pc = "upsert" /\ \A s \in Processes \ {p} : runs[s].pc # "commit"
      BY <1>2, <1>10, <2>4 DEF TimesChange, Locking
    <3>3. Locking(p) /\ Locking(r)
      BY <1>6, <3>1, <3>2 DEF Locking, RunPcs
    <3>4. lock = p /\ lock = r
      BY <3>3 DEF LockInv
    <3> QED
      BY <3>1, <3>4
  <2> QED
    BY <1>10, <2>2, <2>3, <2>4
<1>11. ASSUME NEW q \in Processes, NEW r \in Processes, Active(q)', Active(r)'
       PROVE  runs'[q].since < runs'[r].started
  <2>1. \A a, b \in Processes : Active(a) /\ Active(b) => runs[a].since < runs[b].started
    BY DEF LockInv
  <2>2. CASE \A s \in {q, r} : /\ Active(s) /\ runs'[s].started = runs[s].started
                               /\ runs'[s].since = runs[s].since
    BY <2>1, <2>2
  <2>3. CASE /\ runs[p].pc = "idle" /\ runs'[p].started = time + 1
             /\ runs'[p].since \in (IF lastRun = 0 THEN Lookback ELSE {lastRun})
    <3>1. runs'[p].since <= time
      <4>1. \A t \in Lookback : t <= time
        BY <1>1 DEF Lookback, TimeInv
      <4> QED
        BY <1>1, <2>3, <4>1 DEF TimeInv
    <3>2. CASE q = p /\ r = p
      BY <1>1, <1>3, <2>3, <3>1, <3>2
    <3>3. CASE q # p /\ r = p
      <4>1. runs'[q] = runs[q] /\ Active(q)
        BY <1>4, <1>11, <3>3
      <4>2. runs[q].since < runs[q].started /\ runs[q].started <= time
        BY <2>1, <4>1 DEF TimeInv
      <4> QED
        BY <1>1, <2>3, <3>3, <4>1, <4>2
    <3>4. CASE q = p /\ r # p
      <4>1. runs'[r] = runs[r] /\ Active(r)
        BY <1>4, <1>11, <3>4
      <4>2. CASE lastRun = 0
        BY <2>3, <3>4, <4>1, <4>2 DEF Lookback, Active
      <4>3. CASE lastRun # 0
        BY <2>3, <3>4, <4>1, <4>3 DEF LockInv
      <4> QED
        BY <4>2, <4>3
    <3>5. CASE q # p /\ r # p
      BY <1>4, <1>11, <2>1, <3>5
    <3> QED
      BY <3>2, <3>3, <3>4, <3>5
  <2>4. CASE ~Active(p)'
    BY <1>4, <1>11, <2>1, <2>4
  <2>5. CASE /\ Active(p) /\ runs'[p].started = runs[p].started
             /\ runs'[p].since = runs[p].since
    BY <1>4, <1>11, <2>2, <2>5
  <2> QED
    BY <1>2, <1>5, <2>3, <2>4, <2>5 DEF TimesChange, Active, RunPcs
<1> QED
  BY <1>7, <1>8, <1>9, <1>10, <1>11 DEF LockInv

\* The oldest version whose edits are read only grows.
LEMMA FloorGrows ==
    ASSUME Latest \in Nat, Latest' \in Nat, Latest <= Latest'
    PROVE  Floor \in Int /\ Floor' \in Int /\ Floor <= Floor'
<1> DEFINE At(n) == IF n > VersionLookback + 1 THEN n - VersionLookback ELSE 1
<1>1. \A m, n \in Nat : m <= n => At(m) \in Int /\ At(n) \in Int /\ At(m) <= At(n)
  BY ExtractorAssumption
<1>2. Floor = At(Latest) /\ Floor' = At(Latest')
  BY DEF Floor
<1> HIDE DEF At
<1> QED
  BY <1>1, <1>2

\* What the steps of a run do to what it has read and to what was ever read.
ReadChange(p) ==
    /\ UNCHANGED edits
    /\ \A q \in Processes : q # p => runs'[q] = runs[q]
    /\ \/ /\ Active(p) /\ runs[p].pc # "query"
          /\ runs'[p].started = runs[p].started /\ runs'[p].read = runs[p].read
          /\ runs'[p].since = runs[p].since
          /\ UNCHANGED <<lastRun, readVars>>
       \/ /\ runs[p].pc = "query"
          /\ runs'[p].started = runs[p].started /\ runs'[p].read = Recent(runs[p].since)
          /\ runs'[p].since = runs[p].since
          /\ UNCHANGED <<lastRun, readVars>>
       \/ /\ runs'[p].pc \in {"idle", "sync", "query"}
          /\ UNCHANGED <<lastRun, readVars>>
       \/ /\ runs[p].pc = "commit" /\ runs'[p].pc = "idle"
          /\ lastRun' = runs[p].started /\ seen' = seen \cup runs[p].read
          /\ horizon' = AskedFrom(p)

\* Every step of a run does one of these.
LEMMA RunReads ==
    ASSUME TypeInv, TimeInv, NEW p \in Processes, RunNext(p)
    PROVE  ReadChange(p)
<1>1. CASE Acquire(p)
  BY <1>1, AcquireStep DEF ReadChange, RunFrame
<1>2. CASE Query(p)
  <2>1. LocalStep(p) /\ runs[p].pc = "query" /\ runs'[p].read = Recent(runs[p].since)
    BY <1>2, QueryStep
  <2> QED
    BY <2>1 DEF ReadChange, LocalStep, RunFrame
<1>3. CASE Analyse(p) \/ Analysed(p) \/ AppendRules(p)
  <2>1. LocalStep(p) /\ runs'[p].read = runs[p].read
        /\ runs[p].pc \in {"analyse", "append"}
    BY <1>3, AnalyseStep, AnalysedStep, AppendRulesStep
  <2> QED
    BY <2>1 DEF ReadChange, LocalStep, RunFrame, Active, RunPcs
<1>4. CASE InsertVersion(p)
  <2>1. /\ RunFrame(p) /\ runs[p].pc = "insert" /\ UNCHANGED <<lastRun, readVars>>
        /\ runs'[p] = NoRun \/ runs'[p] = Moved(runs[p], "upsert")
    BY <1>4, InsertStep
  <2>2. runs'[p] = Moved(runs[p], "upsert") => SameReading(runs'[p], runs[p])
    BY MovedFacts
  <2> QED
    BY <2>1, <2>2, NoRunType DEF ReadChange, RunFrame, Active, RunPcs, SameReading
<1>5. CASE UpsertState(p)
  <2>1. /\ RunFrame(p) /\ runs[p].pc = "upsert" /\ runs'[p] = Moved(runs[p], "commit")
        /\ UNCHANGED <<lastRun, readVars>>
    BY <1>5, UpsertStep
  <2>2. SameReading(runs'[p], runs[p])
    BY <2>1, MovedFacts
  <2> QED
    BY <2>1, <2>2 DEF ReadChange, RunFrame, Active, RunPcs, SameReading
<1>6. CASE Commit(p)
  BY <1>6, CommitStep, NoRunType DEF ReadChange, RunFrame
<1>7. CASE AbortRun(p)
  BY <1>7, AbortStep, NoRunType DEF ReadChange, RunFrame
<1>8. CASE Restart(p)
  <2>1. Syncing(Latest + 1).pc = "sync"
    <3>1. Latest + 1 \in Nat
      BY RunFacts
    <3> QED
      BY <3>1, SyncingRun
  <2> QED
    BY <1>8, <2>1, RestartStep, NoRunType DEF ReadChange, RunFrame
<1>9. CASE SyncInsert(p)
  BY <1>9, SyncStep, NoRunType DEF ReadChange, RunFrame
<1> QED
  BY <1>1, <1>2, <1>3, <1>4, <1>5, <1>6, <1>7, <1>8, <1>9 DEF RunNext

\* What was read after a step of a run.
LEMMA RunStepReads ==
    ASSUME TypeInv, TimeInv, LockInv, ReadInv, NEW p \in Processes, RunNext(p)
    PROVE  ReadInv'
<1>1. /\ lastRun \in Nat /\ Latest \in Nat /\ horizon \in Nat
      /\ \A e \in Edits : edits[e].at \in Nat /\ edits[e].version \in Nat
      /\ \A q \in Processes : /\ runs[q].pc \in RunPcs
                              /\ runs[q].started \in Nat /\ runs[q].since \in Nat
  BY RunFacts DEF TypeInv, RunTypes
<1>2. ReadChange(p)
  BY RunReads
<1>3. Latest' \in Nat /\ Latest <= Latest'
  BY RunTimes DEF TimesChange
<1>4. Floor \in Int /\ Floor' \in Int /\ Floor <= Floor'
  BY <1>1, <1>3, FloorGrows
<1>5. Stored' = Stored /\ edits' = edits /\ Stored \subseteq Edits
  BY <1>2 DEF Stored, ReadChange
<1>6. seen \subseteq seen'
  BY <1>2 DEF ReadChange, readVars
<1>7. \A e \in Stored : horizon < edits[e].at /\ edits[e].at <= lastRun /\ ~edits[e].late =>
          e \in seen \/ edits[e].version < Floor
  BY DEF ReadInv, NothingSkipped, IsRead
<1>8. \A q \in Processes : Active(q) /\ runs[q].pc # "query" =>
          \A e \in Stored : edits[e].at > AskedFrom(q) /\ edits[e].at <= runs[q].started /\ ~edits[e].late =>
              e \in seen \cup runs[q].read \/ edits[e].version < Floor
  BY DEF ReadInv
<1>9. \A e \in Edits : edits[e].version < Floor => edits[e].version < Floor'
  BY <1>1, <1>4
<1>10. NothingSkipped'
  <2> SUFFICES ASSUME NEW e \in Stored, horizon' < edits[e].at, edits[e].at <= lastRun', ~edits[e].late
               PROVE  e \in seen' \/ edits[e].version < Floor'
    BY <1>5 DEF NothingSkipped, IsRead
  <2>1. CASE lastRun' = lastRun /\ horizon' = horizon
    BY <1>5, <1>6, <1>7, <1>9, <2>1
  <2>2. CASE /\ runs[p].pc = "commit" /\ lastRun' = runs[p].started
             /\ seen' = seen \cup runs[p].read /\ horizon' = AskedFrom(p)
    <3>1. Active(p) /\ runs[p].pc # "query"
      BY <2>2 DEF Active, RunPcs
    <3>2. AskedFrom(p) \in Nat
      BY <1>1 DEF AskedFrom
    <3> QED
      BY <1>1, <1>5, <1>8, <1>9, <2>2, <3>1, <3>2
  <2> QED
    BY <1>2, <2>1, <2>2 DEF ReadChange, AskedFrom, readVars
<1>11. ASSUME NEW q \in Processes, Active(q)', runs'[q].pc # "query",
              NEW e \in Stored, edits[e].at > AskedFrom(q)', edits[e].at <= runs'[q].started, ~edits[e].late
       PROVE  e \in seen' \cup runs'[q].read \/ edits[e].version < Floor'
  <2>1. CASE /\ Active(q) /\ runs[q].pc # "query" /\ AskedFrom(q)' = AskedFrom(q)
             /\ runs'[q].started = runs[q].started /\ runs'[q].read = runs[q].read
    BY <1>5, <1>6, <1>8, <1>9, <1>11, <2>1
  <2>2. CASE /\ q = p /\ runs[p].pc = "query" /\ UNCHANGED <<lastRun, readVars>>
             /\ runs'[p].started = runs[p].started /\ runs'[p].read = Recent(runs[p].since)
             /\ runs'[p].since = runs[p].since
    <3>1. AskedFrom(q)' = AskedFrom(p) /\ seen' = seen
      BY <2>2 DEF AskedFrom, readVars
    <3>2. CASE edits[e].at <= runs[p].since
      <4>1. Active(p)
        BY <2>2 DEF Active, RunPcs
      <4>2. lastRun # 0 => runs[p].since <= lastRun
        BY <4>1 DEF LockInv
      <4>3. lastRun # 0 /\ AskedFrom(p) = horizon
        BY <1>1, <1>5, <1>11, <3>1, <3>2 DEF AskedFrom
      <4>4. horizon < edits[e].at /\ edits[e].at <= lastRun
        BY <1>1, <1>5, <1>11, <3>1, <3>2, <4>2, <4>3
      <4> QED
        BY <1>5, <1>7, <1>9, <1>11, <3>1, <4>4
    <3>3. CASE edits[e].at > runs[p].since /\ edits[e].version >= Floor
      BY <2>2, <3>3 DEF Recent
    <3>4. CASE edits[e].version < Floor
      BY <1>5, <1>9, <3>4
    <3> QED
      BY <1>1, <1>4, <1>5, <3>2, <3>3, <3>4
  <2>3. CASE q # p /\ AskedFrom(q)' = AskedFrom(q)
    <3>1. runs'[q] = runs[q] /\ Active(q)
      BY <1>2, <1>11, <2>3 DEF ReadChange, Active
    <3> QED
      BY <1>11, <2>1, <2>3, <3>1
  <2>4. CASE q # p /\ runs[p].pc = "commit" /\ lastRun' = runs[p].started /\ lastRun = 0
             /\ seen' = seen \cup runs[p].read /\ horizon' = runs[p].since
    <3>1. runs'[q] = runs[q] /\ Active(q) /\ Active(p) /\ runs[p].pc # "query"
      BY <1>2, <1>11, <2>4 DEF ReadChange, Active, RunPcs
    <3>2. runs[q].since < runs[p].started /\ lastRun < runs[p].started
      BY <3>1 DEF LockInv
    <3>3. AskedFrom(q)' = runs[p].since /\ AskedFrom(q) = runs[q].since /\ AskedFrom(p) = runs[p].since
      BY <1>1, <2>4, <3>2 DEF AskedFrom
    <3>4. CASE edits[e].at > runs[q].since
      BY <1>5, <1>6, <1>8, <1>9, <1>11, <3>1, <3>3, <3>4
    <3>5. CASE edits[e].at <= runs[q].since
      <4>1. edits[e].at <= runs[p].started /\ edits[e].at > AskedFrom(p)
        BY <1>1, <1>5, <1>11, <3>2, <3>3, <3>5
      <4> QED
        BY <1>5, <1>8, <1>9, <1>11, <2>4, <3>1, <4>1
    <3> QED
      BY <1>1, <1>5, <3>4, <3>5
  <2>5. lastRun' = 0 => lastRun = 0
    <3>1. runs[p].pc = "commit" => lastRun < runs[p].started
      BY DEF LockInv, Active, RunPcs
    <3> QED
      BY <1>1, <1>2, <3>1 DEF ReadChange
  <2>6. CASE q # p
    <3>1. runs'[q] = runs[q]
      BY <1>2, <2>6 DEF ReadChange
    <3>2. CASE UNCHANGED <<lastRun, readVars>>
      BY <2>3, <2>6, <3>1, <3>2 DEF AskedFrom, readVars
    <3>3. CASE /\ runs[p].pc = "commit" /\ lastRun' = runs[p].started
               /\ seen' = seen \cup runs[p].read
               /\ horizon' = AskedFrom(p)
      <4>1. CASE lastRun = 0
        BY <2>4, <2>6, <3>3, <4>1 DEF AskedFrom
      <4>2. CASE lastRun # 0
        BY <2>3, <2>5, <2>6, <3>3, <4>2 DEF AskedFrom
      <4> QED
        BY <4>1, <4>2
    <3> QED
      BY <1>2, <3>2, <3>3 DEF ReadChange
  <2>7. CASE q = p
    <3>1. CASE Active(p) /\ runs[p].pc # "query"
      <4>1. CASE /\ UNCHANGED <<lastRun, readVars>> /\ runs'[p].started = runs[p].started
                 /\ runs'[p].read = runs[p].read /\ runs'[p].since = runs[p].since
        BY <2>1, <2>7, <3>1, <4>1 DEF AskedFrom, readVars
      <4> QED
        BY <1>2, <1>11, <2>7, <3>1, <4>1 DEF ReadChange, Active, RunPcs
    <3> QED
      BY <1>2, <1>11, <2>2, <2>7, <3>1 DEF ReadChange, Active, RunPcs
  <2> QED
    BY <2>6, <2>7
<1> QED
  BY <1>5, <1>10, <1>11 DEF ReadInv

\* The empty list has no rule twice, nor has a list to which one that it lacks is added.
LEMMA OnceMore ==
    /\ IsInjective(<<>>)
    /\ \A s \in Seq(Rules), r \in Rules :
          IsInjective(s) /\ r \notin ToSet(s) => IsInjective(Append(s, r))
<1>1. IsInjective(<<>>)
  BY DEF IsInjective
<1>2. ASSUME NEW s \in Seq(Rules), NEW r \in Rules, IsInjective(s), r \notin ToSet(s)
      PROVE  IsInjective(Append(s, r))
  <2>1. /\ Len(s) \in Nat /\ DOMAIN s = 1 .. Len(s)
        /\ DOMAIN Append(s, r) = 1 .. Len(s) + 1
        /\ Append(s, r)[Len(s) + 1] = r
        /\ \A i \in 1 .. Len(s) : Append(s, r)[i] = s[i]
    OBVIOUS
  <2>2. \A i \in 1 .. Len(s) : s[i] # r
    BY <1>2, <2>1 DEF ToSet
  <2>3. \A i, j \in 1 .. Len(s) : s[i] = s[j] => i = j
    BY <1>2, <2>1 DEF IsInjective
  <2>4. \A i \in 1 .. Len(s) + 1 : i \in 1 .. Len(s) \/ i = Len(s) + 1
    BY <2>1
  <2>5. \A i, j \in 1 .. Len(s) + 1 : Append(s, r)[i] = Append(s, r)[j] => i = j
    BY <2>1, <2>2, <2>3, <2>4, Zenon
  <2> QED
    BY <2>1, <2>5, Zenon DEF IsInjective
<1> QED
  BY <1>1, <1>2

\* A list of rules that has none twice, whatever the registry takes for the latest.
LEMMA LatestOnce ==
    ASSUME TypeInv, OnceInv, NEW p \in Processes
    PROVE  IsInjective(GetLatest(p))
<1>1. Latest \in Nat /\ Latest # 0
  BY RunFacts
<1>2. IsInjective(templates[Latest])
  BY <1>1 DEF OnceInv, RulesOnce
<1> QED
  BY <1>2 DEF OnceInv, GetLatest

\* No rule twice after a step of a run: append_rules compares with the rules of the
\* latest version that it has read again.
LEMMA RunStepOnce ==
    ASSUME TypeInv, TimeInv, OnceInv, NEW p \in Processes, RunNext(p)
    PROVE  OnceInv'
<1>1. \A q \in Processes : /\ IsInjective(runs[q].rules) /\ IsInjective(runs[q].row)
                           /\ \A v \in DOMAIN cache[q] : IsInjective(cache[q][v])
  BY DEF OnceInv
<1>2. RunFrame(p)
  BY AcquireStep, LookingStep, InsertStep, UpsertStep, CommitStep, AbortStep, RestartStep,
     SyncStep DEF RunNext, LookingNext, LocalStep
<1>3. /\ templates \in Seq(Seq(Rules)) /\ Latest \in Nat /\ Latest = Len(templates)
      /\ runs[p].rules \in Seq(Rules) /\ runs[p].row \in Seq(Rules)
      /\ runs[p] \in Run
  BY RunFacts DEF TypeInv, RunTypes, Latest
<1>4. \/ templates' = templates
      \/ Commit(p) /\ templates' = Append(templates, runs[p].row)
      \/ SyncInsert(p) /\ templates' = Append(templates, <<>>)
  BY AcquireStep, LookingStep, InsertStep, UpsertStep, CommitStep, AbortStep, RestartStep,
     SyncStep DEF RunNext, LookingNext, LocalStep
<1>5. RulesOnce'
  <2>1. \A v \in 1 .. Len(templates) : IsInjective(templates[v])
    BY <1>3 DEF OnceInv, RulesOnce
  <2>2. ASSUME NEW row \in Seq(Rules), IsInjective(row), templates' = Append(templates, row)
        PROVE  RulesOnce'
    <3>1. /\ Len(templates') = Len(templates) + 1 /\ templates'[Len(templates) + 1] = row
          /\ \A v \in 1 .. Len(templates) : templates'[v] = templates[v]
      BY <1>3, <2>2
    <3>2. \A v \in 1 .. Len(templates) + 1 : v \in 1 .. Len(templates) \/ v = Len(templates) + 1
      BY <1>3
    <3>3. \A v \in 1 .. Len(templates') : IsInjective(templates'[v])
      BY <2>1, <2>2, <3>1, <3>2, Zenon
    <3> QED
      BY <3>3 DEF RulesOnce, Latest
  <2>3. <<>> \in Seq(Rules)
    OBVIOUS
  <2>4. CASE templates' = templates
    BY <1>3, <2>1, <2>4 DEF RulesOnce, Latest
  <2> QED
    BY <1>1, <1>3, <1>4, <2>2, <2>3, <2>4, OnceMore
<1>6. CacheRead(p) => \A v \in DOMAIN cache'[p] : IsInjective(cache'[p][v])
  <2>1. IsInjective(GetLatest(p))
    BY LatestOnce
  <2> QED
    BY <1>1, <2>1 DEF CacheRead
<1>7. /\ IsInjective(runs'[p].rules) /\ IsInjective(runs'[p].row)
      /\ \A v \in DOMAIN cache'[p] : IsInjective(cache'[p][v])
  <2>1. IsInjective(<<>>) /\ IsInjective(NoRun.rules) /\ IsInjective(NoRun.row)
    BY OnceMore, NoRunType
  <2>2. CASE Acquire(p)
    <3>1. runs'[p].rules = <<>> /\ runs'[p].row = <<>> /\ cache' = cache
      BY <2>2, AcquireStep
    <3> QED
      BY <1>1, <2>1, <3>1
  <2>3. CASE Query(p)
    <3>1. CacheRead(p) /\ runs'[p].rules = runs[p].rules /\ runs'[p].row = runs[p].row
      BY <2>3, QueryStep
    <3> QED
      BY <1>1, <1>6, <3>1
  <2>4. CASE Analyse(p)
    <3>1. /\ cache' = cache /\ runs'[p].row = runs[p].row
          /\ \/ runs'[p].rules = runs[p].rules
             \/ \E rule \in Rules : /\ rule \notin ToSet(runs[p].rules)
                                    /\ runs'[p].rules = Append(runs[p].rules, rule)
      BY <2>4, AnalyseStep
    <3>2. IsInjective(runs'[p].rules)
      BY <1>1, <1>3, <3>1, OnceMore
    <3> QED
      BY <1>1, <3>1, <3>2
  <2>5. CASE Analysed(p)
    <3>1. /\ cache' = cache /\ runs'[p].row = runs[p].row /\ runs'[p].rules = runs[p].rules
      BY <2>5, AnalysedStep
    <3> QED
      BY <1>1, <3>1
  <2>6. CASE AppendRules(p)
    <3> DEFINE current == GetLatest(p)
               deduped == Deduped(runs[p].rules, ToSet(current))
    <3>1. /\ CacheRead(p) /\ runs'[p].rules = runs[p].rules
          /\ runs'[p].row = runs[p].row \/ runs'[p].row = current \o deduped
      BY <2>6, AppendRulesStep
    <3>2. current \in Seq(Rules) /\ IsInjective(current)
      BY LatestOnce, GetLatestType DEF TypeInv
    <3>3. /\ deduped \in Seq(Rules) /\ IsInjective(deduped)
          /\ \A n \in DOMAIN deduped : deduped[n] \notin ToSet(current)
      BY <1>1, <1>3, DedupedRules
    <3>4. IsInjective(current \o deduped)
      <4> HIDE DEF current, deduped
      <4> QED
        BY <3>2, <3>3, AppendedRules
    <3> QED
      BY <1>1, <1>6, <3>1, <3>4
  <2>7. CASE InsertVersion(p)
    <3>1. \/ runs'[p] = NoRun /\ cache' = cache
          \/ runs'[p] = Moved(runs[p], "upsert") /\ cache'[p] = [v \in {Latest + 1} |-> runs[p].row]
      BY <2>7, InsertStep
    <3>2. CASE runs'[p] = NoRun /\ cache' = cache
      BY <1>1, <2>1, <3>2
    <3>3. CASE runs'[p] = Moved(runs[p], "upsert")
               /\ cache'[p] = [v \in {Latest + 1} |-> runs[p].row]
      <4>1. runs'[p].rules = runs[p].rules /\ runs'[p].row = runs[p].row
        BY <3>3, MovedFacts
      <4> QED
        BY <1>1, <3>3, <4>1
    <3> QED
      BY <3>1, <3>2, <3>3
  <2>8. CASE UpsertState(p)
    <3>1. runs'[p] = Moved(runs[p], "commit") /\ cache' = cache
      BY <2>8, UpsertStep
    <3>2. runs'[p].rules = runs[p].rules /\ runs'[p].row = runs[p].row
      BY <3>1, MovedFacts
    <3> QED
      BY <1>1, <3>1, <3>2
  <2>9. CASE Commit(p) \/ AbortRun(p)
    <3>1. runs'[p] = NoRun /\ cache' = cache
      BY <2>9, CommitStep, AbortStep
    <3> QED
      BY <1>1, <2>1, <3>1
  <2>10. CASE Restart(p)
    <3>1. /\ runs'[p] \in {NoRun, Syncing(Latest + 1)}
          /\ \A v \in DOMAIN cache'[p] : cache'[p][v] = <<>>
      BY <2>10, RestartStep
    <3>2. Syncing(Latest + 1).rules = <<>> /\ Syncing(Latest + 1).row = <<>>
      <4>1. Latest + 1 \in Nat
        BY <1>3
      <4> QED
        BY <4>1, SyncingRun
    <3> QED
      BY <2>1, <3>1, <3>2
  <2>11. CASE SyncInsert(p)
    <3>1. /\ runs'[p] = NoRun
          /\ \A v \in DOMAIN cache'[p] : \/ cache'[p][v] = <<>>
                                         \/ v \in DOMAIN cache[p] /\ cache'[p][v] = cache[p][v]
      <4>1. /\ runs'[p] = NoRun
            /\ \/ cache' = cache
               \/ /\ DOMAIN cache'[p] = DOMAIN cache[p] \cup {Latest + 1}
                  /\ cache'[p][Latest + 1] = <<>>
                  /\ \A v \in DOMAIN cache[p] : v # Latest + 1 => cache'[p][v] = cache[p][v]
        BY <2>11, SyncStep
      <4> QED
        BY <4>1, Zenon
    <3> QED
      BY <1>1, <2>1, <3>1
  <2> QED
    BY <2>2, <2>3, <2>4, <2>5, <2>6, <2>7, <2>8, <2>9, <2>10, <2>11 DEF RunNext
<1>8. \A q \in Processes : /\ IsInjective(runs'[q].rules) /\ IsInjective(runs'[q].row)
                           /\ \A v \in DOMAIN cache'[q] : IsInjective(cache'[q][v])
  BY <1>1, <1>2, <1>7, Zenon DEF RunFrame
<1> QED
  BY <1>5, <1>8 DEF OnceInv

\* What the steps of a run do to the version that it inserts.
VersionChange(p) ==
    /\ \A q \in Processes : q # p => runs'[q] = runs[q]
    /\ \/ /\ ~Inserted(p)' /\ runs'[p].pc \in {"query", "analyse", "append"}
          /\ runs'[p].version = 0 /\ Latest' = Latest
       \/ /\ ~Inserted(p)' /\ runs'[p].pc \notin {"query", "analyse", "append"}
          /\ Latest' = Latest
       \/ /\ Inserted(p) /\ runs'[p].version = runs[p].version
          /\ runs'[p].pc \in {"upsert", "commit"} /\ Latest' = Latest
       \/ /\ runs[p].pc = "insert" /\ runs[p].version = Latest + 1
          /\ \A q \in Processes \ {p} : ~(Inserted(q) /\ runs[q].version = Latest + 1)
          /\ runs'[p].version = Latest + 1 /\ runs'[p].pc = "upsert" /\ Latest' = Latest
       \/ /\ Inserted(p) /\ ~Inserted(p)' /\ runs'[p].pc = "idle" /\ Latest' = Latest + 1
       \/ /\ runs[p].pc = "sync" /\ runs'[p].pc = "idle" /\ ~Inserted(p)' /\ Latest' = Latest + 1
          /\ \A q \in Processes \ {p} : ~(Inserted(q) /\ runs[q].version = Latest + 1)

\* Every step of a run does one of these.
LEMMA RunVersions ==
    ASSUME TypeInv, TimeInv, VersionInv, NEW p \in Processes, RunNext(p)
    PROVE  VersionChange(p)
<1>1. /\ Latest \in Nat /\ \A q \in Processes : runs[q].pc \in RunPcs /\ runs[q].version \in Nat
  BY RunFacts
<1>2. \A q \in Processes : Inserted(q)' = (runs'[q].pc \in {"upsert", "commit"} /\ runs'[q].version # 0)
  BY DEF Inserted
<1>3. runs[p].pc \in {"query", "analyse", "append"} => runs[p].version = 0
  BY DEF VersionInv
<1>4. UNCHANGED templates => Latest' = Latest
  BY DEF Latest
<1>5. RunFrame(p)
  BY AcquireStep, LookingStep, InsertStep, UpsertStep, CommitStep, AbortStep, RestartStep,
     SyncStep DEF RunNext, LookingNext, LocalStep
<1>6. runs'[p] = NoRun => runs'[p].pc = "idle" /\ ~Inserted(p)'
  BY <1>2, NoRunType
<1>7. CASE Acquire(p)
  BY <1>2, <1>4, <1>5, <1>7, AcquireStep DEF VersionChange, RunFrame
<1>8. CASE LookingNext(p)
  <2>1. LocalStep(p) /\ Latest' = Latest
    BY <1>4, <1>8, LookingStep DEF LocalStep
  <2>2. /\ runs[p].version = 0
        /\ \/ runs'[p].pc \in {"analyse", "append", "upsert"} /\ runs'[p].version = 0
           \/ runs'[p].pc = "insert"
    BY <1>3, <1>8, QueryStep, AnalyseStep, AnalysedStep, AppendRulesStep DEF LookingNext
  <2> QED
    BY <1>2, <1>5, <2>1, <2>2 DEF VersionChange, RunFrame
<1>9. CASE InsertVersion(p)
  <2>1. /\ runs[p].pc = "insert" /\ ~Waits(p, runs[p].version) /\ Latest' = Latest
        /\ \/ runs'[p] = NoRun
           \/ runs[p].version = Latest + 1 /\ runs'[p] = Moved(runs[p], "upsert")
    BY <1>4, <1>9, InsertStep
  <2>2. runs'[p] = Moved(runs[p], "upsert") =>
            runs'[p].pc = "upsert" /\ runs'[p].version = runs[p].version
    BY MovedFacts
  <2>3. CASE runs'[p] = NoRun
    BY <1>5, <1>6, <2>1, <2>3 DEF VersionChange, RunFrame
  <2>4. CASE runs[p].version = Latest + 1 /\ runs'[p] = Moved(runs[p], "upsert")
    BY <1>5, <2>1, <2>2, <2>4 DEF VersionChange, RunFrame, Waits
  <2> QED
    BY <2>1, <2>3, <2>4
<1>10. CASE UpsertState(p)
  <2>1. runs[p].pc = "upsert" /\ runs'[p] = Moved(runs[p], "commit") /\ Latest' = Latest
    BY <1>4, <1>10, UpsertStep
  <2>2. runs'[p].pc = "commit" /\ runs'[p].version = runs[p].version
    BY <2>1, MovedFacts
  <2>3. Inserted(p) \/ ~Inserted(p)'
    BY <1>2, <2>1, <2>2 DEF Inserted
  <2> QED
    BY <1>5, <2>1, <2>2, <2>3 DEF VersionChange, RunFrame
<1>11. CASE Commit(p)
  <2>1. /\ runs'[p] = NoRun
        /\ IF Inserted(p) THEN Latest' = Latest + 1 ELSE Latest' = Latest
    BY <1>11, CommitStep
  <2> QED
    BY <1>5, <1>6, <2>1 DEF VersionChange, RunFrame
<1>12. CASE AbortRun(p)
  BY <1>4, <1>5, <1>6, <1>12, AbortStep DEF VersionChange, RunFrame
<1>13. CASE Restart(p)
  <2>1. Syncing(Latest + 1).pc = "sync"
    <3>1. Latest + 1 \in Nat
      BY <1>1
    <3> QED
      BY <3>1, SyncingRun
  <2>2. Latest' = Latest /\ runs'[p] \in {NoRun, Syncing(Latest + 1)}
    BY <1>4, <1>13, RestartStep
  <2> QED
    BY <1>2, <1>5, <1>6, <2>1, <2>2 DEF VersionChange, RunFrame
<1>14. CASE SyncInsert(p)
  <2>1. /\ runs[p].pc = "sync" /\ ~Waits(p, runs[p].version) /\ runs'[p] = NoRun
        /\ Latest' = Latest \/ (Latest' = Latest + 1 /\ runs[p].version = Latest + 1)
    BY <1>14, SyncStep
  <2> QED
    BY <1>5, <1>6, <2>1 DEF VersionChange, RunFrame, Waits
<1> QED
  BY <1>7, <1>8, <1>9, <1>10, <1>11, <1>12, <1>13, <1>14 DEF RunNext, LookingNext

\* At most one version is inserted and not committed, after a step of a run.
LEMMA RunStepVersions ==
    ASSUME TypeInv, TimeInv, VersionInv, NEW p \in Processes, RunNext(p)
    PROVE  VersionInv'
<1>1. VersionChange(p)
  BY RunVersions
<1>2. Latest \in Nat /\ \A q \in Processes : runs[q].version \in Nat
  BY RunFacts
<1>3. \A q \in Processes : q # p => runs'[q] = runs[q] /\ Inserted(q)' = Inserted(q)
  BY <1>1 DEF VersionChange, Inserted
<1>4. /\ \A q \in Processes : runs[q].pc \in {"query", "analyse", "append"} => runs[q].version = 0
      /\ \A q \in Processes : Inserted(q) => runs[q].version = Latest + 1
      /\ \A q, r \in Processes : Inserted(q) /\ Inserted(r) => q = r
  BY DEF VersionInv
<1>5. ASSUME NEW q \in Processes, runs'[q].pc \in {"query", "analyse", "append"}
      PROVE  runs'[q].version = 0
  <2>1. CASE q = p
    BY <1>1, <1>5, <2>1 DEF VersionChange
  <2> QED
    BY <1>3, <1>4, <1>5, <2>1
<1>6. ASSUME NEW q \in Processes, Inserted(q)' PROVE runs'[q].version = Latest' + 1
  <2>1. CASE q = p
    BY <1>1, <1>4, <1>6, <2>1 DEF VersionChange
  <2>2. CASE q # p
    <3>1. Inserted(q) /\ runs[q].version = Latest + 1 /\ runs'[q] = runs[q]
      BY <1>3, <1>4, <1>6, <2>2
    <3>2. Latest' = Latest
      BY <1>1, <1>4, <2>2, <3>1 DEF VersionChange
    <3> QED
      BY <3>1, <3>2
  <2> QED
    BY <2>1, <2>2
<1>7. ASSUME NEW q \in Processes, q # p, Inserted(p)', Inserted(q)' PROVE FALSE
  <2>1. Inserted(q) /\ runs[q].version = Latest + 1
    BY <1>3, <1>4, <1>7
  <2>2. ~Inserted(p)
    BY <1>4, <1>7, <2>1
  <2> QED
    BY <1>1, <1>7, <2>1, <2>2 DEF VersionChange
<1>8. \A q, r \in Processes : Inserted(q)' /\ Inserted(r)' => q = r
  BY <1>3, <1>4, <1>7
<1> QED
  BY <1>5, <1>6, <1>8 DEF VersionInv

\* A process's cache agrees with the table, but for the version that it has inserted;
\* a row that is to be committed next extends the version before it.
CacheAgrees(p) ==
    \A v \in DOMAIN cache[p] : IF v <= Latest THEN cache[p][v] = templates[v]
                               ELSE Inserted(p) /\ cache[p][v] = runs[p].row

RowExtends(p) ==
    (runs[p].pc = "insert" \/ Inserted(p)) /\ runs[p].version = Latest + 1 =>
        IsPrefix(templates[Latest], runs[p].row)

\* Caches and rows after a step of a run, while no run is rolled back.
LEMMA RunStepCache ==
    ASSUME TypeInv, TimeInv, VersionInv, CacheInv, NEW p \in Processes, RunNext(p)
    PROVE  CacheInv'
<1> SUFFICES ASSUME used'.aborts = 0
             PROVE  \A q \in Processes : CacheAgrees(q)' /\ RowExtends(q)'
  BY DEF CacheInv, CacheAgrees, RowExtends
<1>1. RunFrame(p)
  BY AcquireStep, LookingStep, InsertStep, UpsertStep, CommitStep, AbortStep, RestartStep,
     SyncStep DEF RunNext, LookingNext, LocalStep
<1>2. \A q \in Processes : CacheAgrees(q) /\ RowExtends(q)
  BY <1>1 DEF RunFrame, CacheInv, CacheAgrees, RowExtends
<1>3. /\ Latest \in Nat /\ Latest # 0 /\ Latest = Len(templates) /\ templates \in Seq(Seq(Rules))
      /\ \A q \in Processes : /\ runs[q].pc \in RunPcs /\ runs[q].version \in Nat
                              /\ runs[q].version <= Latest + 1
                              /\ runs[q].rules \in Seq(Rules) /\ runs[q].row \in Seq(Rules)
                              /\ DOMAIN cache[q] \subseteq 1 .. Latest + 1
  BY RunFacts DEF TypeInv, RunTypes, Latest, TimeInv
<1>4. /\ \A q \in Processes : Inserted(q) => runs[q].version = Latest + 1
      /\ \A q, r \in Processes : Inserted(q) /\ Inserted(r) => q = r
      /\ \A q \in Processes : runs[q].pc \in {"query", "analyse", "append"} => runs[q].version = 0
  BY DEF VersionInv
<1>5. templates' = templates => Latest' = Latest
  BY DEF Latest
<1>6. \A row : templates' = Append(templates, row) /\ row \in Seq(Rules) =>
          /\ Latest' = Latest + 1 /\ templates'[Latest + 1] = row
          /\ \A v \in 1 .. Latest : templates'[v] = templates[v]
  BY <1>3 DEF Latest
\* The others: nothing of theirs changes, but the table may have a version more.
<1>7. ASSUME NEW q \in Processes, q # p PROVE CacheAgrees(q)' /\ RowExtends(q)'
  <2>1. /\ runs'[q] = runs[q] /\ cache'[q] = cache[q] /\ Inserted(q)' = Inserted(q)
    BY <1>1, <1>7 DEF RunFrame, Inserted
  <2>2. CASE templates' = templates
    BY <1>2, <1>5, <2>1, <2>2 DEF CacheAgrees, RowExtends
  <2>3. ASSUME NEW row \in Seq(Rules), templates' = Append(templates, row), ~Inserted(q)
        PROVE  CacheAgrees(q)' /\ RowExtends(q)'
    <3>1. /\ Latest' = Latest + 1
          /\ \A v \in 1 .. Latest : templates'[v] = templates[v]
      BY <1>6, <2>3
    <3>2. \A v \in DOMAIN cache[q] : v \in 1 .. Latest /\ cache[q][v] = templates[v]
      BY <1>2, <1>3, <2>3 DEF CacheAgrees
    <3>3. CacheAgrees(q)'
      BY <1>3, <2>1, <3>1, <3>2 DEF CacheAgrees
    <3>4. ~(runs[q].version = Latest' + 1)
      BY <1>3, <3>1
    <3> QED
      BY <2>1, <3>3, <3>4 DEF RowExtends
  <2>4. CASE Commit(p)
    <3>1. IF Inserted(p) THEN templates' = Append(templates, runs[p].row) ELSE templates' = templates
      BY <2>4, CommitStep
    <3>2. Inserted(p) => ~Inserted(q)
      BY <1>4, <1>7
    <3> QED
      BY <1>3, <2>2, <2>3, <3>1, <3>2
  <2>5. CASE SyncInsert(p)
    <3>1. \/ templates' = templates
          \/ templates' = Append(templates, <<>>) /\ runs[p].version = Latest + 1
             /\ ~Waits(p, runs[p].version)
      BY <2>5, SyncStep
    <3>2. ~Waits(p, runs[p].version) /\ runs[p].version = Latest + 1 => ~Inserted(q)
      BY <1>4, <1>7 DEF Waits
    <3>3. <<>> \in Seq(Rules)
      OBVIOUS
    <3> QED
      BY <2>2, <2>3, <3>1, <3>2, <3>3
  <2> QED
    BY <2>2, <2>4, <2>5, AcquireStep, LookingStep, InsertStep, UpsertStep, AbortStep,
       RestartStep DEF RunNext, LookingNext, LocalStep
\* The process of the run.
<1>8. ~Inserted(p) => \A v \in DOMAIN cache[p] : v \in 1 .. Latest /\ cache[p][v] = templates[v]
  BY <1>2, <1>3 DEF CacheAgrees
<1>9. GetLatest(p) = templates[Latest]
  BY <1>2, <1>3 DEF GetLatest, CacheAgrees
<1>10. ASSUME ~Inserted(p), CacheRead(p), templates' = templates
       PROVE  CacheAgrees(p)'
  <2>1. \A v \in DOMAIN cache'[p] : v \in 1 .. Latest /\ cache'[p][v] = templates[v]
    BY <1>3, <1>8, <1>9, <1>10 DEF CacheRead
  <2> QED
    BY <1>5, <1>10, <2>1 DEF CacheAgrees
<1>11. ASSUME ~Inserted(p), cache' = cache, templates' = templates
       PROVE  CacheAgrees(p)'
  BY <1>5, <1>8, <1>11 DEF CacheAgrees
<1>12. ASSUME runs'[p].pc \notin {"insert", "upsert", "commit"} \/ runs'[p].version = 0
       PROVE  RowExtends(p)'
  <2>1. Latest' + 1 # 0
    BY RunTimes, <1>1 DEF RunFrame, RunTypes, Latest
  <2> QED
    BY <1>12, <2>1 DEF RowExtends, Inserted
<1>13. runs'[p] = NoRun => RowExtends(p)'
  BY <1>12, NoRunType
<1>14. CASE Acquire(p)
  <2>1. runs[p].pc = "idle" /\ runs'[p].version = 0 /\ cache' = cache /\ templates' = templates
    BY <1>14, AcquireStep
  <2>2. ~Inserted(p)
    BY <2>1 DEF Inserted
  <2> QED
    BY <1>7, <1>11, <1>12, <2>1, <2>2
<1>15. CASE Query(p)
  <2>1. /\ runs[p].pc = "query" /\ CacheRead(p) /\ LocalStep(p)
        /\ runs'[p].version = runs[p].version
    BY <1>15, QueryStep
  <2>2. ~Inserted(p) /\ runs'[p].version = 0
    BY <1>4, <2>1 DEF Inserted
  <2> QED
    BY <1>7, <1>10, <1>12, <2>1, <2>2 DEF LocalStep
<1>16. CASE Analyse(p) \/ Analysed(p)
  <2>1. /\ runs[p].pc = "analyse" /\ cache' = cache /\ LocalStep(p)
        /\ runs'[p].version = runs[p].version
    BY <1>16, AnalyseStep, AnalysedStep
  <2>2. ~Inserted(p) /\ runs'[p].version = 0
    BY <1>4, <2>1 DEF Inserted
  <2> QED
    BY <1>7, <1>11, <1>12, <2>1, <2>2 DEF LocalStep
<1>17. CASE AppendRules(p)
  <2> DEFINE deduped == Deduped(runs[p].rules, ToSet(GetLatest(p)))
  <2>1. /\ runs[p].pc = "append" /\ CacheRead(p) /\ LocalStep(p)
        /\ \/ runs'[p].version = runs[p].version
           \/ /\ runs'[p].pc = "insert" /\ runs'[p].version = Latest + 1
              /\ runs'[p].row = GetLatest(p) \o deduped
    BY <1>17, AppendRulesStep
  <2>2. ~Inserted(p) /\ runs[p].version = 0
    BY <1>4, <2>1 DEF Inserted
  <2>3. CacheAgrees(p)'
    BY <1>10, <2>1, <2>2 DEF LocalStep
  <2>4. CASE runs'[p].version = runs[p].version
    BY <1>7, <1>12, <2>2, <2>3, <2>4
  <2>5. CASE runs'[p].row = GetLatest(p) \o deduped
    <3>1. deduped \in Seq(Rules) /\ GetLatest(p) \in Seq(Rules)
      BY <1>3, DedupedRules, GetLatestType DEF TypeInv
    <3>2. IsPrefix(GetLatest(p), runs'[p].row)
      <4> HIDE DEF deduped
      <4> QED
        BY <2>5, <3>1, AppendedRules
    <3>3. templates' = templates /\ Latest' = Latest
      BY <1>5, <2>1 DEF LocalStep
    <3>4. RowExtends(p)'
      BY <1>9, <3>2, <3>3 DEF RowExtends
    <3> QED
      BY <1>7, <2>3, <3>4
  <2> QED
    BY <2>1, <2>4, <2>5
<1>18. CASE InsertVersion(p)
  <2>1. /\ runs[p].pc = "insert" /\ templates' = templates
        /\ \/ runs'[p] = NoRun /\ cache' = cache
           \/ /\ runs[p].version = Latest + 1 /\ runs'[p] = Moved(runs[p], "upsert")
              /\ cache'[p] = [v \in {Latest + 1} |-> runs[p].row]
    BY <1>18, InsertStep
  <2>2. ~Inserted(p)
    BY <2>1 DEF Inserted
  <2>3. CASE runs'[p] = NoRun /\ cache' = cache
    BY <1>7, <1>11, <1>13, <2>1, <2>2, <2>3
  <2>4. CASE /\ runs[p].version = Latest + 1 /\ runs'[p] = Moved(runs[p], "upsert")
             /\ cache'[p] = [v \in {Latest + 1} |-> runs[p].row]
    <3>1. /\ runs'[p].pc = "upsert" /\ runs'[p].row = runs[p].row
          /\ runs'[p].version = runs[p].version
      BY <2>4, MovedFacts
    <3>2. Inserted(p)'
      BY <1>3, <2>4, <3>1 DEF Inserted
    <3>3. Latest' = Latest
      BY <1>5, <2>1
    <3>4. CacheAgrees(p)'
      BY <1>3, <2>4, <3>1, <3>2, <3>3 DEF CacheAgrees
    <3>5. RowExtends(p)'
      BY <1>2, <2>1, <2>4, <3>1, <3>3 DEF RowExtends
    <3> QED
      BY <1>7, <3>4, <3>5
  <2> QED
    BY <2>1, <2>3, <2>4
<1>19. CASE UpsertState(p)
  <2>1. /\ runs[p].pc = "upsert" /\ templates' = templates /\ cache' = cache
        /\ runs'[p] = Moved(runs[p], "commit")
    BY <1>19, UpsertStep
  <2>2. /\ runs'[p].pc = "commit" /\ runs'[p].row = runs[p].row
        /\ runs'[p].version = runs[p].version
    BY <2>1, MovedFacts
  <2>3. Inserted(p)' = Inserted(p) /\ Latest' = Latest
    BY <1>5, <2>1, <2>2 DEF Inserted
  <2>4. CacheAgrees(p)' /\ RowExtends(p)'
    BY <1>2, <2>1, <2>2, <2>3 DEF CacheAgrees, RowExtends
  <2> QED
    BY <1>7, <2>4
<1>20. CASE Commit(p)
  <2>1. /\ runs'[p] = NoRun /\ cache' = cache
        /\ IF Inserted(p) THEN templates' = Append(templates, runs[p].row) ELSE templates' = templates
    BY <1>20, CommitStep
  <2>2. CASE ~Inserted(p)
    BY <1>7, <1>11, <1>13, <2>1, <2>2
  <2>3. CASE Inserted(p)
    <3>1. /\ Latest' = Latest + 1 /\ templates'[Latest + 1] = runs[p].row
          /\ \A v \in 1 .. Latest : templates'[v] = templates[v]
      BY <1>3, <1>6, <2>1, <2>3
    <3>2. ASSUME NEW v \in DOMAIN cache[p] PROVE v <= Latest' /\ cache[p][v] = templates'[v]
      <4>1. v \in 1 .. Latest \/ v = Latest + 1
        BY <1>3
      <4>2. CASE v \in 1 .. Latest
        BY <1>2, <1>3, <3>1, <4>2 DEF CacheAgrees
      <4>3. CASE v = Latest + 1
        BY <1>2, <1>3, <3>1, <4>3 DEF CacheAgrees
      <4> QED
        BY <4>1, <4>2, <4>3
    <3>3. CacheAgrees(p)'
      BY <2>1, <3>2 DEF CacheAgrees
    <3> QED
      BY <1>7, <1>13, <2>1, <3>3
  <2> QED
    BY <2>2, <2>3
<1>21. CASE AbortRun(p)
  BY <1>21, AbortStep
<1>22. CASE Restart(p)
  <2>1. /\ runs'[p] \in {NoRun, Syncing(Latest + 1)} /\ templates' = templates
        /\ \/ DOMAIN cache'[p] = {}
           \/ /\ DOMAIN cache'[p] = {Latest} /\ cache'[p][Latest] = <<>>
              /\ templates[Latest] = <<>>
    BY <1>22, RestartStep
  <2>2. Syncing(Latest + 1).pc = "sync"
    <3>1. Latest + 1 \in Nat
      BY <1>3
    <3> QED
      BY <3>1, SyncingRun
  <2>3. runs'[p].pc \in {"idle", "sync"}
    BY <2>1, <2>2, NoRunType
  <2>4. CacheAgrees(p)'
    BY <1>3, <1>5, <2>1 DEF CacheAgrees
  <2> QED
    BY <1>7, <1>12, <2>3, <2>4
<1>23. CASE SyncInsert(p)
  <2>1. /\ runs[p].pc = "sync" /\ runs'[p] = NoRun
        /\ \/ UNCHANGED <<templates, cache>>
           \/ /\ templates' = Append(templates, <<>>)
              /\ DOMAIN cache'[p] = DOMAIN cache[p] \cup {Latest + 1}
              /\ cache'[p][Latest + 1] = <<>>
              /\ \A v \in DOMAIN cache[p] : v # Latest + 1 => cache'[p][v] = cache[p][v]
    BY <1>23, SyncStep
  <2>2. ~Inserted(p)
    BY <2>1 DEF Inserted
  <2>3. CASE UNCHANGED <<templates, cache>>
    BY <1>7, <1>11, <1>13, <2>1, <2>2, <2>3
  <2>4. CASE /\ templates' = Append(templates, <<>>)
             /\ DOMAIN cache'[p] = DOMAIN cache[p] \cup {Latest + 1}
             /\ cache'[p][Latest + 1] = <<>>
             /\ \A v \in DOMAIN cache[p] : v # Latest + 1 => cache'[p][v] = cache[p][v]
    <3>1. <<>> \in Seq(Rules)
      OBVIOUS
    <3>2. /\ Latest' = Latest + 1 /\ templates'[Latest + 1] = <<>>
          /\ \A v \in 1 .. Latest : templates'[v] = templates[v]
      BY <1>6, <2>4, <3>1
    <3>3. ASSUME NEW v \in DOMAIN cache'[p] PROVE v <= Latest' /\ cache'[p][v] = templates'[v]
      <4>1. CASE v = Latest + 1
        BY <1>3, <2>4, <3>2, <4>1
      <4>2. CASE v # Latest + 1
        <5>1. v \in DOMAIN cache[p] /\ v \in 1 .. Latest
          BY <1>8, <2>2, <2>4, <3>3, <4>2
        <5> QED
          BY <1>3, <1>8, <2>2, <2>4, <3>2, <4>2, <5>1
      <4> QED
        BY <4>1, <4>2
    <3>4. CacheAgrees(p)'
      BY <3>3 DEF CacheAgrees
    <3> QED
      BY <1>7, <1>13, <2>1, <3>4
  <2> QED
    BY <2>1, <2>3, <2>4
<1> QED
  BY <1>14, <1>15, <1>16, <1>17, <1>18, <1>19, <1>20, <1>21, <1>22, <1>23 DEF RunNext

-----------------------------------------------------------------------------
(* The invariant holds *)

\* The invariant holds of the empty tables and the API process's cache of version 1.
LEMMA InitInv ==
    ASSUME Init
    PROVE  IInv
<1>1. /\ edits = [e \in Edits |-> NoEdit] /\ vectors = [e \in Edits |-> 0]
      /\ jobs = EmptyTable /\ tasks = {} /\ templates = <<<<>>>> /\ lastRun = 0
      /\ lock = NoProcess /\ runs = [p \in Processes |-> NoRun] /\ time = 0 /\ seen = {} /\ horizon = 0
      /\ used = [runs |-> 0, aborts |-> 0, restarts |-> 0] /\ budget \in Budgets
  BY DEF Init
<1>2. /\ DOMAIN cache = Processes
      /\ \A p \in Processes : cache[p] = [v \in {1} |-> <<>>] \/ cache[p] = [v \in {} |-> <<>>]
  BY DEF Init
<1>3. NoEdit \in EditRow /\ NoEdit.status = "absent" /\ NoEdit.at = 0 /\ NoEdit.version = 0
  BY FieldsAssumption DEF NoEdit, EditRow
<1>4. /\ templates \in Seq(Seq(Rules)) /\ Len(templates) = 1 /\ Latest = 1 /\ templates[1] = <<>>
      /\ DOMAIN templates = {1}
  BY <1>1 DEF Latest
<1>5. \A e \in Edits : edits[e] = NoEdit
  BY <1>1
<1>6. /\ runs \in [Processes -> Run]
      /\ \A p \in Processes : /\ runs[p].pc = "idle" /\ runs[p].started = 0
                              /\ runs[p].version = 0
                              /\ runs[p].rules = <<>> /\ runs[p].row = <<>>
  BY <1>1, NoRunType
<1>7. \A p \in Processes : ~Active(p) /\ ~Locking(p) /\ ~Inserted(p)
  BY <1>6 DEF Active, Locking, Inserted
<1>8. \A p \in Processes : /\ DOMAIN cache[p] \subseteq {1}
                           /\ \A v \in DOMAIN cache[p] : cache[p][v] = <<>>
                           /\ cache[p] \in [DOMAIN cache[p] -> Seq(Rules)]
  <2> SUFFICES ASSUME NEW p \in Processes
               PROVE  /\ DOMAIN cache[p] \subseteq {1}
                      /\ \A v \in DOMAIN cache[p] : cache[p][v] = <<>>
                      /\ cache[p] \in [DOMAIN cache[p] -> Seq(Rules)]
    OBVIOUS
  <2>1. CASE cache[p] = [v \in {1} |-> <<>>]
    BY <2>1
  <2>2. CASE cache[p] = [v \in {} |-> <<>>]
    BY <2>2
  <2> QED
    BY <1>2, <2>1, <2>2
<1>9. TypeInv
  <2>1. IndexTypes
    <3>1. EmptyTable \in Table
      BY UnusedIsRow DEF EmptyTable, Table
    <3> QED
      BY <1>1, <1>3, <3>1 DEF IndexTypes
  <2>2. RunTypes
    <3>1. used \in Used
      BY <1>1 DEF Used
    <3> QED
      BY <1>1, <1>2, <1>4, <1>6, <1>8, <3>1 DEF RunTypes
  <2> QED
    BY <2>1, <2>2 DEF TypeInv
<1>10. TimeInv
  BY <1>1, <1>3, <1>4, <1>5, <1>6 DEF TimeInv
<1>11. LockInv
  <2>1. \A p \in Processes : Locking(p) \in BOOLEAN /\ lock # p
    BY <1>1, ProcessesAssumption DEF Locking
  <2>2. \A p \in Processes : (lock = p) = Locking(p)
    BY <1>7, <2>1
  <2>3. \A p \in Processes : runs[p].pc # "commit"
    BY <1>6
  <2> QED
    BY <1>7, <2>2, <2>3 DEF LockInv
<1>12. ReadInv
  BY <1>3, <1>5, <1>7 DEF ReadInv, NothingSkipped, Stored
<1>13. OnceInv
  <2>1. IsInjective(<<>>)
    BY DEF IsInjective
  <2> QED
    BY <1>4, <1>6, <1>8, <2>1 DEF OnceInv, RulesOnce
<1>14. VersionInv
  BY <1>6, <1>7 DEF VersionInv
<1>15. CacheInv
  BY <1>4, <1>6, <1>7, <1>8 DEF CacheInv
<1> QED
  BY <1>9, <1>10, <1>11, <1>12, <1>13, <1>14, <1>15 DEF IInv

\* A step of a run does not touch the edits and their index.
LEMMA RunLeavesIndex ==
    ASSUME NEW p \in Processes, RunNext(p)
    PROVE  UNCHANGED <<edits, vectors, jobs, tasks>>
BY DEF RunNext, Acquire, Query, Analyse, Analysed, AppendRules, InsertVersion, UpsertState,
   Commit, AbortRun, Restart, SyncInsert, fewShotVars

\* Every step of a run keeps the invariant.
LEMMA RunStepInv ==
    ASSUME IInv, NEW p \in Processes, RunNext(p)
    PROVE  IInv'
<1>1. TypeInv /\ TimeInv /\ LockInv /\ ReadInv /\ OnceInv /\ VersionInv /\ CacheInv
  BY DEF IInv
<1>2. IndexTypes'
  BY <1>1, RunLeavesIndex DEF TypeInv, IndexTypes
<1>3. TypeInv'
  BY <1>1, <1>2, RunTimes DEF TypeInv
<1>4. TimeInv' /\ LockInv'
  BY <1>1, RunStepTimes
<1>5. ReadInv'
  BY <1>1, RunStepReads
<1>6. OnceInv'
  BY <1>1, RunStepOnce
<1>7. VersionInv'
  BY <1>1, RunStepVersions
<1>8. CacheInv'
  BY <1>1, RunStepCache
<1> QED
  BY <1>3, <1>4, <1>5, <1>6, <1>7, <1>8 DEF IInv

\* A step is one of the edits and their index, or one of a run.
LEMMA NextCases ==
    ASSUME Next
    PROVE  IndexNext \/ \E p \in Processes : RunNext(p)
BY Zenon DEF Next, IndexNext, RunNext, RunStep

\* Every step keeps the invariant.
LEMMA StepInv ==
    ASSUME IInv, [Next]_vars
    PROVE  IInv'
<1>1. CASE IndexNext
  BY <1>1, IndexStepInv
<1>2. ASSUME NEW p \in Processes, RunNext(p) PROVE IInv'
  BY <1>2, RunStepInv
<1>3. CASE UNCHANGED vars
  <2>1. UNCHANGED <<edits, vectors, jobs, tasks, templates, lastRun, lock, runs, cache, readVars,
                    time, used, budget>>
    BY <1>3 DEF vars, fewShotVars, runVars
  <2>2. Latest' = Latest /\ Floor' = Floor
    BY <2>1 DEF Latest, Floor
  <2>3. TypeInv' /\ TimeInv'
    BY <2>1, <2>2 DEF IInv, TypeInv, IndexTypes, RunTypes, TimeInv, Active, readVars
  <2>4. LockInv' /\ ReadInv'
    BY <2>1, <2>2 DEF IInv, LockInv, ReadInv, NothingSkipped, IsRead, AskedFrom, Active, Locking, Stored, readVars
  <2>5. OnceInv' /\ VersionInv' /\ CacheInv'
    BY <2>1, <2>2 DEF IInv, OnceInv, RulesOnce, VersionInv, CacheInv, Inserted
  <2> QED
    BY <2>3, <2>4, <2>5 DEF IInv
<1> QED
  BY <1>1, <1>2, <1>3, NextCases

\* The invariant is one of the specification: timestamps, the advisory lock, what was
\* read, the rules and the caches of both processes, in every state of any execution.
THEOREM InductiveInvariant == Spec => []IInv
<1>1. Init => IInv
  BY InitInv
<1>2. IInv /\ [Next]_vars => IInv'
  BY StepInv
<1> QED
  BY <1>1, <1>2, PTL DEF Spec

\* Every variable has its type, the lock is held by the process whose run is between
\* taking and releasing it, and nothing refers to a version that is not the next one.
THEOREM TypeCorrect == Spec => []TypeOK
<1>1. IInv => TypeOK
  <2> SUFFICES ASSUME IInv PROVE TypeOK
    OBVIOUS
  <2>1. TypeInv /\ TimeInv /\ LockInv
    BY DEF IInv
  <2>2. /\ time \in Nat /\ lastRun \in Nat /\ Latest \in Nat /\ Latest # 0
        /\ \A q \in Processes : runs[q].pc \in RunPcs /\ runs[q].version \in Nat
    BY <2>1, RunFacts
  <2>3. \A e \in Edits : /\ edits[e].status \in {"absent", "open", "stored", "deleted"}
                         /\ edits[e].at \in 0 .. time /\ edits[e].version \in 0 .. Latest
                         /\ edits[e].field \in Fields /\ edits[e].late \in BOOLEAN
    <3>1. \A e \in Edits : edits[e] \in EditRow
      BY <2>1 DEF TypeInv, IndexTypes
    <3>2. \A e \in Edits : edits[e].at <= time /\ edits[e].version <= Latest
      BY <2>1 DEF TimeInv
    <3> QED
      BY <2>2, <3>1, <3>2 DEF EditRow
  <2>4. \A t \in tasks : t.job \in JobIds /\ t.pc \in {"start", "embed", "finish", "retry"}
    BY <2>1 DEF TypeInv, IndexTypes, Task
  <2>5. lastRun \in 0 .. time /\ horizon \in 0 .. lastRun
    BY <2>1, <2>2 DEF TimeInv, TypeInv, RunTypes
  <2>6. \A p \in Processes :
            /\ (lock = p) = (runs[p].pc \in RunPcs \ {"idle", "commit", "sync"})
            /\ runs[p].version \in 0 .. Latest + 1
    BY <2>1, <2>2 DEF LockInv, Locking, TimeInv
  <2> QED
    BY <2>1, <2>2, <2>3, <2>4, <2>5, <2>6 DEF TypeInv, IndexTypes, RunTypes, TypeOK, Latest
<1> QED
  BY <1>1, InductiveInvariant, PTL

\* No version of the template has a rule twice, whatever runs of both processes overlap,
\* are rolled back or meet a restart.
THEOREM NoRuleTwice == Spec => []RulesOnce
<1>1. IInv => RulesOnce
  BY DEF IInv, OnceInv
<1> QED
  BY <1>1, InductiveInvariant, PTL

\* No edit that was committed in time is passed over by the runs, but for those from before
\* the days that the first run asked for: the timestamp that a run leaves for the next one
\* is that of its beginning, and a run that began before the first was committed asks for
\* no less than what came after that.
THEOREM EditsAreRead == Spec => []NothingSkipped
<1>1. IInv => NothingSkipped
  BY DEF IInv, ReadInv
<1> QED
  BY <1>1, InductiveInvariant, PTL

\* A run that is committed keeps the rules of the version before it, as long as no run
\* was rolled back, although it reads that version from a cache.
THEOREM RulesAreKept == Spec => RunsKeepRules
<1> DEFINE Keeps(p) ==
        (/\ runs[p].pc = "commit" /\ runs'[p].pc = "idle"
         /\ Len(templates') > Latest /\ used.aborts = 0)
            => IsPrefix(templates[Latest], templates'[Len(templates')])
<1>1. IInv /\ [Next]_vars => [\A p \in Processes : Keeps(p)]_vars
  <2> SUFFICES ASSUME IInv, Next, NEW p \in Processes,
                      runs[p].pc = "commit", runs'[p].pc = "idle",
                      Len(templates') > Latest, used.aborts = 0
               PROVE  IsPrefix(templates[Latest], templates'[Len(templates')])
    OBVIOUS
  <2>1. TypeInv /\ TimeInv /\ VersionInv /\ CacheInv
    BY DEF IInv
  <2>2. Latest \in Nat /\ templates \in Seq(Seq(Rules)) /\ Latest = Len(templates)
        /\ \A q \in Processes : runs[q].row \in Seq(Rules) /\ runs[q].version \in Nat
    BY <2>1, RunFacts DEF TypeInv, RunTypes, Latest
  <2>3. ~(templates' = templates)
    BY <2>2
  <2>4. ~IndexNext
    <3>1. IndexNext => UNCHANGED runVars
      BY <2>1, IndexStepTypes DEF IndexFrame
    <3> QED
      BY <2>3, <3>1 DEF runVars
  <2>5. PICK q \in Processes : RunNext(q)
    BY <2>4, NextCases
  <2>6. RunFrame(q)
    BY <2>1, <2>5, AcquireStep, LookingStep, InsertStep, UpsertStep, CommitStep, AbortStep,
       RestartStep, SyncStep DEF RunNext, LookingNext, LocalStep
  <2>7. q = p
    BY <2>6 DEF RunFrame
  <2>8. Commit(p)
    <3>1. LookingNext(p) => templates' = templates
      BY <2>1, LookingStep DEF LocalStep
    <3>2. Acquire(p) \/ InsertVersion(p) \/ UpsertState(p) \/ AbortRun(p) \/ Restart(p) =>
              templates' = templates
      BY <2>1, AcquireStep, InsertStep, UpsertStep, AbortStep, RestartStep
    <3>3. ~SyncInsert(p)
      BY DEF SyncInsert
    <3> QED
      BY <2>3, <2>5, <2>7, <3>1, <3>2, <3>3 DEF RunNext, LookingNext
  <2>9. Inserted(p) /\ templates' = Append(templates, runs[p].row)
    BY <2>1, <2>3, <2>8, CommitStep
  <2>10. IsPrefix(templates[Latest], runs[p].row)
    BY <2>1, <2>9 DEF CacheInv, VersionInv
  <2>11. Len(templates') = Latest + 1 /\ templates'[Latest + 1] = runs[p].row
    BY <2>2, <2>9
  <2> QED
    BY <2>10, <2>11
<1> QED
  BY <1>1, InductiveInvariant, PTL DEF Spec, RunsKeepRules

=============================================================================
