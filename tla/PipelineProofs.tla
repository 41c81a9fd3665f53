---------------------------- MODULE PipelineProofs ----------------------------
(***************************************************************************)
(* Proofs about DocumentPipeline and ReextractSessions, for every set of      *)
(* pages, workers and sessions, every budget and any number of operations     *)
(* and faults. The theorems about Spec use no constant of the sessions.       *)
(***************************************************************************)
EXTENDS ReextractSessions, JobTableProofs, Integers, FiniteSetTheorems, WellFoundedInduction

-----------------------------------------------------------------------------
(* Numbers and sums *)

\* A set of naturals that is not empty has a least element.
LEMMA MinOfNaturals ==
    ASSUME NEW S, S \subseteq Nat, S # {}
    PROVE  Min(S) \in S
<1>1. PICK x \in S : \A y \in S : ~(<<y, x>> \in OpToRel(<, Nat))
  BY NatLessThanWellFounded, WFMin
<1>2. ASSUME NEW y \in S PROVE x <= y
  <2>1. x \in Nat /\ y \in Nat /\ ~(y < x)
    BY <1>1 DEF OpToRel
  <2> QED
    BY <2>1
<1> QED
  BY <1>2 DEF Min

\* Some number from 1 on is not in a finite set, and the least is a natural.
LEMMA FreshNumber ==
    ASSUME NEW S, IsFiniteSet(S)
    PROVE  Min((1 .. Cardinality(S) + 1) \ S) \in Nat
<1> DEFINE n == Cardinality(S)
           T == (1 .. n + 1) \ S
<1>1. n \in Nat
  BY FS_CardinalityType
<1>2. Cardinality(1 .. n + 1) = n + 1
  BY <1>1, FS_Interval
<1>3. ASSUME T = {} PROVE FALSE
  <2>1. (1 .. n + 1) \in SUBSET S
    BY <1>3
  <2>2. Cardinality(1 .. n + 1) <= n
    BY <2>1, FS_Subset
  <2> QED
    BY <1>1, <1>2, <2>2
<1>4. T \subseteq Nat /\ T # {}
  BY <1>1, <1>3
<1>5. Min(T) \in T
  BY <1>4, MinOfNaturals
<1> QED
  BY <1>4, <1>5

\* The sum of no number, and of one.
LEMMA SumOfOne ==
    ASSUME NEW x \in Nat
    PROVE  SumSet({}) = 0 /\ SumSet({x}) = x
<1>1. SumSet({}) = 0
  BY DEF SumSet, FoldSet, MapThenFoldSet
<1> DEFINE step(g, s) ==
             IF s = {} THEN 0 ELSE (CHOOSE y \in s : TRUE) + g[s \ {CHOOSE y \in s : TRUE}]
           sum == [s \in SUBSET {x} |-> IF s = {} THEN 0 ELSE x]
           iter == CHOOSE g : g = [s \in SUBSET {x} |-> step(g, s)]
<1>2. SumSet({x}) = iter[{x}]
  BY DEF SumSet, FoldSet, MapThenFoldSet
<1>3. \A s \in SUBSET {x} : s = {} \/ s = {x}
  OBVIOUS
<1>4. (CHOOSE y \in {x} : TRUE) = x /\ {x} \ {x} = {}
  OBVIOUS
<1>5. ASSUME NEW s \in SUBSET {x} PROVE sum[s] = step(sum, s)
  <2>1. CASE s = {}
    BY <2>1
  <2>2. CASE s = {x}
    <3>1. step(sum, s) = x + sum[{}] /\ sum[s] = x /\ sum[{}] = 0
      BY <1>4, <2>2
    <3> QED
      BY <3>1
  <2> QED
    BY <1>3, <2>1, <2>2
<1>6. sum = [s \in SUBSET {x} |-> step(sum, s)]
  BY <1>5
<1> HIDE DEF sum, step
<1>7. iter = [s \in SUBSET {x} |-> step(iter, s)]
  BY <1>6
<1> HIDE DEF iter
<1>8. iter[{x}] = step(iter, {x}) /\ iter[{}] = step(iter, {})
  BY <1>7
<1>9. iter[{x}] = x
  BY <1>4, <1>8 DEF step
<1> QED
  BY <1>1, <1>2, <1>9

-----------------------------------------------------------------------------
(* Types *)

Task == [job : JobIds, n : Nat, orphan : Nat, worker : Workers, pc : Pcs,
         todo : SUBSET (Pages \cup Loaded \cup ChunkIds)]

OnePerPage(S) == \A k, l \in S : k.page = l.page => k = l

\* What a task may hold at each point of its handler.
Holds(pc, todo) ==
    \/ pc \in {"pages", "page"} /\ todo \subseteq Pages
    \/ pc = "work" /\ todo \subseteq Loaded /\ OnePerPage(todo)
    \/ pc = "batches" /\ todo \subseteq ChunkIds
    \/ todo = {}

TaskTyped(t) == t \in Task /\ t.job \in DedupKeys /\ Holds(t.pc, t.todo)

DocTyped ==
    /\ status \in DocStatuses
    /\ pageRows \in [Pages -> [full : Nat, empty : Nat]]
    /\ blocks \in [Pages -> Nat]
    /\ chunks \subseteq Chunk
    /\ counted \in BOOLEAN

JobsTyped(T) == T \in Table /\ \A j \in JobIds : Exists(T[j]) => j \in DedupKeys

RestTyped ==
    /\ form \in Formats
    /\ asking \subseteq Request
    /\ overtaken \in BOOLEAN
    /\ operations \in 0 .. MaxOperations
    /\ faults \in 0 .. MaxFaults

\* The runs of the chunking handler whose chunks are about are finitely many, so that
\* the next one has a number.
TypeInv ==
    /\ DocTyped
    /\ JobsTyped(jobs)
    /\ \A t \in tasks : TaskTyped(t)
    /\ IsFiniteSet(UsedRuns)
    /\ deleting \in BOOLEAN
    /\ RestTyped

\* The invariant implies the type invariant of the model.
LEMMA TypeInvTypes == TypeInv => TypeOK
BY DEF TypeInv, DocTyped, JobsTyped, RestTyped, TaskTyped, Task, Holds, TypeOK

\* A step that leaves the setting alone keeps its types.
LEMMA RestKept ==
    ASSUME TypeInv, UNCHANGED setting
    PROVE  RestTyped'
BY DEF TypeInv, RestTyped, setting

\* The keys of the pipeline: a kind and a reason, and a page for a page of its own.
LEMMA KeyParts ==
    ASSUME NEW j \in DedupKeys
    PROVE  /\ j[1] \in PipelineKinds /\ j \in JobIds /\ j[1] \in Kinds /\ j \in Keys
           /\ Len(j) = 3 => j[3] \in Pages
<1>1. ASSUME NEW k \in PipelineKinds, j = StageKey(k) \/ j = ReconcileKey(k)
      PROVE  j[1] = k /\ Len(j) = 2
  BY <1>1 DEF StageKey, ReconcileKey
<1>2. ASSUME NEW p \in Pages, j = PageKey(p)
      PROVE  j[1] = "ocr" /\ j[3] = p
  BY <1>2 DEF PageKey
<1>3. "ocr" \in PipelineKinds
  BY DEF PipelineKinds
<1>4. j[1] \in PipelineKinds /\ (Len(j) = 3 => j[3] \in Pages)
  BY <1>1, <1>2, <1>3 DEF DedupKeys
<1> QED
  BY <1>4, KindsArePipeline, KeysAssumption

\* StageKey and ReconcileKey are keys.
LEMMA StageKeys ==
    \A k \in PipelineKinds :
        /\ StageKey(k) \in DedupKeys /\ StageKey(k) \in JobIds /\ StageKey(k)[1] = k
        /\ ReconcileKey(k) \in DedupKeys /\ ReconcileKey(k) \in JobIds /\ ReconcileKey(k)[1] = k
BY KeysAssumption DEF DedupKeys, StageKey, ReconcileKey

\* So is PageKey.
LEMMA PageKeys == \A p \in Pages : PageKey(p) \in DedupKeys
BY DEF DedupKeys

\* The empty table is a table.
LEMMA EmptyTyped == JobsTyped(EmptyTable)
BY UnusedIsRow DEF JobsTyped, EmptyTable, Table, Exists, Unused

\* Replacing the row of a key of the pipeline keeps a table a table.
LEMMA ReplacedTyped ==
    ASSUME NEW T, JobsTyped(T), NEW key \in DedupKeys, NEW row \in Row
    PROVE  JobsTyped([T EXCEPT ![key] = row])
BY DEF JobsTyped, Table

\* So does an enqueue.
LEMMA InsertTyped ==
    ASSUME NEW T, JobsTyped(T), NEW key \in DedupKeys
    PROVE  JobsTyped(Insert(T, key))
<1>1. key[1] \in Kinds /\ key \in Keys
  BY KeyParts
<1>2. NewRow(key[1], Doc, key) \in Row
  BY <1>1, DocAssumption DEF NewRow, Row, Statuses
<1> QED
  BY <1>2, ReplacedTyped DEF Insert

\* So does a statement about the row of a task.
LEMMA SetRowTyped ==
    ASSUME JobsTyped(jobs), NEW t, TaskTyped(t), NEW row \in Row
    PROVE  JobsTyped(SetRow(t, row))
BY ReplacedTyped DEF SetRow, TaskTyped

\* A task that moves on is a task.
LEMMA MovedTyped ==
    ASSUME \A u \in tasks : TaskTyped(u), NEW t \in tasks, NEW pc \in Pcs,
           NEW todo \in SUBSET (Pages \cup Loaded \cup ChunkIds), Holds(pc, todo)
    PROVE  \A u \in Moved(t, pc, todo) : TaskTyped(u)
<1> DEFINE r == [t EXCEPT !.pc = pc]
           u == [r EXCEPT !.todo = todo]
<1>1. t \in Task /\ t.job \in DedupKeys
  BY DEF TaskTyped
<1>2. r \in Task /\ r.job = t.job /\ r.pc = pc
  BY <1>1 DEF Task
<1>3. [t EXCEPT !.pc = pc, !.todo = todo] = u
  OBVIOUS
<1> HIDE DEF r
<1>4. u \in Task /\ u.job = t.job /\ u.pc = pc /\ u.todo = todo
  BY <1>2 DEF Task
<1> HIDE DEF u
<1>5. TaskTyped(u)
  BY <1>1, <1>4 DEF TaskTyped
<1> QED
  BY <1>3, <1>5 DEF Moved

\* So is one that has nothing to do.
LEMMA GotoTyped ==
    ASSUME \A u \in tasks : TaskTyped(u), NEW t \in tasks, NEW pc \in Pcs, Goto(t, pc)
    PROVE  (\A u \in tasks : TaskTyped(u))'
<1>1. Holds(pc, {})
  BY DEF Holds
<1> QED
  BY <1>1, MovedTyped DEF Goto

\* And an orphan.
LEMMA OrphansTyped ==
    ASSUME \A u \in tasks : TaskTyped(u), NEW n \in Nat,
           tasks' = {[t EXCEPT !.orphan = IF HasRow(t) THEN n ELSE @] : t \in tasks}
    PROVE  (\A u \in tasks : TaskTyped(u))'
<1> SUFFICES ASSUME NEW t \in tasks
             PROVE  TaskTyped([t EXCEPT !.orphan = IF HasRow(t) THEN n ELSE t.orphan])
  OBVIOUS
<1> DEFINE m == IF HasRow(t) THEN n ELSE t.orphan
           u == [t EXCEPT !.orphan = m]
<1>1. t \in Task /\ t.job \in DedupKeys /\ Holds(t.pc, t.todo)
  BY DEF TaskTyped
<1>2. m \in Nat
  BY <1>1 DEF Task
<1> HIDE DEF m
<1>3. u \in Task /\ u.job = t.job /\ u.pc = t.pc /\ u.todo = t.todo
  BY <1>1, <1>2 DEF Task
<1> HIDE DEF u
<1>4. TaskTyped(u)
  BY <1>1, <1>3 DEF TaskTyped
<1> QED
  BY <1>4 DEF u, m

\* The runs whose chunks are about, now and after the step.
LEMMA UsedRunsMembers ==
    /\ \A r : r \in UsedRuns <=>
                 \/ \E c \in chunks : r = c.id.run
                 \/ \E t \in tasks : t.pc = "batches" /\ \E id \in t.todo : r = id.run
    /\ \A r : r \in UsedRuns' <=>
                 \/ \E c \in chunks' : r = c.id.run
                 \/ \E t \in tasks' : t.pc = "batches" /\ \E id \in t.todo : r = id.run
BY DEF UsedRuns

\* No new run: every chunk, and every id a task holds, was there before.
LEMMA RunsKept ==
    ASSUME IsFiniteSet(UsedRuns),
           \A c \in chunks' : \E d \in chunks : c.id = d.id,
           \A t \in tasks' : t.pc = "batches" =>
               \A id \in t.todo : \/ \E u \in tasks : u.pc = "batches" /\ id \in u.todo
                                  \/ \E d \in chunks : d.id = id
    PROVE  IsFiniteSet(UsedRuns)'
<1>1. UsedRuns' \subseteq UsedRuns
  BY UsedRunsMembers
<1> QED
  BY <1>1, FS_Subset

\* A task that moves to another point of its handler, with no ids in its hands.
LEMMA MovedRuns ==
    ASSUME TypeInv, NEW t \in tasks, NEW pc \in Pcs, NEW todo, tasks' = Moved(t, pc, todo),
           pc # "batches" \/ todo = {}, \A c \in chunks' : \E d \in chunks : c.id = d.id
    PROVE  IsFiniteSet(UsedRuns)'
<1>1. t \in Task
  BY DEF TypeInv, TaskTyped
<1> DEFINE u == [t EXCEPT !.pc = pc, !.todo = todo]
<1>2. u.pc = pc /\ u.todo = todo
  BY <1>1 DEF Task
<1> HIDE DEF u
<1>3. \A v \in tasks' : v \in tasks \/ v = u
  BY DEF Moved, u
<1>4. \A v \in tasks' : v.pc = "batches" =>
          \A id \in v.todo : \E w \in tasks : w.pc = "batches" /\ id \in w.todo
  BY <1>2, <1>3
<1> QED
  BY <1>4, RunsKept DEF TypeInv

\* The tasks that are left had their ids before.
LEMMA FewerRuns ==
    ASSUME TypeInv, tasks' \subseteq tasks, \A c \in chunks' : \E d \in chunks : c.id = d.id
    PROVE  IsFiniteSet(UsedRuns)'
BY RunsKept DEF TypeInv

\* A handler's step that only moves its task.
LEMMA OnlyMoved ==
    ASSUME TypeInv, NEW t \in tasks, NEW pc \in Pcs,
           NEW todo \in SUBSET (Pages \cup Loaded \cup ChunkIds), Holds(pc, todo),
           tasks' = Moved(t, pc, todo), pc # "batches" \/ todo = {},
           DocTyped', \A c \in chunks' : \E d \in chunks : c.id = d.id,
           UNCHANGED <<jobs, deleting>>, RestTyped'
    PROVE  TypeInv'
<1>1. IsFiniteSet(UsedRuns)'
  BY MovedRuns
<1>2. (\A u \in tasks : TaskTyped(u))'
  BY MovedTyped DEF TypeInv
<1> QED
  BY <1>1, <1>2 DEF TypeInv, JobsTyped

\* The same with nothing left to do.
LEMMA OnlyWent ==
    ASSUME TypeInv, NEW t \in tasks, NEW pc \in Pcs, Goto(t, pc),
           DocTyped', \A c \in chunks' : \E d \in chunks : c.id = d.id,
           UNCHANGED <<jobs, deleting, setting>>
    PROVE  TypeInv'
<1>1. Holds(pc, {})
  BY DEF Holds
<1>2. RestTyped'
  BY RestKept
<1>3. tasks' = Moved(t, pc, {})
  BY DEF Goto
<1> HIDE DEF setting
<1> QED
  BY <1>1, <1>2, <1>3, OnlyMoved

\* The document with another status, or the same, is the document still.
LEMMA StatusTyped ==
    ASSUME DocTyped, UNCHANGED docVars \/ \E s \in DocStatuses : SetStatus(s)
    PROVE  DocTyped' /\ \A c \in chunks' : \E d \in chunks : c.id = d.id
BY DEF DocTyped, docVars, SetStatus

\* A handler that fails the document.
LEMMA FailTyped ==
    ASSUME TypeInv, NEW t \in tasks, NEW pc \in Pcs, FailDocument(t, pc)
    PROVE  TypeInv'
<1>1. \/ UNCHANGED docVars /\ Goto(t, "retry")
      \/ (\E s \in DocStatuses : SetStatus(s)) /\ Goto(t, pc)
  BY DEF FailDocument, Orphaned, DocStatuses
<1>2. UNCHANGED <<jobs, deleting, setting>> /\ "retry" \in Pcs
  BY DEF FailDocument, Pcs
<1>3. DocTyped' /\ \A c \in chunks' : \E d \in chunks : c.id = d.id
  BY <1>1, StatusTyped DEF TypeInv
<1> QED
  BY <1>1, <1>2, <1>3, OnlyWent

\* The pages a task is to read are pages.
LEMMA PagesOfTyped ==
    ASSUME NEW t, TaskTyped(t)
    PROVE  PagesOf(t) \subseteq Pages
BY KeyParts DEF TaskTyped, PagesOf, SinglePage

\* Each step of the OCR handler keeps the types.
LEMMA OcrTyped ==
    ASSUME TypeInv, NEW t \in tasks, OcrStep(t)
    PROVE  TypeInv'
<1> DEFINE SameChunks == \A c \in chunks' : \E d \in chunks : c.id = d.id
<1>1. TaskTyped(t) /\ DocTyped /\ t \in Task
  BY DEF TypeInv, TaskTyped
<1>2. ASSUME UNCHANGED docVars \/ \E s \in DocStatuses : SetStatus(s),
             UNCHANGED <<jobs, deleting, setting>>, NEW pc \in Pcs, Goto(t, pc)
      PROVE  TypeInv'
  BY <1>1, <1>2, StatusTyped, OnlyWent
<1>3. ASSUME DocTyped', SameChunks, UNCHANGED <<jobs, deleting, setting>>,
             NEW pc \in {"pages", "page"}, NEW todo \in SUBSET Pages,
             tasks' = Moved(t, pc, todo)
      PROVE  TypeInv'
  <2>1. Holds(pc, todo) /\ pc \in Pcs /\ pc # "batches"
    BY <1>3 DEF Holds, Pcs
  <2>2. todo \in SUBSET (Pages \cup Loaded \cup ChunkIds)
    OBVIOUS
  <2>3. RestTyped'
    BY <1>3, RestKept
  <2> QED
    BY <1>3, <2>1, <2>2, <2>3, OnlyMoved
<1>4. "retry" \in Pcs /\ "giveup" \in Pcs /\ "locate" \in Pcs /\ "finish" \in Pcs /\ "pending" \in Pcs
      /\ "count" \in Pcs
  BY DEF Pcs
<1>5. CASE OcrLoad(t)
  BY <1>2, <1>4, <1>5 DEF OcrLoad
<1>6. CASE OcrPending(t)
  <2>1. "ocr_pending" \in DocStatuses
    BY DEF DocStatuses
  <2> QED
    BY <1>2, <1>4, <1>6, <2>1 DEF OcrPending, Orphaned
<1>7. CASE OcrLocate(t)
  <2>1. "ocr_running" \in DocStatuses
    BY DEF DocStatuses
  <2>2. UNCHANGED <<jobs, deleting, setting>>
    BY <1>7 DEF OcrLocate
  <2> QED
    BY <1>2, <1>4, <1>7, <2>1, <2>2 DEF OcrLocate
<1>15. CASE OcrCount(t)
  <2>1. PagesOf(t) \in SUBSET Pages
    BY <1>1, PagesOfTyped
  <2>2. DocTyped' /\ SameChunks
    BY <1>1, <1>15 DEF DocTyped, OcrCount
  <2>3. UNCHANGED <<jobs, deleting, setting>> /\ tasks' = Moved(t, "pages", PagesOf(t))
    BY <1>15 DEF OcrCount
  <2> HIDE DEF SameChunks
  <2> QED
    BY <1>3, <2>1, <2>2, <2>3
<1>8. CASE OcrInputFails(t)
  BY <1>4, <1>8, FailTyped DEF OcrInputFails
<1>9. CASE OcrNextPage(t)
  <2>1. t.todo \in SUBSET Pages
    BY <1>1, <1>9 DEF TaskTyped, Holds, OcrNextPage
  <2>2. DocTyped' /\ SameChunks
    BY <1>1, <1>9, StatusTyped DEF OcrNextPage
  <2> HIDE DEF SameChunks
  <2> QED
    BY <1>3, <1>9, <2>1, <2>2 DEF OcrNextPage
<1>10. CASE OcrCancelled(t)
  <2>1. CancelledRow(jobs[t.job]) \in Row
    BY <1>1, RowStatements DEF TypeInv, JobsTyped, Table, Task
  <2>2. JobsTyped(jobs')
    BY <1>1, <1>10, <2>1, SetRowTyped DEF OcrCancelled, TypeInv
  <2>3. DocTyped' /\ SameChunks /\ tasks' \subseteq tasks /\ UNCHANGED <<deleting, setting>>
    BY <1>1, <1>10, StatusTyped DEF OcrCancelled
  <2>4. IsFiniteSet(UsedRuns)'
    BY <2>3, FewerRuns
  <2> QED
    BY <2>2, <2>3, <2>4, RestKept DEF TypeInv
<1>11. CASE OcrPage(t)
  <2> DEFINE p == Min(t.todo)
  <2>1. t.todo \in SUBSET Pages
    BY <1>1, <1>11 DEF TaskTyped, Holds, OcrPage
  <2>2. PICK r \in PageOutcomes(pageRows[p]) : pageRows' = [pageRows EXCEPT ![p] = r]
    BY <1>11 DEF OcrPage
  <2>3. t.todo \ {p} \in SUBSET Pages /\ tasks' = Moved(t, "pages", t.todo \ {p})
        /\ UNCHANGED <<status, blocks, chunks, counted, jobs, deleting, setting>>
    BY <1>11, <2>1 DEF OcrPage
  <2> HIDE DEF p
  <2>4. p \in Pages => r \in [full : Nat, empty : Nat]
    BY <1>1, <2>2 DEF DocTyped, PageOutcomes
  <2>5. pageRows' \in [Pages -> [full : Nat, empty : Nat]]
    BY <1>1, <2>2, <2>4 DEF DocTyped
  <2>6. DocTyped' /\ SameChunks
    BY <1>1, <2>3, <2>5 DEF DocTyped
  <2> HIDE DEF SameChunks
  <2> QED
    BY <1>3, <2>3, <2>6
<1>12. CASE OcrLoopFails(t)
  BY <1>4, <1>12, FailTyped DEF OcrLoopFails
<1>13. CASE OcrDone(t)
  <2>1. "ocr_done" \in DocStatuses
    BY DEF DocStatuses
  <2> QED
    BY <1>2, <1>4, <1>13, <2>1 DEF OcrDone, Orphaned
<1>14. CASE OcrText(t)
  <2> DEFINE p == Min(Pages)
  <2>1. UNCHANGED <<jobs, deleting, setting>>
    BY <1>14 DEF OcrText
  <2>2. CASE Orphaned(t)
    BY <1>2, <1>4, <2>1, <2>2 DEF Orphaned
  <2>3. CASE status' = "ocr_done" /\ pageRows' = [pageRows EXCEPT ![p].full = @ + 1]
             /\ UNCHANGED <<blocks, chunks, counted>> /\ Goto(t, "finish")
    <3> DEFINE r == [pageRows[p] EXCEPT !.full = pageRows[p].full + 1]
    <3>1. pageRows' = [pageRows EXCEPT ![p] = r]
      BY <2>3
    <3>2. p \in Pages => r \in [full : Nat, empty : Nat]
      BY <1>1 DEF DocTyped
    <3> HIDE DEF p, r
    <3>3. pageRows' \in [Pages -> [full : Nat, empty : Nat]]
      BY <1>1, <3>1, <3>2 DEF DocTyped
    <3>4. DocTyped' /\ SameChunks
      BY <1>1, <2>3, <3>3 DEF DocTyped, DocStatuses
    <3> QED
      BY <1>4, <2>1, <2>3, <3>4, OnlyWent
  <2> QED
    BY <1>14, <2>2, <2>3 DEF OcrText
<1> QED
  BY <1>5, <1>6, <1>7, <1>8, <1>9, <1>10, <1>11, <1>12, <1>13, <1>14, <1>15 DEF OcrStep

\* The spans and blocks that a stage loads, and the chunks without a vector.
LEMMA LoadedTyped ==
    ASSUME DocTyped
    PROVE  /\ SpansLoaded \in SUBSET Loaded /\ OnePerPage(SpansLoaded)
           /\ BlocksLoaded \in SUBSET Loaded /\ OnePerPage(BlocksLoaded)
           /\ Unembedded \in SUBSET ChunkIds
<1>1. \A p \in Pages : pageRows[p].full \in Nat /\ blocks[p] \in Nat
  BY DEF DocTyped
<1>2. SpansLoaded \subseteq Loaded /\ OnePerPage(SpansLoaded)
  BY <1>1 DEF SpansLoaded, Loaded, OnePerPage
<1>3. BlocksLoaded \subseteq Loaded /\ OnePerPage(BlocksLoaded)
  BY <1>1 DEF BlocksLoaded, Loaded, OnePerPage
<1>4. Unembedded \subseteq ChunkIds
  BY DEF DocTyped, Chunk, Unembedded
<1> QED
  BY <1>2, <1>3, <1>4

\* A stage that claims the document, or does not.
LEMMA ClaimsTyped ==
    ASSUME TypeInv, NEW t \in tasks, NEW from, NEW running \in DocStatuses,
           \/ StageClaims(t, from, running, "work", SpansLoaded)
           \/ StageClaims(t, from, running, "work", BlocksLoaded)
           \/ StageClaims(t, from, running, "batches", Unembedded)
    PROVE  TypeInv'
<1>1. DocTyped /\ TaskTyped(t) /\ t \in Task
  BY DEF TypeInv, TaskTyped
<1>2. UNCHANGED docVars \/ \E s \in DocStatuses : SetStatus(s)
  BY DEF StageClaims
<1>3. DocTyped' /\ \A c \in chunks' : \E d \in chunks : c.id = d.id
  BY <1>1, <1>2, StatusTyped
<1>4. UNCHANGED <<jobs, deleting, setting>>
  BY DEF StageClaims
<1>5. RestTyped'
  BY <1>4, RestKept
<1>6. "work" \in Pcs /\ "batches" \in Pcs /\ "finish" \in Pcs
  BY DEF Pcs
<1>7. CASE Goto(t, "finish")
  BY <1>3, <1>4, <1>6, <1>7, OnlyWent
<1>8. ASSUME NEW todo \in SUBSET Loaded, OnePerPage(todo), tasks' = Moved(t, "work", todo)
      PROVE  TypeInv'
  <2>1. Holds("work", todo) /\ todo \in SUBSET (Pages \cup Loaded \cup ChunkIds)
    BY <1>8 DEF Holds
  <2> QED
    BY <1>3, <1>4, <1>5, <1>6, <1>8, <2>1, OnlyMoved
<1>9. CASE tasks' = Moved(t, "batches", Unembedded)
  <2>1. Unembedded \in SUBSET ChunkIds
    BY <1>1, LoadedTyped
  <2>2. Holds("batches", Unembedded) /\ Unembedded \in SUBSET (Pages \cup Loaded \cup ChunkIds)
    BY <2>1 DEF Holds
  <2>3. (\A u \in tasks : TaskTyped(u))'
    BY <1>6, <1>9, <2>2, MovedTyped DEF TypeInv
  <2> DEFINE u == [t EXCEPT !.pc = "batches", !.todo = Unembedded]
  <2>4. u.todo = Unembedded
    BY <1>1 DEF Task
  <2> HIDE DEF u
  <2>5. \A v \in tasks' : v \in tasks \/ v = u
    BY <1>9 DEF Moved, u
  <2>6. \A v \in tasks' : v.pc = "batches" =>
            \A id \in v.todo : \/ \E w \in tasks : w.pc = "batches" /\ id \in w.todo
                               \/ \E d \in chunks : d.id = id
    BY <2>4, <2>5 DEF Unembedded
  <2>7. IsFiniteSet(UsedRuns)'
    BY <1>3, <2>6, RunsKept DEF TypeInv
  <2> QED
    BY <1>3, <1>4, <1>5, <2>3, <2>7 DEF TypeInv, JobsTyped
<1>10. \/ Goto(t, "finish") \/ tasks' = Moved(t, "work", SpansLoaded)
       \/ tasks' = Moved(t, "work", BlocksLoaded) \/ tasks' = Moved(t, "batches", Unembedded)
  BY DEF StageClaims
<1>11. /\ SpansLoaded \in SUBSET Loaded /\ OnePerPage(SpansLoaded)
       /\ BlocksLoaded \in SUBSET Loaded /\ OnePerPage(BlocksLoaded)
  BY <1>1, LoadedTyped
<1> QED
  BY <1>7, <1>8, <1>9, <1>10, <1>11

\* The copies of a page in what layout has loaded are counted once.
LEMMA CopiesOfPage ==
    ASSUME NEW loaded \in SUBSET Loaded, OnePerPage(loaded), NEW p \in Pages
    PROVE  LET S == {s.copies : s \in {l \in loaded : l.page = p}} IN
           /\ SumSet(S) \in Nat
           /\ \A l \in loaded : l.page = p => SumSet(S) = l.copies
           /\ (\A l \in loaded : l.page # p) => SumSet(S) = 0
<1> DEFINE S == {s.copies : s \in {l \in loaded : l.page = p}}
<1>1. ASSUME \A l \in loaded : l.page # p PROVE S = {}
  BY <1>1
<1>2. ASSUME NEW l \in loaded, l.page = p PROVE S = {l.copies} /\ l.copies \in Nat
  BY <1>2 DEF OnePerPage, Loaded
<1>3. ASSUME NEW l \in loaded, l.page = p PROVE SumSet(S) = l.copies /\ SumSet(S) \in Nat
  BY <1>2, <1>3, SumOfOne
<1> HIDE DEF S
<1>4. SumSet({}) = 0 /\ SumSet({}) \in Nat
  <2>1. 0 \in Nat
    OBVIOUS
  <2>2. SumSet({}) = 0
    BY <2>1, SumOfOne, Zenon
  <2> QED
    BY <2>1, <2>2
<1>5. SumSet(S) \in Nat
  BY <1>1, <1>3, <1>4, Zenon
<1>6. /\ SumSet(S) \in Nat
      /\ \A l \in loaded : l.page = p => SumSet(S) = l.copies
      /\ (\A l \in loaded : l.page # p) => SumSet(S) = 0
  BY <1>1, <1>3, <1>4, <1>5, Zenon
<1> QED
  BY <1>6 DEF S

\* Layout keeps the types.
LEMMA LayoutTyped ==
    ASSUME TypeInv, NEW t \in tasks, LayoutWork(t)
    PROVE  TypeInv'
<1>1. DocTyped /\ TaskTyped(t)
  BY DEF TypeInv
<1>2. t.todo \in SUBSET Loaded /\ OnePerPage(t.todo)
  BY <1>1 DEF LayoutWork, TaskTyped, Holds, OnePerPage
<1>3. "finish" \in Pcs /\ Goto(t, "finish") /\ UNCHANGED <<jobs, deleting, setting>>
  BY DEF LayoutWork, Pcs
<1>4. CASE SetStatus("failed")
  <2>1. "failed" \in DocStatuses
    BY DEF DocStatuses
  <2>2. DocTyped' /\ \A c \in chunks' : \E d \in chunks : c.id = d.id
    BY <1>1, <1>4, <2>1, StatusTyped
  <2> QED
    BY <1>3, <2>2, OnlyWent
<1>5. CASE LayoutDone(t.todo)
  <2> DEFINE sum(p) == SumSet({s.copies : s \in {l \in t.todo : l.page = p}})
  <2>1. \A p \in Pages : sum(p) \in Nat
    BY <1>2, CopiesOfPage
  <2>2. blocks' = IF form = "blank" THEN blocks ELSE [p \in Pages |-> blocks[p] + sum(p)]
    BY <1>5 DEF LayoutDone
  <2> HIDE DEF sum
  <2>3. blocks' \in [Pages -> Nat]
    BY <1>1, <2>1, <2>2 DEF DocTyped
  <2>4. DocTyped' /\ \A c \in chunks' : \E d \in chunks : c.id = d.id
    BY <1>1, <1>5, <2>3 DEF DocTyped, LayoutDone, DocStatuses
  <2> QED
    BY <1>3, <2>4, OnlyWent
<1> QED
  BY <1>4, <1>5 DEF LayoutWork

\* What a run of chunking inserts.
LEMMA NewChunksTyped ==
    ASSUME TypeInv, NEW loaded \in SUBSET Loaded
    PROVE  /\ NewChunks(loaded) \subseteq Chunk
           /\ \E n \in Nat : \A c \in NewChunks(loaded) : c.id.run = n
<1> DEFINE run == Min((1 .. Cardinality(UsedRuns) + 1) \ UsedRuns)
<1>1. run \in Nat
  BY FreshNumber DEF TypeInv
<1>2. NewChunks(loaded) = {[id |-> [run |-> run, page |-> l.page], copies |-> l.copies, embedded |-> FALSE]
        : l \in loaded}
  BY DEF NewChunks
<1> HIDE DEF run
<1>3. \A l \in loaded : l.page \in Pages /\ l.copies \in Nat
  BY DEF Loaded
<1>4. \A l \in loaded : [id |-> [run |-> run, page |-> l.page], copies |-> l.copies, embedded |-> FALSE] \in Chunk
  BY <1>1, <1>3 DEF Chunk, ChunkIds
<1> QED
  BY <1>1, <1>2, <1>4

\* Chunking keeps the types.
LEMMA ChunkingTyped ==
    ASSUME TypeInv, NEW t \in tasks, ChunkingWork(t)
    PROVE  TypeInv'
<1>1. DocTyped /\ TaskTyped(t) /\ t \in Task
  BY DEF TypeInv, TaskTyped
<1>2. t.todo \in SUBSET Loaded
  BY <1>1 DEF ChunkingWork, TaskTyped, Holds
<1>3. PICK n \in Nat : \A c \in NewChunks(t.todo) : c.id.run = n
  BY <1>2, NewChunksTyped
<1>4. NewChunks(t.todo) \subseteq Chunk
  BY <1>2, NewChunksTyped
<1>5. /\ status' = "chunking_done" /\ chunks' = chunks \cup NewChunks(t.todo)
      /\ UNCHANGED <<pageRows, blocks, counted, jobs, deleting, setting>> /\ Goto(t, "finish")
  BY DEF ChunkingWork
<1> HIDE DEF NewChunks
<1>6. DocTyped'
  BY <1>1, <1>4, <1>5 DEF DocTyped, DocStatuses
<1>7. (\A u \in tasks : TaskTyped(u))'
  BY <1>5, GotoTyped DEF TypeInv, Pcs
<1>8. IsFiniteSet(UsedRuns)'
  <2> DEFINE u == [t EXCEPT !.pc = "finish", !.todo = {}]
  <2>1. u.pc = "finish"
    BY <1>1 DEF Task
  <2> HIDE DEF u
  <2>2. \A v \in tasks' : v \in tasks \/ v = u
    BY <1>5 DEF Goto, Moved, u
  <2>3. UsedRuns' \subseteq UsedRuns \cup {n}
    BY <1>3, <1>5, <2>1, <2>2, UsedRunsMembers
  <2>4. IsFiniteSet(UsedRuns \cup {n})
    BY FS_AddElement DEF TypeInv
  <2> QED
    BY <2>3, <2>4, FS_Subset
<1> QED
  BY <1>5, <1>6, <1>7, <1>8, RestKept DEF TypeInv, JobsTyped

\* Each step of the layout, chunking and embedding handlers keeps the types.
LEMMA StageTyped ==
    ASSUME TypeInv, NEW t \in tasks, StageStep(t)
    PROVE  TypeInv'
<1>1. DocTyped /\ TaskTyped(t) /\ t \in Task
  BY DEF TypeInv, TaskTyped
<1>2. CASE StageFails(t)
  BY <1>2, FailTyped DEF StageFails, Pcs
<1>3. CASE LayoutClaim(t) \/ ChunkingClaim(t) \/ EmbeddingClaim(t)
  BY <1>3, ClaimsTyped DEF LayoutClaim, ChunkingClaim, EmbeddingClaim, DocStatuses
<1>4. CASE EmbeddingDone(t)
  <2>1. "ready" \in DocStatuses /\ "finish" \in Pcs
    BY DEF DocStatuses, Pcs
  <2>2. DocTyped' /\ \A c \in chunks' : \E d \in chunks : c.id = d.id
    BY <1>1, <1>4, <2>1, StatusTyped DEF EmbeddingDone
  <2> QED
    BY <1>4, <2>1, <2>2, OnlyWent DEF EmbeddingDone
<1>5. ASSUME NEW id \in t.todo, EmbeddingBatch(t, id) PROVE TypeInv'
  <2>1. t.todo \in SUBSET ChunkIds
    BY <1>1, <1>5 DEF EmbeddingBatch, TaskTyped, Holds
  <2>2. /\ chunks' = {IF c.id = id THEN [c EXCEPT !.embedded = TRUE] ELSE c : c \in chunks}
        /\ tasks' = Moved(t, "batches", t.todo \ {id}) /\ t.pc = "batches"
        /\ UNCHANGED <<status, pageRows, blocks, counted, jobs, deleting, setting>>
    BY <1>5 DEF EmbeddingBatch
  <2>3. \A c \in chunks : /\ [c EXCEPT !.embedded = TRUE] \in Chunk
                          /\ [c EXCEPT !.embedded = TRUE].id = c.id
    BY <1>1 DEF DocTyped, Chunk
  <2>4. DocTyped' /\ \A c \in chunks' : \E d \in chunks : c.id = d.id
    BY <1>1, <2>2, <2>3 DEF DocTyped
  <2>5. t.todo \ {id} \in SUBSET (Pages \cup Loaded \cup ChunkIds)
          /\ Holds("batches", t.todo \ {id}) /\ "batches" \in Pcs
    BY <2>1 DEF Holds, Pcs
  <2>6. (\A u \in tasks : TaskTyped(u))'
    BY <2>2, <2>5, MovedTyped DEF TypeInv
  <2> DEFINE u == [t EXCEPT !.pc = "batches", !.todo = t.todo \ {id}]
  <2>7. u.todo = t.todo \ {id}
    BY <1>1 DEF Task
  <2> HIDE DEF u
  <2>8. \A v \in tasks' : v \in tasks \/ v = u
    BY <2>2 DEF Moved, u
  <2>9. IsFiniteSet(UsedRuns)'
    BY <2>2, <2>4, <2>7, <2>8, RunsKept DEF TypeInv
  <2> QED
    BY <2>2, <2>4, <2>6, <2>9, RestKept DEF TypeInv, JobsTyped
<1> QED
  BY <1>2, <1>3, <1>4, <1>5, LayoutTyped, ChunkingTyped DEF StageStep

\* A step that keeps the document and ends or keeps the tasks.
LEMMA JobsOnly ==
    ASSUME TypeInv, JobsTyped(jobs'), tasks' \subseteq tasks, UNCHANGED docVars,
           deleting' \in BOOLEAN, RestTyped'
    PROVE  TypeInv'
<1>1. DocTyped' /\ \A c \in chunks' : \E d \in chunks : c.id = d.id
  BY StatusTyped DEF TypeInv
<1>2. IsFiniteSet(UsedRuns)'
  BY <1>1, FewerRuns
<1> QED
  BY <1>1, <1>2 DEF TypeInv

\* The queue keeps the types: a job is claimed, ...
LEMMA ClaimTyped ==
    ASSUME TypeInv, NEW w \in Workers, NEW j \in JobIds, Claim(w, j)
    PROVE  TypeInv'
<1>1. jobs[j] \in Row /\ Exists(jobs[j]) /\ jobs[j].attempts + 1 \in Nat
  BY DEF TypeInv, JobsTyped, Table, Row, Claim, Claimable, Exists
<1>2. j \in DedupKeys /\ ClaimedRow(jobs[j], w) \in Row
  BY <1>1, RowStatements DEF TypeInv, JobsTyped
<1>3. JobsTyped(jobs')
  BY <1>2, ReplacedTyped DEF Claim, TypeInv
<1> DEFINE u == [job |-> j, n |-> jobs[j].attempts + 1, orphan |-> 0, worker |-> w,
                 pc |-> "start", todo |-> {}]
<1>4. TaskTyped(u) /\ u.pc = "start"
  BY <1>1, <1>2 DEF TaskTyped, Task, Holds, Pcs
<1>5. tasks' = tasks \cup {u} /\ UNCHANGED <<docVars, deleting, setting>>
  BY DEF Claim
<1> HIDE DEF u
<1>6. DocTyped' /\ \A c \in chunks' : \E d \in chunks : c.id = d.id
  BY <1>5, StatusTyped DEF TypeInv
<1>7. IsFiniteSet(UsedRuns)'
  BY <1>4, <1>5, <1>6, RunsKept DEF TypeInv
<1> QED
  BY <1>3, <1>4, <1>5, <1>6, <1>7, RestKept DEF TypeInv

\* ... completed, failed or sent to the next stage, or heartbeats.
LEMMA QueueTyped ==
    ASSUME TypeInv, NEW t \in tasks, Finish(t) \/ Raise(t) \/ Heartbeat(t)
    PROVE  TypeInv'
<1>1. TaskTyped(t) /\ t.worker \in Workers /\ JobsTyped(jobs) /\ jobs[t.job] \in Row
  BY DEF TypeInv, TaskTyped, Task, JobsTyped, Table
<1>2. /\ CompletedRow(jobs[t.job]) \in Row
      /\ \A b \in BOOLEAN : FailedRow(jobs[t.job], b) \in Row
      /\ HeartbeatRow(jobs[t.job], t.worker) \in Row
  BY <1>1, RowStatements
<1>3. JobsTyped(Completed(t))
  BY <1>1, <1>2, SetRowTyped DEF Completed
<1>4. JobsTyped(jobs')
  <2>1. CASE Finish(t)
    <3>1. NextKind[KindOf(t)] \in PipelineKinds \/ KindOf(t) \notin DOMAIN NextKind
      BY DEF NextKind, PipelineKinds
    <3> QED
      BY <1>3, <2>1, <3>1, StageKeys, InsertTyped DEF Finish
  <2>2. CASE Raise(t)
    BY <1>1, <1>2, <2>2, SetRowTyped DEF Raise
  <2>3. CASE Heartbeat(t)
    BY <1>1, <1>2, <2>3, SetRowTyped DEF Heartbeat
  <2> QED
    BY <2>1, <2>2, <2>3
<1>5. UNCHANGED <<docVars, deleting, setting>> /\ tasks' \subseteq tasks
  BY DEF Finish, Raise, Heartbeat
<1> QED
  BY <1>4, <1>5, JobsOnly, RestKept DEF TypeInv

\* A fault is counted within its bound, and a call, whatever it asks.
LEMMA Counted ==
    ASSUME TypeInv, \/ (\E op \in Operations : Call(op)) /\ (asking' \subseteq Request)
                    \/ \E f \in Faults : Fault(f)
    PROVE  RestTyped'
BY BoundsAssumption DEF TypeInv, RestTyped, Call, Fault

\* A request that ends its turn.
LEMMA Wrote ==
    ASSUME TypeInv, asking' \subseteq Request, overtaken' \in BOOLEAN,
           UNCHANGED <<form, operations, faults>>
    PROVE  RestTyped'
BY DEF TypeInv, RestTyped

\* The document loses its pages, blocks and chunks, and its jobs with them.
LEMMA WipedTyped ==
    ASSUME TypeInv, NEW s \in DocStatuses, status' = s,
           pageRows' \in [Pages -> [full : Nat, empty : Nat]],
           blocks' = NoBlocks, chunks' = {}, counted' \in BOOLEAN, JobsTyped(jobs'),
           NEW n \in Nat, OrphanTasks(n),
           deleting' \in BOOLEAN, RestTyped'
    PROVE  TypeInv'
<1>1. DocTyped'
  BY DEF DocTyped, NoBlocks
<1>3. (\A u \in tasks : TaskTyped(u))'
  BY OrphansTyped DEF TypeInv, OrphanTasks
<1>4. \A t \in tasks : LET u == [t EXCEPT !.orphan = IF HasRow(t) THEN n ELSE @] IN
                       u.pc = t.pc /\ u.todo = t.todo
  BY DEF TypeInv, TaskTyped, Task
<1>5. \A u \in tasks' : \E t \in tasks : u.pc = t.pc /\ u.todo = t.todo
  BY <1>4 DEF OrphanTasks
<1>6. IsFiniteSet(UsedRuns)'
  BY <1>5, RunsKept DEF TypeInv
<1> QED
  BY <1>1, <1>3, <1>6 DEF TypeInv

\* No pages are pages.
LEMMA NoRowsTyped == NoRows \in [Pages -> [full : Nat, empty : Nat]]
BY DEF NoRows

\* The HTTP operations keep the types.
LEMMA HttpTyped ==
    ASSUME TypeInv, HttpStep
    PROVE  TypeInv'
<1>1. JobsTyped(jobs) /\ "ocr" \in PipelineKinds /\ StageKey("ocr") \in DedupKeys
  BY StageKeys DEF TypeInv, PipelineKinds
<1>2. JobsTyped(Insert(jobs, StageKey("ocr"))) /\ JobsTyped(Insert(EmptyTable, StageKey("ocr")))
  BY <1>1, EmptyTyped, InsertTyped
<1>3. \A s \in DocStatuses : SetStatus(s) =>
          DocTyped' /\ \A c \in chunks' : \E d \in chunks : c.id = d.id
  BY StatusTyped DEF TypeInv
<1>4. {"uploaded", "ocr_done", "deleted"} \subseteq DocStatuses
  BY DEF DocStatuses
<1>5. CASE Upload \/ Reupload
  <2>1. JobsTyped(jobs') /\ UNCHANGED <<tasks, deleting>> /\ SetStatus("uploaded")
    BY <1>2, <1>5 DEF Upload, Reupload
  <2>2. RestTyped'
    <3>1. CASE Upload
      BY <3>1, RestKept DEF Upload
    <3>2. CASE Reupload
      BY <3>2, Counted DEF Reupload, Call, TypeInv, RestTyped
    <3> QED
      BY <1>5, <3>1, <3>2
  <2>3. DocTyped' /\ \A c \in chunks' : \E d \in chunks : c.id = d.id
    BY <1>3, <1>4, <2>1
  <2>4. IsFiniteSet(UsedRuns)'
    BY <2>1, <2>3, FewerRuns
  <2> QED
    BY <2>1, <2>2, <2>3, <2>4 DEF TypeInv
<1>6. CASE RetryChecks \/ \E p \in Pages : ReextractChecks(p)
  <2>1. asking \subseteq Request /\ operations + 1 \in Nat
    BY DEF TypeInv, RestTyped
  <2>2. PICK p \in Pages \cup {0} : Asks(p)
    BY <1>6 DEF RetryChecks, ReextractChecks
  <2>3. asking' \subseteq Request
    <3>1. [n |-> operations + 1, page |-> p, found |-> TRUE] \in Request
      BY <2>1 DEF Request
    <3> QED
      BY <2>1, <2>2, <3>1 DEF Asks
  <2>4. \E op \in Operations : Call(op)
    <3>1. Call("retry") \/ Call("force") \/ Call("reextract")
      BY <1>6 DEF RetryChecks, ReextractChecks
    <3>2. \A op : Call(op) => op \in Operations
      BY DEF Call
    <3> QED
      BY <3>1, <3>2
  <2>5. RestTyped'
    BY <2>3, <2>4, Counted
  <2>6. UNCHANGED <<docVars, jobs, tasks, deleting>>
    BY <1>6 DEF RetryChecks, ReextractChecks
  <2> QED
    BY <1>1, <2>5, <2>6, JobsOnly DEF TypeInv
<1>7. ASSUME NEW r \in asking, RetryWrites(r) PROVE TypeInv'
  <2>1. asking \subseteq Request /\ r.n \in Nat /\ overtaken' \in BOOLEAN
    BY <1>7 DEF TypeInv, RestTyped, Request, RetryWrites, Overtakes
  <2>2. \A q \in Request : [q EXCEPT !.found = FALSE] \in Request
    BY DEF Request
  <2>3. asking' \subseteq Request /\ UNCHANGED <<form, operations, faults>>
    BY <1>7, <2>1, <2>2 DEF RetryWrites
  <2>4. RestTyped'
    BY <2>1, <2>3, Wrote
  <2>5. /\ status' = "uploaded" /\ pageRows' = NoRows /\ blocks' = NoBlocks /\ chunks' = {}
        /\ counted' = FALSE
        /\ OrphanTasks(r.n) /\ deleting' = deleting /\ jobs' = Insert(EmptyTable, StageKey("ocr"))
    BY <1>7 DEF RetryWrites
  <2> QED
    BY <1>2, <1>4, <2>1, <2>4, <2>5, NoRowsTyped, WipedTyped DEF TypeInv
<1>11. ASSUME NEW r \in asking, ReextractWrites(r) PROVE TypeInv'
  <2> DEFINE p == r.page
  <2>1. asking \subseteq Request /\ r.n \in Nat /\ overtaken' \in BOOLEAN /\ p \in Pages
    BY <1>11 DEF TypeInv, RestTyped, Request, ReextractWrites, Overtakes
  <2>2. RestTyped'
    BY <1>11, <2>1, Wrote DEF ReextractWrites
  <2>3. /\ status' = "ocr_done" /\ blocks' = NoBlocks /\ chunks' = {} /\ counted' = counted
        /\ OrphanTasks(r.n) /\ deleting' = deleting /\ jobs' = Insert(EmptyTable, PageKey(p))
    BY <1>11 DEF ReextractWrites
  <2>4. PICK row \in RowEmptied(pageRows[p]) \cup {pageRows[p]} :
            pageRows' = [pageRows EXCEPT ![p] = row]
    BY <1>11 DEF ReextractWrites
  <2> HIDE DEF p
  <2>5. pageRows[p] \in [full : Nat, empty : Nat]
    BY <2>1 DEF TypeInv, DocTyped
  <2>6. row \in [full : Nat, empty : Nat]
    BY <2>4, <2>5 DEF RowEmptied
  <2>7. pageRows' \in [Pages -> [full : Nat, empty : Nat]]
    BY <2>4, <2>6 DEF TypeInv, DocTyped
  <2>8. JobsTyped(jobs')
    BY <2>1, <2>3, EmptyTyped, InsertTyped, PageKeys
  <2>9. counted \in BOOLEAN /\ deleting \in BOOLEAN
    BY DEF TypeInv, DocTyped
  <2> QED
    BY <1>4, <2>1, <2>2, <2>3, <2>7, <2>8, <2>9, WipedTyped
<1>12. ASSUME NEW r \in asking, RequestDies(r) PROVE TypeInv'
  <2>1. RestTyped'
    BY <1>12, Wrote DEF RequestDies, TypeInv, RestTyped
  <2> QED
    BY <1>1, <1>12, <2>1, JobsOnly DEF RequestDies, TypeInv
<1>8. CASE RequestDelete
  <2>1. JobsTyped(jobs')
    BY <1>1, <1>8, RowStatements DEF RequestDelete, CancelRequestedForDocument, JobsTyped, Table,
       Exists, FlaggedRow
  <2>2. RestTyped'
    BY <1>8, Counted DEF RequestDelete, Call, TypeInv, RestTyped
  <2> QED
    BY <1>8, <2>1, <2>2, JobsOnly DEF RequestDelete
<1>9. CASE DeleteRows
  <2>1. /\ status' = "deleted" /\ pageRows' = NoRows /\ blocks' = NoBlocks /\ chunks' = {}
        /\ OrphanTasks(operations + 1) /\ deleting' = FALSE /\ jobs' = EmptyTable
        /\ counted' = FALSE /\ UNCHANGED setting
    BY <1>9 DEF DeleteRows
  <2>2. RestTyped' /\ operations + 1 \in Nat
    BY <2>1, RestKept DEF TypeInv, RestTyped
  <2> QED
    BY <1>4, <2>1, <2>2, EmptyTyped, NoRowsTyped, WipedTyped
<1>10. CASE DeleteTimesOut
  BY <1>1, <1>10, JobsOnly, RestKept DEF DeleteTimesOut, TypeInv
<1> QED
  BY <1>5, <1>6, <1>7, <1>8, <1>9, <1>10, <1>11, <1>12 DEF HttpStep

\* The reconciler's sweep keeps a table a table.
LEMMA ReclaimTyped ==
    ASSUME JobsTyped(jobs)
    PROVE  JobsTyped(AfterReclaim)
<1>1. \A j \in JobIds : ReclaimedRow(jobs[j]) \in Row
  BY RowStatements DEF JobsTyped, Table
<1>2. \A j \in JobIds : Exists(ReclaimedRow(jobs[j])) => Exists(jobs[j])
  BY DEF ReclaimedRow, Stuck, Exists
<1> QED
  BY <1>1, <1>2 DEF JobsTyped, Table, AfterReclaim

\* Faults and time keep the types.
LEMMA TimeTyped ==
    ASSUME TypeInv,
           \/ TimeStep \/ (\E w \in Workers : Crash(w)) \/ (\E t \in tasks : StageAborts(t))
    PROVE  TypeInv'
<1>1. ASSUME NEW j \in JobIds, Late(j) PROVE JobsTyped(jobs')
  <2> DEFINE row == [jobs[j] EXCEPT !.fresh = FALSE]
  <2>1. jobs[j] \in Row
    BY DEF TypeInv, JobsTyped, Table
  <2>2. row \in Row
    BY <2>1 DEF Row
  <2>3. j \in DedupKeys
    BY <1>1 DEF Late, TypeInv, JobsTyped, Exists
  <2>4. jobs' = [jobs EXCEPT ![j] = row]
    BY <1>1 DEF Late
  <2> HIDE DEF row
  <2> QED
    BY <2>2, <2>3, <2>4, ReplacedTyped DEF TypeInv
<1>2. CASE \E j \in JobIds : LeaseExpires(j)
  BY <1>1, <1>2, JobsOnly, RestKept DEF LeaseExpires, Late, TypeInv
<1>3. CASE \E j \in JobIds : LeaseLapses(j)
  <2>1. RestTyped'
    BY <1>3, Counted DEF LeaseLapses, Fault
  <2> QED
    BY <1>1, <1>3, <2>1, JobsOnly DEF LeaseLapses, Late, TypeInv
<1>4. CASE Reconcile
  <2>1. JobsTyped(AfterReclaim)
    BY ReclaimTyped DEF TypeInv
  <2>2. status \in DOMAIN NextStage => NextStage[status] \in PipelineKinds
    BY DEF NextStage, PipelineKinds
  <2>3. JobsTyped(jobs')
    BY <1>4, <2>1, <2>2, StageKeys, InsertTyped DEF Reconcile, Partial
  <2> QED
    BY <1>4, <2>3, JobsOnly, RestKept DEF Reconcile, TypeInv
<1>5. CASE \E w \in Workers : Crash(w)
  <2>1. RestTyped'
    BY <1>5, Counted DEF Crash, Fault
  <2>2. tasks' \subseteq tasks /\ UNCHANGED <<docVars, jobs, deleting>>
    BY <1>5 DEF Crash
  <2> QED
    BY <2>1, <2>2, JobsOnly DEF TypeInv
<1>6. ASSUME NEW t \in tasks, StageAborts(t) PROVE TypeInv'
  <2>1. RestTyped'
    BY <1>6, Counted DEF StageAborts, Fault
  <2>2. tasks' = Moved(t, "retry", {}) /\ UNCHANGED <<docVars, jobs, deleting>>
    BY <1>6 DEF StageAborts, Goto
  <2>3. DocTyped' /\ \A c \in chunks' : \E d \in chunks : c.id = d.id
    BY <2>2, StatusTyped DEF TypeInv
  <2>4. Holds("retry", {}) /\ "retry" \in Pcs
    BY DEF Holds, Pcs
  <2> QED
    BY <2>1, <2>2, <2>3, <2>4, OnlyMoved
<1> QED
  BY <1>2, <1>3, <1>4, <1>5, <1>6 DEF TimeStep

\* The types hold before the upload.
LEMMA InitTyped == Init => TypeInv
<1> SUFFICES ASSUME Init PROVE TypeInv
  OBVIOUS
<1>1. DocTyped
  BY NoRowsTyped DEF Init, DocTyped, DocStatuses, NoBlocks
<1>2. UsedRuns = {}
  BY UsedRunsMembers DEF Init
<1>3. IsFiniteSet(UsedRuns)
  BY <1>2, FS_EmptySet
<1>4. 0 \in 0 .. MaxOperations /\ 0 \in 0 .. MaxFaults
  BY BoundsAssumption
<1>5. JobsTyped(jobs)
  BY EmptyTyped DEF Init
<1> QED
  BY <1>1, <1>3, <1>4, <1>5 DEF Init, TypeInv, RestTyped

\* Every step keeps the types.
LEMMA StepTyped == TypeInv /\ [Next]_vars => TypeInv'
<1> SUFFICES ASSUME TypeInv, [Next]_vars PROVE TypeInv'
  OBVIOUS
<1>1. CASE UNCHANGED vars
  <2>1. UNCHANGED <<docVars, tasks, deleting, setting, jobs>>
    BY <1>1 DEF vars
  <2> QED
    BY <2>1, JobsOnly, RestKept DEF TypeInv
<1>2. CASE HttpStep
  BY <1>2, HttpTyped
<1>3. CASE WorkerStep
  BY <1>3, ClaimTyped, OcrTyped, StageTyped, QueueTyped, TimeTyped DEF WorkerStep, HandlerStep
<1>4. CASE TimeStep
  BY <1>4, TimeTyped
<1> QED
  BY <1>1, <1>2, <1>3, <1>4 DEF Next

\* The invariant of the types holds in every state.
LEMMA TypesAlways == Spec => []TypeInv
BY InitTyped, StepTyped, PTL DEF Spec

\* Whatever operations are called and whatever fails, the document, its rows, its jobs
\* and the handlers have their types: every run of chunking finds a number that is not
\* taken, and every job an operation or the reconciler enqueues is one of the document's.
THEOREM PipelineTypes == Spec => []TypeOK
BY TypesAlways, TypeInvTypes, PTL

-----------------------------------------------------------------------------
(* Crashes, aborted statements, uploads and deletions *)

\* The faults and operations that leave a document to one handler at a time: workers die,
\* statements fail, users upload the content again and delete the document, but no
\* handler outlives its lease, and nobody sends the document back while it is handled.
OneAtATime == "lapse" \notin Faults /\ Operations \subseteq {"reupload", "delete"}

PlainKeys == {StageKey(k) : k \in PipelineKinds} \cup {ReconcileKey(k) : k \in PipelineKinds}

\* Every job is about the whole document.
WholeDocument ==
    /\ \A j \in JobIds : Exists(jobs[j]) => j \in PlainKeys
    /\ \A t \in tasks : t.job \in PlainKeys

\* The statuses a document may have while a job of a kind is open.
Fits(kind, s) ==
    \/ s \in {"uploaded", "failed"} /\ kind \in PipelineKinds
    \/ s \in {"ocr_pending", "ocr_running"} /\ kind = "ocr"
    \/ s = "ocr_done" /\ kind \in {"ocr", "layout"}
    \/ s = "layout_running" /\ kind \in {"layout", "chunking", "embedding"}
    \/ s = "layout_done" /\ kind \in {"layout", "chunking"}
    \/ s = "chunking_running" /\ kind \in {"chunking", "embedding"}
    \/ s = "chunking_done" /\ kind \in {"chunking", "embedding"}
    \/ s \in {"embedding_running", "ready"} /\ kind = "embedding"

\* What a handler at a point of its code may rely on.
AtPoint(kind, pc, todo) ==
    \/ pc \in {"start", "retry", "giveup"} /\ Fits(kind, status)
    \/ pc = "finish" /\ Fits(kind, status)
         /\ (kind \in DOMAIN NextKind => Fits(NextKind[kind], status))
    \/ pc = "pending" /\ kind = "ocr"
         /\ status \in {"uploaded", "failed", "ocr_pending", "ocr_running"}
    \/ pc = "locate" /\ kind = "ocr" /\ status = "ocr_pending"
    \/ pc \in {"count", "pages", "page"} /\ kind = "ocr" /\ status = "ocr_running"
    \/ pc = "work" /\ kind = "layout" /\ status = "layout_running" /\ todo = SpansLoaded
    \/ pc = "work" /\ kind = "chunking" /\ status = "chunking_running" /\ todo = BlocksLoaded
    \/ pc = "batches" /\ kind = "embedding" /\ status = "embedding_running"
         /\ Unembedded \subseteq todo

\* The text of every page is in the blocks, in the chunks.
BlocksWhole == \A p \in Readable : blocks[p] > 0
ChunksWhole == \A p \in Readable : \E c \in chunks : c.id.page = p

\* Blocks and chunks are made of text that is there.
TextOnly ==
    /\ \A p \in Pages : blocks[p] > 0 => p \in Readable
    /\ \A c \in chunks : c.id.page \in Readable

TextWhole ==
    /\ TextOnly
    /\ status \in {"layout_done", "chunking_running"} => BlocksWhole
    /\ status \in {"chunking_done", "embedding_running", "ready"} => ChunksWhole
    /\ status = "ready" => \A c \in chunks : c.embedded

\* A task holds its row.
HeldRow(t) ==
    /\ t.orphan = 0
    /\ jobs[t.job].status = "running" /\ jobs[t.job].fresh /\ jobs[t.job].worker = t.worker

OneOpen == \A i, j \in JobIds : IsOpen(jobs[i]) /\ IsOpen(jobs[j]) => i = j
OneTask == \A t, u \in tasks : t = u

\* A document that exists has one job and one handler at a time.
Alive ==
    /\ OneOpen /\ OneTask
    /\ \A t \in tasks : HeldRow(t) /\ AtPoint(KindOf(t), t.pc, t.todo)
    /\ \A j \in JobIds : IsOpen(jobs[j]) => Fits(j[1], status)
    /\ Exists(jobs[StageKey("ocr")])
    /\ TextWhole

OneWorks == \A t, u \in tasks : t.pc = "work" /\ u.pc = "work" => t = u

OneInv ==
    /\ TypeInv
    /\ WholeDocument
    /\ asking = {}
    /\ status = "absent" => jobs = EmptyTable /\ tasks = {} /\ blocks = NoBlocks /\ chunks = {}
    /\ deleting => DocExists
    /\ DocExists => Alive
    /\ OneWorks

-----------------------------------------------------------------------------
(* The jobs are about the whole document *)

\* A key of the whole document names no page.
LEMMA PlainParts ==
    ASSUME NEW j \in PlainKeys
    PROVE  j[1] \in PipelineKinds /\ Len(j) = 2 /\ j \in DedupKeys /\ j \in JobIds
<1>1. PICK k \in PipelineKinds : j = StageKey(k) \/ j = ReconcileKey(k)
  BY DEF PlainKeys
<1>2. j[1] = k /\ Len(j) = 2
  BY <1>1 DEF StageKey, ReconcileKey
<1> QED
  BY <1>1, <1>2, StageKeys

\* An enqueue adds the row of its key, if there is none.
LEMMA InsertRows ==
    ASSUME NEW T, JobsTyped(T), NEW key \in DedupKeys, NEW j \in JobIds
    PROVE  /\ j # key => Insert(T, key)[j] = T[j]
           /\ Insert(T, key)[key] = IF Exists(T[key]) THEN T[key] ELSE NewRow(key[1], Doc, key)
           /\ Insert(T, key)[j].status = "absent" => T[j].status = "absent"
<1>1. key \in JobIds /\ key \in DOMAIN T /\ j \in DOMAIN T
  BY KeyParts DEF JobsTyped, Table
<1>2. NewRow(key[1], Doc, key).status = "pending"
  BY DEF NewRow
<1> QED
  BY <1>1, <1>2 DEF Insert, Exists

\* Under OneAtATime, no operation gives a page a job of its own.
LEMMA NoPageOps ==
    ASSUME OneAtATime
    PROVE  /\ ~RetryChecks
           /\ \A p \in Pages : ~ReextractChecks(p)
           /\ \A j \in JobIds : ~LeaseLapses(j)
BY DEF OneAtATime, RetryChecks, ReextractChecks, Call, LeaseLapses, Fault

\* A handler asks for nothing.
LEMMA HandlerSetting ==
    ASSUME NEW t \in tasks, HandlerStep(t)
    PROVE  UNCHANGED setting
BY DEF HandlerStep, OcrStep, OcrLoad, OcrPending, OcrLocate, OcrCount, OcrInputFails,
   OcrNextPage, OcrCancelled, OcrPage, OcrLoopFails, OcrDone, OcrText, FailDocument,
   StageStep, StageFails, LayoutClaim, LayoutWork, ChunkingClaim, ChunkingWork,
   EmbeddingClaim, EmbeddingDone, EmbeddingBatch, StageClaims, Finish, Raise

\* So nobody asks for one, ...
LEMMA NobodyAsks ==
    ASSUME OneAtATime, asking = {}, [Next]_vars
    PROVE  asking' = {}
<1>1. CASE UNCHANGED setting
  BY <1>1 DEF setting
<1>2. CASE HttpStep
  BY <1>1, <1>2, NoPageOps DEF HttpStep, Upload, Reupload, RequestDelete, DeleteRows, DeleteTimesOut
<1>3. CASE WorkerStep
  <2> QED
    BY <1>1, <1>3, HandlerSetting DEF WorkerStep, Claim, Heartbeat, StageAborts, Crash, Fault
<1>4. CASE TimeStep
  BY <1>1, <1>4 DEF TimeStep, Reconcile, LeaseExpires, LeaseLapses, Fault
<1> QED
  BY <1>1, <1>2, <1>3, <1>4 DEF Next, vars

\* ... and nobody writes one.
LEMMA NoRequests ==
    ASSUME OneAtATime, asking = {}, HttpStep
    PROVE  Upload \/ Reupload \/ RequestDelete \/ DeleteRows \/ DeleteTimesOut
BY NoPageOps DEF HttpStep

\* The moved task has the job of the task it was.
LEMMA MovedTask ==
    ASSUME NEW t \in Task, NEW pc, NEW todo
    PROVE  LET u == [t EXCEPT !.pc = pc, !.todo = todo] IN
           /\ u.job = t.job /\ u.pc = pc /\ u.todo = todo /\ u.orphan = t.orphan
           /\ u.worker = t.worker /\ u.n = t.n
BY DEF Task

\* Each handler step keeps its task, ends it, or moves it.
LEMMA HandlerMoves ==
    ASSUME NEW t \in tasks, OcrStep(t) \/ StageStep(t) \/ StageAborts(t)
    PROVE  \/ tasks' = tasks \ {t} /\ jobs' = SetRow(t, CancelledRow(jobs[t.job]))
           \/ UNCHANGED jobs /\ \E pc \in Pcs : \E todo : tasks' = Moved(t, pc, todo)
<1> USE DEF Pcs
<1>1. CASE OcrStep(t)
  BY <1>1 DEF OcrStep, OcrLoad, OcrPending, OcrLocate, OcrCount, OcrInputFails, OcrNextPage,
     OcrCancelled, OcrPage, OcrLoopFails, OcrDone, OcrText, FailDocument, Orphaned, Goto
<1>2. CASE StageStep(t)
  BY <1>2 DEF StageStep, StageFails, LayoutClaim, LayoutWork, ChunkingClaim, ChunkingWork,
     EmbeddingClaim, EmbeddingDone, EmbeddingBatch, StageClaims, FailDocument, Orphaned, Goto
<1>3. CASE StageAborts(t)
  BY <1>3 DEF StageAborts, Goto
<1> QED
  BY <1>1, <1>2, <1>3

\* A statement about a task's row makes no row out of none.
LEMMA SetRowRows ==
    ASSUME JobsTyped(jobs), NEW t \in tasks, t.job \in JobIds, NEW j \in JobIds
    PROVE  /\ \A row : SetRow(t, row)[j] = IF HasRow(t) /\ j = t.job THEN row ELSE jobs[j]
           /\ ~Exists(jobs[j]) => /\ Completed(t)[j] = jobs[j]
                                  /\ \A b \in BOOLEAN : SetRow(t, FailedRow(jobs[t.job], b))[j] = jobs[j]
                                  /\ SetRow(t, CancelledRow(jobs[t.job]))[j] = jobs[j]
                                  /\ SetRow(t, HeartbeatRow(jobs[t.job], t.worker))[j] = jobs[j]
<1>1. j \in DOMAIN jobs /\ t.job \in DOMAIN jobs
  BY DEF JobsTyped, Table
<1>2. \A row : SetRow(t, row)[j] = IF HasRow(t) /\ j = t.job THEN row ELSE jobs[j]
  BY <1>1 DEF SetRow
<1>3. ~Exists(jobs[j]) => /\ CompletedRow(jobs[j]) = jobs[j]
                          /\ \A b \in BOOLEAN : FailedRow(jobs[j], b) = jobs[j]
                          /\ CancelledRow(jobs[j]) = jobs[j]
                          /\ HeartbeatRow(jobs[j], t.worker) = jobs[j]
  BY DEF Exists, CompletedRow, FailedRow, CancelledRow, IsOpen, OpenStatuses, HeartbeatRow
<1> QED
  BY <1>2, <1>3 DEF Completed

\* A task whose job has a row replaces that row and no other.
LEMMA OwnRowReplaced ==
    ASSUME JobsTyped(jobs), NEW t \in tasks, HasRow(t), t.job \in JobIds, NEW row
    PROVE  \A j \in JobIds : SetRow(t, row)[j] = IF j = t.job THEN row ELSE jobs[j]
BY SetRowRows

\* The rows after a step of the whole pipeline that page operations have no part in.
LEMMA NoNewPages ==
    ASSUME OneAtATime, TypeInv, WholeDocument, asking = {}, Next, NEW j \in JobIds, Exists(jobs'[j])
    PROVE  j \in PlainKeys
<1>1. JobsTyped(jobs) /\ j \in DOMAIN jobs /\ \A t \in tasks : t.job \in JobIds
  BY DEF TypeInv, JobsTyped, Table, TaskTyped, Task
<1>2. \A k \in PipelineKinds : StageKey(k) \in PlainKeys /\ ReconcileKey(k) \in PlainKeys
  BY DEF PlainKeys
<1>3. ASSUME NEW T, JobsTyped(T), NEW key \in PlainKeys, jobs' = Insert(T, key),
             Exists(T[j]) => Exists(jobs[j])
      PROVE  j \in PlainKeys
  BY <1>3, PlainParts, InsertRows DEF WholeDocument
<1>4. CASE Exists(jobs[j])
  BY <1>4 DEF WholeDocument
<1>5. CASE ~Exists(jobs[j])
  <2>1. CASE Upload \/ Reupload
    BY <1>1, <1>2, <1>3, <2>1 DEF Upload, Reupload, PipelineKinds
  <2>2. CASE RequestDelete
    BY <1>5, <2>2 DEF RequestDelete, CancelRequestedForDocument, IsOpen, OpenStatuses, Exists
  <2>3. CASE DeleteRows
    BY <2>3 DEF DeleteRows, EmptyTable, Unused, Exists
  <2>4. ASSUME NEW w \in Workers, NEW i \in JobIds, Claim(w, i) PROVE j \in PlainKeys
    <3>1. j # i
      BY <1>5, <2>4 DEF Claim, Claimable, Exists
    <3> QED
      BY <1>1, <1>5, <2>4, <3>1 DEF Claim
  <2>5. ASSUME NEW t \in tasks, Finish(t) PROVE j \in PlainKeys
    <3>1. Completed(t)[j] = jobs[j]
      BY <1>1, <1>5, SetRowRows
    <3>2. JobsTyped(Completed(t))
      <4>1. TaskTyped(t) /\ CompletedRow(jobs[t.job]) \in Row
        BY RowStatements DEF TypeInv, TaskTyped, Task, JobsTyped, Table
      <4> QED
        BY <1>1, <4>1, SetRowTyped DEF Completed
    <3>3. KindOf(t) \in DOMAIN NextKind => NextKind[KindOf(t)] \in PipelineKinds
      BY DEF NextKind, PipelineKinds
    <3>4. CASE KindOf(t) \in DOMAIN NextKind
      <4>1. jobs' = Insert(Completed(t), StageKey(NextKind[KindOf(t)]))
        BY <2>5, <3>4 DEF Finish
      <4> QED
        BY <1>2, <1>3, <3>1, <3>2, <3>3, <3>4, <4>1
    <3>5. CASE KindOf(t) \notin DOMAIN NextKind
      BY <1>5, <2>5, <3>1, <3>5 DEF Finish
    <3> QED
      BY <3>4, <3>5
  <2>6. ASSUME NEW t \in tasks, Raise(t) \/ Heartbeat(t) \/ OcrCancelled(t) PROVE j \in PlainKeys
    <3>1. /\ \A b \in BOOLEAN : SetRow(t, FailedRow(jobs[t.job], b))[j] = jobs[j]
          /\ SetRow(t, CancelledRow(jobs[t.job]))[j] = jobs[j]
          /\ SetRow(t, HeartbeatRow(jobs[t.job], t.worker))[j] = jobs[j]
      BY <1>1, <1>5, SetRowRows
    <3>2. (t.pc = "retry") \in BOOLEAN
      OBVIOUS
    <3>3. jobs'[j] = jobs[j]
      BY <2>6, <3>1, <3>2, Zenon DEF Raise, Heartbeat, OcrCancelled
    <3> QED
      BY <1>5, <3>3
  <2>7. CASE \E i \in JobIds : LeaseExpires(i) \/ LeaseLapses(i)
    BY <1>1, <1>5, <2>7 DEF LeaseExpires, LeaseLapses, Late, Exists
  <2>8. CASE Reconcile
    <3>1. JobsTyped(AfterReclaim)
      BY <1>1, ReclaimTyped
    <3>2. ~Exists(AfterReclaim[j])
      BY <1>5 DEF AfterReclaim, ReclaimedRow, Stuck, Exists
    <3>3. status \in DOMAIN NextStage => NextStage[status] \in PipelineKinds
      BY DEF NextStage, PipelineKinds
    <3>4. \/ jobs' = AfterReclaim
          \/ status \in DOMAIN NextStage /\ jobs' = Insert(AfterReclaim, ReconcileKey(NextStage[status]))
      BY <2>8 DEF Reconcile, Partial
    <3> QED
      BY <1>2, <1>3, <3>1, <3>2, <3>3, <3>4
  <2>9. CASE UNCHANGED jobs
    BY <1>5, <2>9
  <2>10. ASSUME NEW t \in tasks, OcrStep(t) \/ StageStep(t) \/ StageAborts(t)
         PROVE  UNCHANGED jobs \/ OcrCancelled(t)
    BY <2>10 DEF OcrStep, OcrLoad, OcrPending, OcrLocate, OcrCount, OcrInputFails, OcrNextPage,
       OcrPage, OcrLoopFails, OcrDone, OcrText, FailDocument,
       StageStep, StageFails, LayoutClaim, LayoutWork, ChunkingClaim, ChunkingWork,
       EmbeddingClaim, EmbeddingDone, EmbeddingBatch, StageClaims, StageAborts
  <2>11. CASE HttpStep
    BY <2>1, <2>2, <2>3, <2>9, <2>11, NoRequests DEF DeleteTimesOut
  <2>12. CASE WorkerStep
    BY <2>4, <2>5, <2>6, <2>9, <2>10, <2>12 DEF WorkerStep, HandlerStep, Crash
  <2>13. CASE TimeStep
    BY <2>7, <2>8, <2>13 DEF TimeStep
  <2> QED
    BY <2>11, <2>12, <2>13 DEF Next
<1> QED
  BY <1>4, <1>5

\* The tasks after a step: of a task that was there, or of a row that is there.
LEMMA TasksCome ==
    ASSUME TypeInv, Next, NEW u \in tasks'
    PROVE  \/ \E t \in tasks : u.job = t.job
           \/ \E w \in Workers, j \in JobIds :
                 /\ Claim(w, j)
                 /\ u = [job |-> j, n |-> jobs[j].attempts + 1, orphan |-> 0, worker |-> w,
                         pc |-> "start", todo |-> {}]
<1>1. \A t \in tasks : t \in Task
  BY DEF TypeInv, TaskTyped
<1>2. CASE tasks' \subseteq tasks
  BY <1>2
<1>3. CASE \E n : OrphanTasks(n)
  BY <1>1, <1>3 DEF OrphanTasks, Task
<1>4. ASSUME NEW t \in tasks, OcrStep(t) \/ StageStep(t) \/ StageAborts(t)
      PROVE  \E v \in tasks : u.job = v.job
  <2>1. CASE tasks' = tasks \ {t}
    BY <2>1
  <2>2. ASSUME NEW pc, NEW todo, tasks' = Moved(t, pc, todo)
        PROVE  \E v \in tasks : u.job = v.job
    <3> DEFINE v == [t EXCEPT !.pc = pc, !.todo = todo]
    <3>1. v.job = t.job
      BY <1>1, MovedTask
    <3> HIDE DEF v
    <3>2. u \in tasks \/ u = v
      BY <2>2 DEF Moved, v
    <3> QED
      BY <3>1, <3>2
  <2> QED
    BY <1>4, <2>1, <2>2, HandlerMoves
<1>5. CASE HttpStep
  BY <1>2, <1>3, <1>5 DEF HttpStep, Upload, Reupload, RetryChecks, RetryWrites, ReextractChecks,
     ReextractWrites, RequestDies, RequestDelete, DeleteRows, DeleteTimesOut
<1>6. CASE WorkerStep
  <2>1. ASSUME NEW w \in Workers, NEW j \in JobIds, Claim(w, j)
        PROVE  \/ \E t \in tasks : u.job = t.job
               \/ u = [job |-> j, n |-> jobs[j].attempts + 1, orphan |-> 0, worker |-> w,
                       pc |-> "start", todo |-> {}]
    BY <2>1 DEF Claim
  <2>2. CASE \E t \in tasks : Finish(t) \/ Raise(t) \/ Heartbeat(t)
    BY <1>2, <2>2 DEF Finish, Raise, Heartbeat
  <2>3. CASE \E w \in Workers : Crash(w)
    BY <1>2, <2>3 DEF Crash
  <2> QED
    BY <1>4, <1>6, <2>1, <2>2, <2>3 DEF WorkerStep, HandlerStep
<1>7. CASE TimeStep
  BY <1>2, <1>7 DEF TimeStep, LeaseExpires, LeaseLapses, Late, Reconcile
<1> QED
  BY <1>5, <1>6, <1>7 DEF Next

\* The jobs and the tasks stay about the whole document.
LEMMA StaysWhole ==
    ASSUME OneAtATime, TypeInv, WholeDocument, asking = {}, Next
    PROVE  WholeDocument'
<1>1. ASSUME NEW u \in tasks' PROVE u.job \in PlainKeys
  <2>1. CASE \E t \in tasks : u.job = t.job
    BY <2>1 DEF WholeDocument
  <2>2. ASSUME NEW w \in Workers, NEW j \in JobIds, Claim(w, j),
               u = [job |-> j, n |-> jobs[j].attempts + 1, orphan |-> 0, worker |-> w,
                    pc |-> "start", todo |-> {}]
        PROVE  u.job \in PlainKeys
    <3>1. Exists(jobs[j])
      BY <2>2 DEF Claim, Claimable, Exists
    <3> QED
      BY <2>2, <3>1 DEF WholeDocument
  <2> QED
    BY <2>1, <2>2, TasksCome
<1> QED
  BY <1>1, NoNewPages DEF WholeDocument

-----------------------------------------------------------------------------
(* Before the upload and after the deletion *)

\* Nothing happens before the upload.
LEMMA OnlyUpload ==
    ASSUME OneAtATime, OneInv, Next, status = "absent"
    PROVE  Upload
<1>1. /\ jobs = EmptyTable /\ tasks = {} /\ ~deleting /\ ~DocExists /\ asking = {}
  BY DEF OneInv, DocExists
<1>2. \A j \in JobIds : jobs[j].status = "absent"
  BY <1>1 DEF EmptyTable, Unused
<1>3. ~WorkerStep
  BY <1>1, <1>2 DEF WorkerStep, Claim, Claimable, Crash
<1>4. ~TimeStep
  <2>1. \A j \in JobIds : ~LeaseExpires(j) /\ ~LeaseLapses(j)
    BY <1>2 DEF LeaseExpires, LeaseLapses, Late
  <2>2. AfterReclaim = jobs
    BY <1>1, <1>2 DEF AfterReclaim, ReclaimedRow, Stuck, EmptyTable
  <2>3. ~Partial(AfterReclaim)
    BY DEF Partial, NextStage
  <2> QED
    BY <2>1, <2>2, <2>3 DEF TimeStep, Reconcile
<1> QED
  BY <1>1, <1>3, <1>4, NoRequests DEF Next, Reupload, RequestDelete, DeleteRows, DeleteTimesOut

\* The upload makes the first job.
LEMMA UploadAlive ==
    ASSUME OneAtATime, OneInv, Upload
    PROVE  DocExists' /\ Alive' /\ OneWorks' /\ ~deleting'
<1>1. jobs = EmptyTable /\ tasks = {} /\ tasks' = {} /\ ~deleting /\ deleting' = deleting
  BY DEF OneInv, Upload, DocExists
<1>2. /\ status' = "uploaded" /\ jobs' = Insert(jobs, StageKey("ocr"))
      /\ blocks = NoBlocks /\ chunks = {} /\ UNCHANGED <<blocks, chunks>>
  BY DEF Upload, SetStatus, OneInv
<1>3. "ocr" \in PipelineKinds /\ StageKey("ocr") \in JobIds /\ StageKey("ocr")[1] = "ocr"
  BY StageKeys DEF PipelineKinds
<1>4. jobs' = [EmptyTable EXCEPT ![StageKey("ocr")] = NewRow("ocr", Doc, StageKey("ocr"))]
  BY <1>1, <1>2, <1>3 DEF Insert, EmptyTable, Unused, Exists
<1>5. /\ \A j \in JobIds : j # StageKey("ocr") => jobs'[j].status = "absent"
      /\ jobs'[StageKey("ocr")].status = "pending"
  BY <1>3, <1>4 DEF EmptyTable, Unused, NewRow
<1>6. \A j \in JobIds : IsOpen(jobs[j])' => j = StageKey("ocr")
  BY <1>5 DEF IsOpen, OpenStatuses
<1>7. OneOpen' /\ Exists(jobs[StageKey("ocr")])'
  BY <1>5, <1>6 DEF OneOpen, Exists
<1>8. Fits("ocr", status)'
  BY <1>2, <1>3 DEF Fits
<1>9. TextWhole'
  BY <1>2 DEF TextWhole, TextOnly, NoBlocks
<1> QED
  BY <1>1, <1>2, <1>3, <1>6, <1>7, <1>8, <1>9 DEF Alive, OneTask, OneWorks, DocExists

\* A handler of a document that is gone writes nothing to it, and claims no stage.
LEMMA GoneHandler ==
    ASSUME TypeInv, status = "deleted", NEW t \in tasks, OcrStep(t) \/ StageStep(t) \/ StageAborts(t)
    PROVE  /\ status' = status /\ deleting' = deleting /\ pageRows' = pageRows /\ form' = form
           /\ \/ tasks' = tasks \ {t}
              \/ \E pc \in Pcs \ {"work"} : \E todo : tasks' = Moved(t, pc, todo)
<1> USE DEF Pcs, DocExists, setting
<1>1. ASSUME FailDocument(t, "retry") \/ FailDocument(t, "giveup")
      PROVE  /\ status' = status /\ deleting' = deleting /\ pageRows' = pageRows /\ form' = form
             /\ \E pc \in Pcs \ {"work"} : \E todo : tasks' = Moved(t, pc, todo)
  BY <1>1 DEF FailDocument, Orphaned, Goto, docVars
<1>2. CASE OcrStep(t)
  <2>1. CASE OcrLoad(t) \/ OcrPending(t) \/ OcrDone(t) \/ OcrText(t)
    BY <2>1 DEF OcrLoad, OcrPending, OcrDone, OcrText, Orphaned, Goto, docVars
  <2>2. CASE OcrLocate(t)
    BY <2>2 DEF OcrLocate, OcrClaimable, Goto, docVars
  <2>3. CASE OcrNextPage(t) \/ OcrCancelled(t)
    BY <2>3 DEF OcrNextPage, OcrCancelled, docVars
  <2>4. CASE OcrCount(t)
    BY <2>4 DEF OcrCount
  <2>5. CASE OcrPage(t)
    <3> DEFINE p == Min(t.todo)
    <3>1. pageRows' = [pageRows EXCEPT ![p] = pageRows[p]]
      BY <2>5 DEF OcrPage, PageOutcomes
    <3>2. UNCHANGED <<status, deleting, form>> /\ \E todo : tasks' = Moved(t, "pages", todo)
      BY <2>5 DEF OcrPage
    <3> HIDE DEF p
    <3>3. pageRows' = pageRows
      BY <3>1 DEF TypeInv, DocTyped
    <3> QED
      BY <3>2, <3>3
  <2> QED
    BY <1>1, <1>2, <2>1, <2>2, <2>3, <2>4, <2>5 DEF OcrStep, OcrInputFails, OcrLoopFails
<1>3. CASE StageStep(t)
  <2>1. ASSUME NEW from, "deleted" \notin from, NEW running, NEW pc, NEW todo,
               StageClaims(t, from, running, pc, todo)
        PROVE  /\ status' = status /\ deleting' = deleting /\ pageRows' = pageRows /\ form' = form
               /\ \E q \in Pcs \ {"work"} : \E rest : tasks' = Moved(t, q, rest)
    BY <2>1 DEF StageClaims, Goto, docVars
  <2>2. CASE LayoutClaim(t)
    BY <2>1, <2>2 DEF LayoutClaim
  <2>3. CASE ChunkingClaim(t)
    BY <2>1, <2>3 DEF ChunkingClaim
  <2>4. CASE EmbeddingClaim(t)
    BY <2>1, <2>4 DEF EmbeddingClaim
  <2>5. CASE \E id \in t.todo : EmbeddingBatch(t, id)
    BY <2>5 DEF EmbeddingBatch
  <2> QED
    BY <1>1, <1>3, <2>2, <2>3, <2>4, <2>5 DEF StageStep, StageFails, LayoutWork, ChunkingWork, EmbeddingDone
<1>4. CASE StageAborts(t)
  BY <1>4 DEF StageAborts, Goto, docVars, Fault
<1> QED
  BY <1>2, <1>3, <1>4

\* A document that is gone stays gone.
LEMMA GoneStays ==
    ASSUME OneAtATime, OneInv, Next, status = "deleted"
    PROVE  status' = "deleted" /\ ~deleting' /\ OneWorks' /\ Readable' = Readable
<1>1. ~DocExists /\ ~deleting /\ TypeInv /\ OneWorks /\ asking = {}
  BY DEF OneInv, DocExists
<1>2. ASSUME tasks' \subseteq tasks, UNCHANGED docVars, deleting' = deleting, form' = form
      PROVE  status' = "deleted" /\ ~deleting' /\ OneWorks' /\ Readable' = Readable
  BY <1>1, <1>2 DEF OneWorks, docVars, Readable
<1>3. ASSUME NEW t \in tasks, OcrStep(t) \/ StageStep(t) \/ StageAborts(t)
      PROVE  status' = "deleted" /\ ~deleting' /\ OneWorks' /\ Readable' = Readable
  <2>3. status' = "deleted" /\ ~deleting' /\ Readable' = Readable
    <3>1. status' = status /\ deleting' = deleting /\ pageRows' = pageRows /\ form' = form
      BY <1>1, <1>3, GoneHandler
    <3> QED
      BY <1>1, <3>1 DEF Readable
  <2>1. CASE tasks' = tasks \ {t}
    BY <1>1, <2>1, <2>3 DEF OneWorks
  <2>2. ASSUME NEW pc, pc # "work", NEW todo, tasks' = Moved(t, pc, todo)
        PROVE  OneWorks'
    <3> DEFINE v == [t EXCEPT !.pc = pc, !.todo = todo]
    <3>1. v.pc = pc
      BY <1>1, MovedTask DEF TypeInv, TaskTyped
    <3> HIDE DEF v
    <3>2. \A u \in tasks' : u \in tasks \/ u = v
      BY <2>2 DEF Moved, v
    <3> QED
      BY <1>1, <2>2, <3>1, <3>2 DEF OneWorks
  <2> QED
    BY <1>1, <1>3, <2>1, <2>2, <2>3, GoneHandler
<1>4. CASE HttpStep
  BY <1>1, <1>4, NoRequests DEF Upload, Reupload, RequestDelete, DeleteRows, DeleteTimesOut
<1>5. CASE WorkerStep
  <2>1. ASSUME NEW w \in Workers, NEW j \in JobIds, Claim(w, j)
        PROVE  status' = "deleted" /\ ~deleting' /\ OneWorks' /\ Readable' = Readable
    BY <1>1, <2>1 DEF Claim, docVars, OneWorks, setting, Readable
  <2>2. CASE \E t \in tasks : Finish(t) \/ Raise(t) \/ Heartbeat(t)
    BY <1>2, <2>2 DEF Finish, Raise, Heartbeat, setting
  <2>3. CASE \E w \in Workers : Crash(w)
    BY <1>2, <2>3 DEF Crash, Fault
  <2> QED
    BY <1>3, <1>5, <2>1, <2>2, <2>3 DEF WorkerStep, HandlerStep
<1>6. CASE TimeStep
  BY <1>2, <1>6, NoPageOps DEF TimeStep, LeaseExpires, Late, Reconcile, setting
<1> QED
  BY <1>4, <1>5, <1>6 DEF Next

-----------------------------------------------------------------------------
(* While the document exists *)

\* What a step of a handler may rely on.
LEMMA AtWorkOn ==
    ASSUME OneInv, DocExists, NEW t \in tasks
    PROVE  /\ Alive /\ TypeInv /\ t \in Task /\ tasks = {t}
           /\ KindOf(t) \in PipelineKinds /\ ~SinglePage(t) /\ t.job \in JobIds
           /\ HasRow(t) /\ HeldRow(t) /\ AtPoint(KindOf(t), t.pc, t.todo)
           /\ DocTyped /\ JobsTyped(jobs)
           /\ \A j \in JobIds : IsOpen(jobs[j]) <=> j = t.job
<1>1. Alive /\ TypeInv /\ t.job \in PlainKeys
  BY DEF OneInv, WholeDocument
<1>2. t \in Task /\ tasks = {t} /\ HeldRow(t) /\ AtPoint(KindOf(t), t.pc, t.todo)
  BY <1>1 DEF Alive, OneTask, TypeInv, TaskTyped
<1>3. KindOf(t) \in PipelineKinds /\ ~SinglePage(t) /\ t.job \in JobIds
  BY <1>1, PlainParts DEF KindOf, SinglePage
<1>4. IsOpen(jobs[t.job]) /\ HasRow(t)
  BY <1>2 DEF HeldRow, IsOpen, OpenStatuses, HasRow
<1>5. \A j \in JobIds : IsOpen(jobs[j]) <=> j = t.job
  BY <1>1, <1>3, <1>4 DEF Alive, OneOpen
<1> QED
  BY <1>1, <1>2, <1>3, <1>4, <1>5 DEF TypeInv

\* While the rows of the pages only grow, blocks and chunks are of text that is there.
LEMMA MoreText ==
    ASSUME DocTyped, TextOnly, UNCHANGED <<form, blocks, chunks>>,
           \A p \in Pages : pageRows'[p].full \in Nat /\ pageRows'[p].full >= pageRows[p].full
    PROVE  TextOnly' /\ Readable \subseteq Readable'
<1>1. ASSUME NEW p \in Readable PROVE p \in Readable'
  <2>1. p \in Pages /\ form # "blank" /\ pageRows[p].full > 0 /\ pageRows[p].full \in Nat
    BY DEF Readable, DocTyped
  <2>2. pageRows'[p].full > 0
    BY <2>1
  <2> QED
    BY <2>1, <2>2 DEF Readable
<1> QED
  BY <1>1 DEF TextOnly

\* Reading a page adds to the rows of pages.
LEMMA RowsGrow ==
    ASSUME DocTyped, NEW t \in tasks, OcrPage(t) \/ OcrText(t)
    PROVE  /\ UNCHANGED <<blocks, chunks, form>>
           /\ \A p \in Pages : pageRows'[p].full \in Nat /\ pageRows'[p].full >= pageRows[p].full
<1>1. \A p \in Pages : pageRows[p].full \in Nat
  BY DEF DocTyped
<1>2. CASE OcrPage(t)
  <2> DEFINE q == Min(t.todo)
  <2>1. PICK r \in PageOutcomes(pageRows[q]) : pageRows' = [pageRows EXCEPT ![q] = r]
    BY <1>2 DEF OcrPage
  <2>2. UNCHANGED <<blocks, chunks, form>>
    BY <1>2 DEF OcrPage, setting
  <2> HIDE DEF q
  <2>3. q \in Pages => r.full \in Nat /\ r.full >= pageRows[q].full
    BY <2>1 DEF PageOutcomes, DocTyped
  <2>4. \A p \in Pages : pageRows'[p] = IF p = q THEN r ELSE pageRows[p]
    BY <2>1 DEF DocTyped
  <2>5. \A p \in Pages : pageRows'[p].full \in Nat /\ pageRows'[p].full >= pageRows[p].full
    BY <1>1, <2>3, <2>4
  <2> QED
    BY <2>2, <2>5
<1>3. CASE OcrText(t)
  <2>1. CASE Orphaned(t)
    BY <1>1, <1>3, <2>1 DEF Orphaned, docVars, OcrText, setting
  <2>2. CASE ~Orphaned(t)
    <3> DEFINE q == Min(Pages)
    <3>1. pageRows' = [pageRows EXCEPT ![q].full = @ + 1] /\ UNCHANGED <<blocks, chunks, form>>
      BY <1>3, <2>2 DEF OcrText, setting
    <3> HIDE DEF q
    <3>2. \A p \in Pages : pageRows'[p].full = IF p = q THEN pageRows[p].full + 1 ELSE pageRows[p].full
      BY <3>1 DEF DocTyped
    <3>3. \A p \in Pages : pageRows'[p].full \in Nat /\ pageRows'[p].full >= pageRows[p].full
      BY <1>1, <3>2
    <3> QED
      BY <3>1, <3>3
  <2> QED
    BY <2>1, <2>2
<1> QED
  BY <1>2, <1>3

\* Nothing was read or derived.
LEMMA SameText ==
    ASSUME UNCHANGED <<form, pageRows, blocks, chunks>>
    PROVE  /\ TextOnly' = TextOnly /\ Readable' = Readable
           /\ BlocksWhole' = BlocksWhole /\ ChunksWhole' = ChunksWhole
           /\ UNCHANGED status => TextWhole' = TextWhole
<1>1. Readable' = Readable
  BY DEF Readable
<1> QED
  BY <1>1 DEF TextOnly, BlocksWhole, ChunksWhole, TextWhole

\* A task moves on, its row as it was.
LEMMA MovedAlive ==
    ASSUME OneInv, DocExists, NEW t \in tasks, NEW pc, NEW todo, tasks' = Moved(t, pc, todo),
           UNCHANGED jobs, Fits(KindOf(t), status)', AtPoint(KindOf(t), pc, todo)', TextWhole'
    PROVE  Alive' /\ OneWorks'
<1>1. /\ Alive /\ TypeInv /\ t \in Task /\ tasks = {t} /\ HeldRow(t) /\ t.job \in JobIds
      /\ \A j \in JobIds : IsOpen(jobs[j]) <=> j = t.job
  BY AtWorkOn
<1> DEFINE v == [t EXCEPT !.pc = pc, !.todo = todo]
<1>2. /\ v.job = t.job /\ v.pc = pc /\ v.todo = todo /\ v.orphan = t.orphan
      /\ v.worker = t.worker
  BY <1>1, MovedTask
<1>3. tasks' = {v}
  BY <1>1 DEF Moved
<1> HIDE DEF v
<1>4. HeldRow(v)' /\ KindOf(v) = KindOf(t)
  BY <1>1, <1>2 DEF HeldRow, KindOf
<1>5. AtPoint(KindOf(v), v.pc, v.todo)'
  BY <1>2, <1>4
<1>6. \A u \in tasks' : HeldRow(u)' /\ AtPoint(KindOf(u), u.pc, u.todo)'
  BY <1>3, <1>4, <1>5
<1>7. \A j \in JobIds : IsOpen(jobs[j])' => Fits(j[1], status)'
  BY <1>1 DEF KindOf, IsOpen
<1>8. OneOpen' /\ Exists(jobs[StageKey("ocr")])'
  BY <1>1 DEF Alive, OneOpen, Exists, IsOpen
<1>9. OneTask' /\ OneWorks'
  BY <1>3 DEF OneTask, OneWorks
<1> QED
  BY <1>6, <1>7, <1>8, <1>9 DEF Alive

\* The same for a step that keeps the document, ...
LEMMA WentAlive ==
    ASSUME OneInv, DocExists, NEW t \in tasks, NEW pc, NEW todo, tasks' = Moved(t, pc, todo),
           UNCHANGED <<jobs, docVars, form>>, AtPoint(KindOf(t), pc, todo)
    PROVE  Alive' /\ OneWorks'
<1>1. Alive
  BY DEF OneInv
<1>2. Fits(KindOf(t), status)
  <2>1. KindOf(t) \in PipelineKinds
    BY AtWorkOn
  <2> QED
    BY <2>1 DEF AtPoint, Fits
<1>3. UNCHANGED <<status, pageRows, blocks, chunks>>
  BY DEF docVars
<1>4. Fits(KindOf(t), status)' /\ TextWhole'
  BY <1>1, <1>2, <1>3, SameText DEF Alive
<1>5. AtPoint(KindOf(t), pc, todo)'
  BY <1>3 DEF AtPoint, SpansLoaded, BlocksLoaded, Unembedded
<1> QED
  BY <1>4, <1>5, MovedAlive

\* ... or fails it.
LEMMA FailedAlive ==
    ASSUME OneInv, DocExists, NEW t \in tasks, NEW pc \in {"retry", "giveup"}, FailDocument(t, pc)
    PROVE  DocExists' /\ Alive' /\ OneWorks'
<1>1. KindOf(t) \in PipelineKinds /\ Alive
  BY AtWorkOn
<1>2. /\ status' = "failed" /\ UNCHANGED jobs /\ tasks' = Moved(t, pc, {})
      /\ UNCHANGED <<form, pageRows, blocks, chunks>>
  BY DEF FailDocument, Orphaned, SetStatus, Goto, setting
<1>3. Fits(KindOf(t), status)' /\ TextWhole'
  BY <1>1, <1>2, SameText DEF Fits, Alive, TextWhole
<1>4. AtPoint(KindOf(t), pc, {})'
  BY <1>3 DEF AtPoint
<1>5. Alive' /\ OneWorks'
  BY <1>2, <1>3, <1>4, MovedAlive
<1> QED
  BY <1>2, <1>5 DEF DocExists

\* A job is no more, and its task with it.
LEMMA EndedAlive ==
    ASSUME OneInv, DocExists, NEW t \in tasks, tasks' = tasks \ {t}, UNCHANGED <<docVars, form>>,
           \A j \in JobIds : Exists(jobs[j]) => Exists(jobs[j])',
           \A i, j \in JobIds : IsOpen(jobs[i])' /\ IsOpen(jobs[j])' => i = j,
           \A j \in JobIds : IsOpen(jobs[j])' => Fits(j[1], status)
    PROVE  Alive' /\ OneWorks'
<1>1. Alive /\ tasks' = {}
  BY AtWorkOn
<1>2. UNCHANGED <<status, pageRows, blocks, chunks>>
  BY DEF docVars
<1>3. TextWhole'
  BY <1>1, <1>2, SameText DEF Alive
<1>4. StageKey("ocr") \in JobIds
  BY StageKeys DEF PipelineKinds
<1>5. Exists(jobs[StageKey("ocr")])'
  BY <1>1, <1>4 DEF Alive
<1>6. OneOpen'
  BY DEF OneOpen
<1> QED
  BY <1>1, <1>2, <1>3, <1>5, <1>6 DEF Alive, OneTask, OneWorks

\* The OCR handler keeps the document to itself.
LEMMA OcrAlive ==
    ASSUME OneInv, DocExists, NEW t \in tasks, OcrStep(t)
    PROVE  DocExists' /\ Alive' /\ OneWorks' /\ deleting' = deleting
<1>1. /\ Alive /\ TypeInv /\ t \in Task /\ tasks = {t} /\ KindOf(t) \in PipelineKinds
      /\ ~SinglePage(t) /\ HasRow(t) /\ AtPoint(KindOf(t), t.pc, t.todo) /\ t.job \in JobIds
      /\ \A j \in JobIds : IsOpen(jobs[j]) <=> j = t.job
      /\ DocTyped /\ TextOnly /\ form' = form
  BY AtWorkOn, HandlerSetting DEF Alive, TextWhole, HandlerStep, setting
<1>2. ASSUME UNCHANGED <<jobs, docVars, deleting>>, NEW pc, NEW todo, tasks' = Moved(t, pc, todo),
             AtPoint(KindOf(t), pc, todo)
      PROVE  DocExists' /\ Alive' /\ OneWorks' /\ deleting' = deleting
  BY <1>1, <1>2, WentAlive DEF DocExists, docVars
<1>3. ASSUME NEW s \in {"ocr_pending", "ocr_running", "ocr_done"}, status' = s,
             UNCHANGED <<jobs, deleting>>, KindOf(t) = "ocr", TextOnly',
             NEW pc, NEW todo, tasks' = Moved(t, pc, todo),
             \/ pc = "locate" /\ s = "ocr_pending"
             \/ pc \in {"count", "pages", "page"} /\ s = "ocr_running"
             \/ pc = "finish" /\ s = "ocr_done"
      PROVE  DocExists' /\ Alive' /\ OneWorks' /\ deleting' = deleting
  <2>1. Fits(KindOf(t), status)' /\ TextWhole' /\ DocExists'
    BY <1>3 DEF Fits, TextWhole, DocExists
  <2>2. AtPoint(KindOf(t), pc, todo)'
    BY <1>3 DEF AtPoint, Fits, NextKind
  <2> QED
    BY <1>3, <2>1, <2>2, MovedAlive
<1>13. ASSUME UNCHANGED <<pageRows, blocks, chunks>> PROVE TextOnly'
  BY <1>1, <1>13, SameText
<1>14. ASSUME OcrPage(t) \/ OcrText(t) PROVE TextOnly'
  BY <1>1, <1>14, RowsGrow, MoreText
<1>4. CASE OcrLoad(t)
  <2>1. t.pc = "start" /\ KindOf(t) = "ocr" /\ UNCHANGED <<jobs, docVars, deleting>>
    BY <1>4 DEF OcrLoad
  <2>2. Fits("ocr", status)
    BY <1>1, <2>1 DEF AtPoint
  <2>3. CASE status \in {"ocr_done", "ready"} /\ Goto(t, "finish")
    <3>1. AtPoint("ocr", "finish", {})
      BY <2>2, <2>3 DEF AtPoint, Fits, NextKind
    <3> QED
      BY <1>2, <2>1, <2>3, <3>1 DEF Goto
  <2>4. CASE status \notin {"ocr_done", "ready"} /\ Goto(t, "pending")
    <3>1. AtPoint("ocr", "pending", {})
      BY <2>2, <2>4 DEF AtPoint, Fits
    <3> QED
      BY <1>2, <2>1, <2>4, <3>1 DEF Goto
  <2> QED
    BY <1>1, <1>4, <2>3, <2>4 DEF OcrLoad
<1>5. CASE OcrPending(t)
  <2>1. t.pc = "pending" /\ status' = "ocr_pending" /\ UNCHANGED <<jobs, deleting>>
        /\ tasks' = Moved(t, "locate", {}) /\ UNCHANGED <<pageRows, blocks, chunks>>
    BY <1>5 DEF OcrPending, Orphaned, SetStatus, Goto
  <2>2. KindOf(t) = "ocr"
    BY <1>1, <2>1 DEF AtPoint
  <2> QED
    BY <1>3, <1>13, <2>1, <2>2
<1>6. CASE OcrLocate(t)
  <2>1. t.pc = "locate" /\ UNCHANGED <<jobs, deleting>>
    BY <1>6 DEF OcrLocate
  <2>2. KindOf(t) = "ocr" /\ status = "ocr_pending"
    BY <1>1, <2>1 DEF AtPoint
  <2>3. /\ status' = "ocr_running" /\ tasks' = Moved(t, "count", {})
        /\ UNCHANGED <<pageRows, blocks, chunks>>
    BY <1>1, <1>6, <2>2 DEF OcrLocate, OcrClaimable, SetStatus, Goto
  <2> QED
    BY <1>3, <1>13, <2>1, <2>2, <2>3
<1>15. CASE OcrCount(t)
  <2>1. t.pc = "count" /\ UNCHANGED <<status, pageRows, blocks, chunks, jobs, deleting>>
    BY <1>15 DEF OcrCount
  <2>2. KindOf(t) = "ocr" /\ status = "ocr_running"
    BY <1>1, <2>1 DEF AtPoint
  <2>3. \E todo : tasks' = Moved(t, "pages", todo)
    BY <1>15 DEF OcrCount
  <2> QED
    BY <1>3, <1>13, <2>1, <2>2, <2>3
<1>7. CASE OcrInputFails(t)
  BY <1>7, FailedAlive DEF OcrInputFails, FailDocument
<1>8. CASE OcrNextPage(t)
  <2>1. AtPoint(KindOf(t), "page", t.todo)
    BY <1>1, <1>8 DEF OcrNextPage, AtPoint
  <2> QED
    BY <1>2, <1>8, <2>1 DEF OcrNextPage
<1>9. CASE OcrCancelled(t)
  <2>1. \A j \in JobIds : SetRow(t, CancelledRow(jobs[t.job]))[j] =
                              IF j = t.job THEN CancelledRow(jobs[t.job]) ELSE jobs[j]
    BY <1>1, OwnRowReplaced DEF TypeInv
  <2>2. jobs' = SetRow(t, CancelledRow(jobs[t.job])) /\ tasks' = tasks \ {t}
        /\ UNCHANGED <<docVars, deleting>>
    BY <1>9 DEF OcrCancelled
  <2>3. jobs[t.job] \in Row /\ IsOpen(jobs[t.job])
    BY <1>1 DEF TypeInv, JobsTyped, Table
  <2>4. CancelledRow(jobs[t.job]).status = "cancelled"
    BY <2>3 DEF CancelledRow, Row
  <2>5. \A j \in JobIds : ~IsOpen(jobs[j])'
    BY <1>1, <2>1, <2>2, <2>4 DEF IsOpen, OpenStatuses
  <2>6. \A j \in JobIds : Exists(jobs[j]) => Exists(jobs[j])'
    BY <2>1, <2>2, <2>4 DEF Exists
  <2> QED
    BY <1>1, <2>2, <2>5, <2>6, EndedAlive DEF DocExists, docVars
<1>10. CASE OcrPage(t)
  <2>1. t.pc = "page" /\ UNCHANGED <<status, jobs, deleting>>
    BY <1>10 DEF OcrPage
  <2>2. KindOf(t) = "ocr" /\ status = "ocr_running"
    BY <1>1, <2>1 DEF AtPoint
  <2>3. \E todo : tasks' = Moved(t, "pages", todo)
    BY <1>10 DEF OcrPage
  <2> QED
    BY <1>3, <1>10, <1>14, <2>1, <2>2, <2>3
<1>11. CASE OcrLoopFails(t)
  BY <1>11, FailedAlive DEF OcrLoopFails, FailDocument
<1>12. CASE OcrDone(t) \/ OcrText(t)
  <2>1. t.pc = "pages" /\ UNCHANGED <<jobs, deleting>>
    BY <1>12 DEF OcrDone, OcrText
  <2>2. KindOf(t) = "ocr"
    BY <1>1, <2>1 DEF AtPoint
  <2>3. status' = "ocr_done" /\ tasks' = Moved(t, "finish", {})
    BY <1>1, <1>12 DEF OcrDone, OcrText, Orphaned, SetStatus, Goto
  <2>4. TextOnly'
    <3>1. CASE OcrDone(t)
      <4>1. UNCHANGED <<pageRows, blocks, chunks>>
        BY <1>1, <3>1 DEF OcrDone, Orphaned, SetStatus
      <4> QED
        BY <1>13, <4>1
    <3> QED
      BY <1>12, <1>14, <3>1
  <2> QED
    BY <1>3, <2>1, <2>2, <2>3, <2>4
<1> QED
  BY <1>4, <1>5, <1>6, <1>7, <1>8, <1>9, <1>10, <1>11, <1>12, <1>15 DEF OcrStep

\* Layout leaves the text of every page in the blocks, or fails the document.
LEMMA LayoutAlive ==
    ASSUME OneInv, DocExists, NEW t \in tasks, LayoutWork(t)
    PROVE  DocExists' /\ Alive' /\ OneWorks' /\ deleting' = deleting
<1>1. /\ DocTyped /\ AtPoint(KindOf(t), t.pc, t.todo) /\ KindOf(t) \in PipelineKinds
      /\ TextOnly /\ form' = form
  BY AtWorkOn DEF Alive, TextWhole, LayoutWork, setting
<1>2. /\ KindOf(t) = "layout" /\ tasks' = Moved(t, "finish", {})
      /\ UNCHANGED <<jobs, deleting>>
  BY DEF LayoutWork, Goto
<1>3. t.todo = SpansLoaded
  BY <1>1, <1>2 DEF LayoutWork, AtPoint
<1>4. ASSUME NEW s \in {"failed", "layout_done"}, status' = s, TextWhole'
      PROVE  DocExists' /\ Alive' /\ OneWorks'
  <2>1. Fits(KindOf(t), status)' /\ AtPoint(KindOf(t), "finish", {})'
    BY <1>1, <1>2, <1>4 DEF Fits, AtPoint, NextKind, PipelineKinds
  <2> QED
    BY <1>2, <1>4, <2>1, MovedAlive DEF DocExists
<1>5. CASE SetStatus("failed")
  <2>1. status' = "failed" /\ UNCHANGED <<pageRows, blocks, chunks>>
    BY <1>5 DEF SetStatus
  <2>2. TextWhole'
    BY <1>1, <2>1, SameText DEF TextWhole
  <2> QED
    BY <1>2, <1>4, <2>1, <2>2
<1>6. CASE LayoutDone(t.todo)
  <2> DEFINE sum(p) == SumSet({s.copies : s \in {l \in t.todo : l.page = p}})
  <2>1. t.todo \in SUBSET Loaded /\ OnePerPage(t.todo)
    BY <1>1, <1>3, LoadedTyped
  <2>2. \A p \in Pages : /\ sum(p) \in Nat
                         /\ \A l \in t.todo : l.page = p => sum(p) = l.copies
                         /\ (\A l \in t.todo : l.page # p) => sum(p) = 0
    BY <2>1, CopiesOfPage
  <2>3. /\ blocks' = IF form = "blank" THEN blocks ELSE [p \in Pages |-> blocks[p] + sum(p)]
        /\ status' = "layout_done" /\ UNCHANGED <<pageRows, chunks>>
    BY <1>6 DEF LayoutDone
  <2> HIDE DEF sum
  <2>4. \A p \in Pages : pageRows[p].full \in Nat /\ blocks[p] \in Nat
    BY <1>1 DEF DocTyped
  <2>5. Readable' = Readable
    BY <1>1, <2>3 DEF Readable
  <2>6. ASSUME NEW p \in Readable PROVE blocks'[p] > 0
    <3>1. p \in Pages /\ form # "blank" /\ pageRows[p].full > 0
      BY DEF Readable
    <3>2. [page |-> p, copies |-> pageRows[p].full] \in t.todo
      BY <1>3, <3>1 DEF SpansLoaded
    <3>3. sum(p) = pageRows[p].full
      BY <2>2, <3>1, <3>2
    <3> QED
      BY <2>3, <2>4, <3>1, <3>3
  <2>7. ASSUME NEW p \in Pages, blocks'[p] > 0 PROVE p \in Readable
    <3>1. CASE blocks[p] > 0
      BY <1>1, <3>1 DEF TextOnly
    <3>2. CASE ~(blocks[p] > 0)
      <4>1. form # "blank" /\ sum(p) # 0
        BY <2>2, <2>3, <2>4, <2>7, <3>2
      <4>2. PICK l \in t.todo : l.page = p
        BY <2>2, <4>1
      <4> QED
        BY <1>3, <4>1, <4>2 DEF SpansLoaded, Readable
    <3> QED
      BY <3>1, <3>2
  <2>8. TextWhole'
    BY <1>1, <2>3, <2>5, <2>6, <2>7 DEF TextWhole, BlocksWhole, TextOnly
  <2> QED
    BY <1>2, <1>4, <2>3, <2>8
<1> QED
  BY <1>5, <1>6 DEF LayoutWork

\* Chunking leaves the text of every page in the chunks.
LEMMA ChunkingAlive ==
    ASSUME OneInv, DocExists, NEW t \in tasks, ChunkingWork(t)
    PROVE  DocExists' /\ Alive' /\ OneWorks' /\ deleting' = deleting
<1>1. /\ Alive /\ AtPoint(KindOf(t), t.pc, t.todo) /\ KindOf(t) \in PipelineKinds
      /\ form' = form
  BY AtWorkOn DEF ChunkingWork, setting
<1>2. /\ KindOf(t) = "chunking" /\ tasks' = Moved(t, "finish", {})
      /\ UNCHANGED <<pageRows, blocks, jobs, deleting>>
      /\ status' = "chunking_done" /\ chunks' = chunks \cup NewChunks(t.todo)
  BY DEF ChunkingWork, Goto
<1>3. t.todo = BlocksLoaded /\ status = "chunking_running"
  BY <1>1, <1>2 DEF ChunkingWork, AtPoint
<1>4. ASSUME NEW l \in t.todo PROVE \E c \in NewChunks(t.todo) : c.id.page = l.page
  <2> DEFINE run == Min((1 .. Cardinality(UsedRuns) + 1) \ UsedRuns)
             c == [id |-> [run |-> run, page |-> l.page], copies |-> l.copies, embedded |-> FALSE]
  <2>1. c \in NewChunks(t.todo)
    BY DEF NewChunks
  <2>2. c.id.page = l.page
    OBVIOUS
  <2> QED
    BY <2>1, <2>2
<1>10. ASSUME NEW c \in NewChunks(t.todo) PROVE \E l \in t.todo : c.id.page = l.page
  BY DEF NewChunks
<1>11. Readable' = Readable
  BY <1>1, <1>2 DEF Readable
<1>5. BlocksWhole /\ TextOnly
  BY <1>1, <1>3 DEF Alive, TextWhole
<1>12. TextOnly'
  <2>1. ASSUME NEW c \in NewChunks(t.todo) PROVE c.id.page \in Readable
    <3>1. PICK l \in BlocksLoaded : c.id.page = l.page
      BY <1>3, <1>10
    <3>2. l.page \in Pages /\ blocks[l.page] > 0
      BY DEF BlocksLoaded
    <3> QED
      BY <1>5, <3>1, <3>2 DEF TextOnly
  <2> QED
    BY <1>2, <1>5, <1>11, <2>1 DEF TextOnly
<1>6. ASSUME NEW p \in Pages, blocks[p] > 0 PROVE \E l \in t.todo : l.page = p
  <2>1. [page |-> p, copies |-> blocks[p]] \in t.todo
    BY <1>3, <1>6 DEF BlocksLoaded
  <2> QED
    BY <2>1
<1>7. ChunksWhole'
  <2>1. ASSUME NEW p \in Readable PROVE \E c \in chunks' : c.id.page = p
    <3>1. p \in Pages /\ blocks[p] > 0
      BY <1>5 DEF BlocksWhole, Readable
    <3>2. PICK l \in t.todo : l.page = p
      BY <1>6, <3>1
    <3> QED
      BY <1>2, <1>4, <3>2
  <2> QED
    BY <1>11, <2>1 DEF ChunksWhole
<1>8. TextWhole' /\ DocExists'
  BY <1>2, <1>7, <1>12 DEF TextWhole, DocExists
<1>9. Fits(KindOf(t), status)' /\ AtPoint(KindOf(t), "finish", {})'
  BY <1>2 DEF Fits, AtPoint, NextKind
<1> QED
  BY <1>2, <1>8, <1>9, MovedAlive

\* A stage claims the document and what it has to work on, or goes on to the end.
LEMMA ClaimAlive ==
    ASSUME OneInv, DocExists, NEW t \in tasks,
           LayoutClaim(t) \/ ChunkingClaim(t) \/ EmbeddingClaim(t)
    PROVE  DocExists' /\ Alive' /\ OneWorks' /\ deleting' = deleting
<1>1. /\ Alive /\ AtPoint(KindOf(t), t.pc, t.todo) /\ KindOf(t) \in PipelineKinds
      /\ TextWhole
  BY AtWorkOn DEF Alive
<1>2. t.pc = "start" /\ UNCHANGED <<jobs, deleting, form>>
  BY DEF LayoutClaim, ChunkingClaim, EmbeddingClaim, StageClaims, setting
<1>3. Fits(KindOf(t), status)
  BY <1>1, <1>2 DEF AtPoint
<1>4. ASSUME UNCHANGED docVars, tasks' = Moved(t, "finish", {}), AtPoint(KindOf(t), "finish", {})
      PROVE  DocExists' /\ Alive' /\ OneWorks'
  BY <1>2, <1>4, WentAlive DEF DocExists, docVars
<1>5. CASE LayoutClaim(t)
  <2>1. CASE status = "ocr_done" /\ SetStatus("layout_running")
             /\ tasks' = Moved(t, "work", SpansLoaded)
    <3>1. PICK todo : todo = SpansLoaded
      OBVIOUS
    <3>2. Fits(KindOf(t), status)' /\ DocExists'
      BY <1>5, <2>1 DEF LayoutClaim, SetStatus, Fits, DocExists
    <3>4. TextWhole'
      BY <1>1, <1>2, <2>1, SameText DEF SetStatus, TextWhole
    <3>3. AtPoint(KindOf(t), "work", todo)'
      BY <1>5, <2>1, <3>1 DEF LayoutClaim, SetStatus, AtPoint, SpansLoaded
    <3> QED
      BY <1>2, <2>1, <3>1, <3>2, <3>3, <3>4, MovedAlive
  <2>2. CASE status # "ocr_done" /\ UNCHANGED docVars /\ tasks' = Moved(t, "finish", {})
    <3>1. AtPoint(KindOf(t), "finish", {})
      BY <1>3, <1>5, <2>2 DEF LayoutClaim, AtPoint, Fits, NextKind, PipelineKinds
    <3> QED
      BY <1>2, <1>4, <2>2, <3>1
  <2> QED
    BY <1>2, <1>5, <2>1, <2>2 DEF LayoutClaim, StageClaims, Goto
<1>6. CASE ChunkingClaim(t)
  <2>1. CASE status = "layout_done" /\ SetStatus("chunking_running")
             /\ tasks' = Moved(t, "work", BlocksLoaded)
    <3>1. PICK todo : todo = BlocksLoaded
      OBVIOUS
    <3>2. Fits(KindOf(t), status)' /\ DocExists'
      BY <1>6, <2>1 DEF ChunkingClaim, SetStatus, Fits, DocExists
    <3>3. TextWhole'
      BY <1>1, <1>2, <2>1, SameText DEF SetStatus, TextWhole
    <3>4. AtPoint(KindOf(t), "work", todo)'
      BY <1>6, <2>1, <3>1 DEF ChunkingClaim, SetStatus, AtPoint, BlocksLoaded
    <3> QED
      BY <1>2, <2>1, <3>1, <3>2, <3>3, <3>4, MovedAlive
  <2>2. CASE status # "layout_done" /\ UNCHANGED docVars /\ tasks' = Moved(t, "finish", {})
    <3>1. AtPoint(KindOf(t), "finish", {})
      BY <1>3, <1>6, <2>2 DEF ChunkingClaim, AtPoint, Fits, NextKind, PipelineKinds
    <3> QED
      BY <1>2, <1>4, <2>2, <3>1
  <2> QED
    BY <1>2, <1>6, <2>1, <2>2 DEF ChunkingClaim, StageClaims, Goto
<1>7. CASE EmbeddingClaim(t)
  <2>1. CASE status \in {"chunking_done", "embedding_running"} /\ SetStatus("embedding_running")
             /\ tasks' = Moved(t, "batches", Unembedded)
    <3>1. PICK todo : todo = Unembedded
      OBVIOUS
    <3>2. Fits(KindOf(t), status)' /\ DocExists'
      BY <1>7, <2>1 DEF EmbeddingClaim, SetStatus, Fits, DocExists
    <3>3. TextWhole'
      BY <1>1, <1>2, <2>1, SameText DEF SetStatus, TextWhole
    <3>4. AtPoint(KindOf(t), "batches", todo)'
      BY <1>7, <2>1, <3>1 DEF EmbeddingClaim, SetStatus, AtPoint, Unembedded
    <3> QED
      BY <1>2, <2>1, <3>1, <3>2, <3>3, <3>4, MovedAlive
  <2>2. CASE UNCHANGED docVars /\ tasks' = Moved(t, "finish", {})
    <3>1. AtPoint(KindOf(t), "finish", {})
      BY <1>3, <1>7 DEF EmbeddingClaim, AtPoint, NextKind
    <3> QED
      BY <1>2, <1>4, <2>2, <3>1
  <2> QED
    BY <1>2, <1>7, <2>1, <2>2 DEF EmbeddingClaim, StageClaims, Goto
<1> QED
  BY <1>2, <1>5, <1>6, <1>7

\* The embedding of a batch leaves fewer chunks without a vector; the last one none.
LEMMA EmbeddingAlive ==
    ASSUME OneInv, DocExists, NEW t \in tasks,
           EmbeddingDone(t) \/ \E id \in t.todo : EmbeddingBatch(t, id)
    PROVE  DocExists' /\ Alive' /\ OneWorks' /\ deleting' = deleting
<1>1. /\ Alive /\ AtPoint(KindOf(t), t.pc, t.todo) /\ DocTyped
  BY AtWorkOn
<1>2. t.pc = "batches" /\ UNCHANGED <<jobs, deleting, form>>
  BY DEF EmbeddingDone, EmbeddingBatch, setting
<1>3. KindOf(t) = "embedding" /\ status = "embedding_running" /\ Unembedded \subseteq t.todo
  BY <1>1, <1>2 DEF AtPoint
<1>4. ChunksWhole /\ TextOnly
  BY <1>1, <1>3 DEF Alive, TextWhole
<1>5. CASE EmbeddingDone(t)
  <2>1. /\ status' = "ready" /\ UNCHANGED <<pageRows, blocks, chunks>>
        /\ tasks' = Moved(t, "finish", {}) /\ t.todo = {}
    BY <1>5 DEF EmbeddingDone, SetStatus, Goto
  <2>2. \A c \in chunks : c.embedded
    BY <1>3, <2>1 DEF Unembedded
  <2>3. TextWhole' /\ DocExists'
    BY <1>2, <1>4, <2>1, <2>2, SameText DEF TextWhole, DocExists
  <2>4. Fits(KindOf(t), status)' /\ AtPoint(KindOf(t), "finish", {})'
    BY <1>3, <2>1 DEF Fits, AtPoint, NextKind
  <2> QED
    BY <1>2, <2>1, <2>3, <2>4, MovedAlive
<1>6. ASSUME NEW id \in t.todo, EmbeddingBatch(t, id)
      PROVE  DocExists' /\ Alive' /\ OneWorks'
  <2>1. /\ chunks' = {IF c.id = id THEN [c EXCEPT !.embedded = TRUE] ELSE c : c \in chunks}
        /\ tasks' = Moved(t, "batches", t.todo \ {id})
        /\ UNCHANGED <<status, pageRows, blocks>>
    BY <1>6 DEF EmbeddingBatch
  <2>2. \A c \in chunks : /\ [c EXCEPT !.embedded = TRUE].id = c.id
                          /\ [c EXCEPT !.embedded = TRUE].embedded
    BY <1>1 DEF DocTyped, Chunk
  <2>3. PICK todo : todo = t.todo \ {id}
    OBVIOUS
  <2>4. Unembedded' \subseteq todo
    <3>1. ASSUME NEW d \in chunks', ~d.embedded PROVE d.id \in todo
      <4>1. PICK c \in chunks : d = IF c.id = id THEN [c EXCEPT !.embedded = TRUE] ELSE c
        BY <2>1
      <4>2. c.id # id /\ d = c
        BY <2>2, <3>1, <4>1
      <4> QED
        BY <1>3, <2>3, <3>1, <4>2 DEF Unembedded
    <3> QED
      BY <3>1 DEF Unembedded
  <2>5. /\ \A c \in chunks : \E d \in chunks' : d.id = c.id
        /\ \A d \in chunks' : \E c \in chunks : d.id = c.id
    BY <2>1, <2>2
  <2>9. Readable' = Readable
    BY <1>2, <2>1 DEF Readable
  <2>6. ChunksWhole' /\ TextOnly'
    <3>1. TextOnly'
      BY <1>4, <2>1, <2>5, <2>9 DEF TextOnly
    <3>2. ASSUME NEW p \in Readable PROVE \E d \in chunks' : d.id.page = p
      <4>1. PICK c \in chunks : c.id.page = p
        BY <1>4 DEF ChunksWhole
      <4>2. PICK d \in chunks' : d.id = c.id
        BY <2>5
      <4> QED
        BY <4>1, <4>2
    <3> QED
      BY <2>9, <3>1, <3>2 DEF ChunksWhole
  <2>7. TextWhole' /\ DocExists'
    BY <1>3, <2>1, <2>6 DEF TextWhole, DocExists
  <2>8. Fits(KindOf(t), status)' /\ AtPoint(KindOf(t), "batches", todo)'
    BY <1>3, <2>1, <2>4 DEF Fits, AtPoint
  <2> QED
    BY <1>2, <2>1, <2>3, <2>7, <2>8, MovedAlive
<1> QED
  BY <1>2, <1>5, <1>6

\* The later stages keep the document to themselves.
LEMMA StageAlive ==
    ASSUME OneInv, DocExists, NEW t \in tasks, StageStep(t)
    PROVE  DocExists' /\ Alive' /\ OneWorks' /\ deleting' = deleting
<1>1. CASE StageFails(t)
  BY <1>1, FailedAlive DEF StageFails, FailDocument
<1> QED
  BY <1>1, ClaimAlive, LayoutAlive, ChunkingAlive, EmbeddingAlive DEF StageStep

\* So does a statement that fails.
LEMMA AbortAlive ==
    ASSUME OneInv, DocExists, NEW t \in tasks, StageAborts(t)
    PROVE  DocExists' /\ Alive' /\ OneWorks' /\ deleting' = deleting
<1>1. AtPoint(KindOf(t), t.pc, t.todo)
  BY AtWorkOn
<1>2. t.pc \in {"page", "work", "batches"} /\ UNCHANGED <<docVars, jobs, deleting, form>>
      /\ tasks' = Moved(t, "retry", {})
  BY DEF StageAborts, Goto, Fault
<1>3. AtPoint(KindOf(t), "retry", {})
  BY <1>1, <1>2 DEF AtPoint, Fits
<1> QED
  BY <1>2, <1>3, WentAlive DEF DocExists, docVars

\* A job of the document is claimed.
LEMMA ClaimsAlive ==
    ASSUME OneInv, DocExists, NEW w \in Workers, NEW j \in JobIds, Claim(w, j)
    PROVE  Alive' /\ OneWorks'
<1>1. Alive /\ JobsTyped(jobs)
  BY DEF OneInv, TypeInv
<1>2. IsOpen(jobs[j]) /\ jobs[j].status = "pending" /\ jobs[j] \in Row
  BY <1>1 DEF Claim, Claimable, IsOpen, OpenStatuses, JobsTyped, Table
<1>3. tasks = {}
  <2> SUFFICES ASSUME NEW t \in tasks PROVE FALSE
    OBVIOUS
  <2>1. HeldRow(t) /\ t.job = j
    BY <1>2, AtWorkOn
  <2> QED
    BY <1>2, <2>1 DEF HeldRow
<1> PICK u : u = [job |-> j, n |-> jobs[j].attempts + 1, orphan |-> 0, worker |-> w,
                  pc |-> "start", todo |-> {}]
  OBVIOUS
<1> PICK row : row = ClaimedRow(jobs[j], w)
  OBVIOUS
<1>4. tasks' = {u} /\ jobs' = [jobs EXCEPT ![j] = row] /\ UNCHANGED <<docVars, form>>
  BY <1>3 DEF Claim, setting
<1>5. u.job = j /\ u.orphan = 0 /\ u.worker = w /\ u.pc = "start" /\ u.todo = {}
  OBVIOUS
<1>6. row.status = "running" /\ row.fresh /\ row.worker = w
  BY <1>2 DEF ClaimedRow, Row
<1>7. jobs'[j] = row /\ \A i \in JobIds : i # j => jobs'[i] = jobs[i]
  BY <1>1, <1>4 DEF JobsTyped, Table
<1>8. UNCHANGED <<status, pageRows, blocks, chunks>>
  BY <1>4 DEF docVars
<1>9. HeldRow(u)' /\ Fits(KindOf(u), status) /\ Fits(j[1], status)
  BY <1>1, <1>2, <1>5, <1>6, <1>7 DEF HeldRow, Alive, KindOf
<1>10. AtPoint(KindOf(u), u.pc, u.todo)'
  BY <1>5, <1>8, <1>9 DEF AtPoint
<1>11. \A i \in JobIds : IsOpen(jobs[i])' => i = j
  BY <1>1, <1>2, <1>7 DEF Alive, OneOpen
<1>12. OneOpen' /\ \A i \in JobIds : IsOpen(jobs[i])' => Fits(i[1], status)'
  BY <1>8, <1>9, <1>11 DEF OneOpen
<1>13. Exists(jobs[StageKey("ocr")])'
  <2>1. StageKey("ocr") \in JobIds
    BY StageKeys DEF PipelineKinds
  <2> QED
    BY <1>1, <1>6, <1>7, <2>1 DEF Alive, Exists
<1>14. TextWhole'
  BY <1>1, <1>4, <1>8, SameText DEF Alive
<1> QED
  BY <1>4, <1>9, <1>10, <1>12, <1>13, <1>14 DEF Alive, OneTask, OneWorks

\* The job of a handler ends, and the next one is enqueued; or it is to be tried again.
LEMMA QueueAlive ==
    ASSUME OneInv, DocExists, NEW t \in tasks, Finish(t) \/ Raise(t)
    PROVE  Alive' /\ OneWorks'
<1>1. /\ Alive /\ TypeInv /\ KindOf(t) \in PipelineKinds /\ t.job \in JobIds /\ HasRow(t)
      /\ AtPoint(KindOf(t), t.pc, t.todo) /\ JobsTyped(jobs)
      /\ \A j \in JobIds : IsOpen(jobs[j]) <=> j = t.job
  BY AtWorkOn
<1>2. tasks' = tasks \ {t} /\ UNCHANGED <<docVars, form>>
  BY DEF Finish, Raise, setting
<1>3. jobs[t.job] \in Row /\ jobs[t.job].status \in {"pending", "running"}
  BY <1>1 DEF JobsTyped, Table, IsOpen, OpenStatuses
<1>4. CASE Raise(t)
  <2>1. (t.pc = "retry") \in BOOLEAN
    OBVIOUS
  <2>2. PICK b \in BOOLEAN : jobs' = SetRow(t, FailedRow(jobs[t.job], b))
    BY <1>4, <2>1 DEF Raise
  <2>3. FailedRow(jobs[t.job], b).status \in {"pending", "failed"}
    BY <1>3 DEF FailedRow, FailStatus, Exists, Row
  <2>4. \A j \in JobIds : jobs'[j] = IF j = t.job THEN FailedRow(jobs[t.job], b) ELSE jobs[j]
    BY <1>1, <2>2, OwnRowReplaced
  <2>5. \A j \in JobIds : IsOpen(jobs[j])' => j = t.job
    BY <1>1, <2>4
  <2>6. \A j \in JobIds : Exists(jobs[j]) => Exists(jobs[j])'
    BY <2>3, <2>4 DEF Exists
  <2>7. Fits(KindOf(t), status)
    BY <1>1, <1>4 DEF Raise, AtPoint
  <2> QED
    BY <1>2, <2>5, <2>6, <2>7, EndedAlive DEF KindOf
<1>5. CASE Finish(t)
  <2>1. CompletedRow(jobs[t.job]).status = "completed"
    BY <1>3 DEF CompletedRow, Exists, Row
  <2>2. \A j \in JobIds : Completed(t)[j] =
                              IF j = t.job THEN CompletedRow(jobs[t.job]) ELSE jobs[j]
    BY <1>1, OwnRowReplaced DEF Completed
  <2>3. \A j \in JobIds : /\ ~IsOpen(Completed(t)[j])
                          /\ Exists(jobs[j]) => Exists(Completed(t)[j])
    BY <1>1, <2>1, <2>2 DEF Exists, IsOpen, OpenStatuses
  <2>4. JobsTyped(Completed(t))
    <3>1. TaskTyped(t) /\ CompletedRow(jobs[t.job]) \in Row
      BY <1>1, <1>3, RowStatements DEF TypeInv
    <3> QED
      BY <1>1, <3>1, SetRowTyped DEF Completed
  <2>5. CASE KindOf(t) \notin DOMAIN NextKind
    <3>1. jobs' = Completed(t)
      BY <1>5, <2>5 DEF Finish
    <3> QED
      BY <1>2, <2>3, <3>1, EndedAlive
  <2>6. CASE KindOf(t) \in DOMAIN NextKind
    <3> DEFINE next == NextKind[KindOf(t)]
               key == StageKey(next)
    <3>1. jobs' = Insert(Completed(t), key)
      BY <1>5, <2>6 DEF Finish
    <3>2. Fits(next, status)
      BY <1>1, <1>5, <2>6 DEF Finish, AtPoint
    <3>3. next \in PipelineKinds
      BY <2>6 DEF NextKind, PipelineKinds
    <3> HIDE DEF next
    <3>4. key \in DedupKeys /\ key \in JobIds /\ key[1] = next
      BY <3>3, StageKeys
    <3> HIDE DEF key
    <3>5. \A j \in JobIds : /\ j # key => jobs'[j] = Completed(t)[j]
                            /\ jobs'[key] = IF Exists(Completed(t)[key]) THEN Completed(t)[key]
                                            ELSE NewRow(key[1], Doc, key)
      BY <2>4, <3>1, <3>4, InsertRows
    <3>6. \A j \in JobIds : IsOpen(jobs[j])' => j = key
      BY <2>3, <3>5
    <3>7. \A j \in JobIds : Exists(jobs[j]) => Exists(jobs[j])'
      BY <2>3, <3>4, <3>5 DEF NewRow, Exists
    <3> QED
      BY <1>2, <3>2, <3>4, <3>6, <3>7, EndedAlive
  <2> QED
    BY <2>5, <2>6
<1> QED
  BY <1>4, <1>5

\* No task comes, no row opens or closes, and the rows of tasks keep their holders.
LEMMA SameAlive ==
    ASSUME OneInv, DocExists, tasks' \subseteq tasks, UNCHANGED <<docVars, form>>,
           \A j \in JobIds : Exists(jobs[j]) => Exists(jobs[j])',
           \A j \in JobIds : IsOpen(jobs[j])' => IsOpen(jobs[j]),
           \A t \in tasks' : HeldRow(t)'
    PROVE  DocExists' /\ Alive' /\ OneWorks'
<1>1. Alive /\ OneWorks
  BY DEF OneInv
<1>2. UNCHANGED <<status, pageRows, blocks, chunks>>
  BY DEF docVars
<1>3. TextWhole' /\ DocExists'
  BY <1>1, <1>2, SameText DEF Alive, DocExists
<1>4. StageKey("ocr") \in JobIds
  BY StageKeys DEF PipelineKinds
<1>5. Exists(jobs[StageKey("ocr")])'
  BY <1>1, <1>4 DEF Alive
<1>6. OneOpen' /\ OneTask' /\ OneWorks'
  BY <1>1 DEF Alive, OneOpen, OneTask, OneWorks
<1>7. \A t \in tasks : AtPoint(KindOf(t), t.pc, t.todo) => AtPoint(KindOf(t), t.pc, t.todo)'
  BY <1>2 DEF AtPoint, SpansLoaded, BlocksLoaded, Unembedded
<1>8. \A t \in tasks' : HeldRow(t)' /\ AtPoint(KindOf(t), t.pc, t.todo)'
  BY <1>1, <1>7 DEF Alive
<1>9. \A j \in JobIds : IsOpen(jobs[j])' => Fits(j[1], status)'
  BY <1>1, <1>2 DEF Alive
<1> QED
  BY <1>3, <1>5, <1>6, <1>8, <1>9 DEF Alive

\* Heartbeats, crashes, and leases that expire because nobody holds them.
LEMMA LeaseAlive ==
    ASSUME OneInv, DocExists,
           \/ \E t \in tasks : Heartbeat(t)
           \/ \E w \in Workers : Crash(w)
           \/ \E j \in JobIds : LeaseExpires(j)
    PROVE  DocExists' /\ Alive' /\ OneWorks' /\ deleting' = deleting
<1>1. JobsTyped(jobs) /\ \A t \in tasks : t.job \in JobIds /\ HeldRow(t) /\ HasRow(t)
  BY AtWorkOn DEF OneInv, TypeInv
<1>2. ASSUME NEW t \in tasks, Heartbeat(t)
      PROVE  DocExists' /\ Alive' /\ OneWorks' /\ deleting' = deleting
  <2>1. \A j \in JobIds : jobs'[j] = IF j = t.job THEN HeartbeatRow(jobs[t.job], t.worker) ELSE jobs[j]
    BY <1>1, <1>2, SetRowRows DEF Heartbeat
  <2>2. jobs[t.job] \in Row
    BY <1>1 DEF JobsTyped, Table
  <2>3. LET r == HeartbeatRow(jobs[t.job], t.worker) IN
        /\ r.status = jobs[t.job].status /\ r.worker = jobs[t.job].worker
        /\ jobs[t.job].fresh => r.fresh
    BY <2>2 DEF HeartbeatRow, Row
  <2>4. UNCHANGED <<docVars, tasks, deleting, form>>
    BY <1>2 DEF Heartbeat, setting
  <2>5. \A j \in JobIds : /\ jobs'[j].status = jobs[j].status /\ jobs'[j].worker = jobs[j].worker
                          /\ jobs[j].fresh => jobs'[j].fresh
    BY <2>1, <2>3
  <2>6. \A u \in tasks' : HeldRow(u)'
    BY <1>1, <2>4, <2>5 DEF HeldRow
  <2> QED
    BY <2>4, <2>5, <2>6, SameAlive DEF Exists, IsOpen
<1>3. CASE \E w \in Workers : Crash(w)
  <2>1. tasks' \subseteq tasks /\ UNCHANGED <<docVars, jobs, deleting, form>>
    BY <1>3 DEF Crash, Fault
  <2> QED
    BY <1>1, <2>1, SameAlive DEF HeldRow
<1>4. ASSUME NEW j \in JobIds, LeaseExpires(j)
      PROVE  DocExists' /\ Alive' /\ OneWorks' /\ deleting' = deleting
  <2>1. Holders(j) = {} /\ jobs' = [jobs EXCEPT ![j].fresh = FALSE]
        /\ UNCHANGED <<docVars, tasks, deleting, form>>
    BY <1>4 DEF LeaseExpires, Late, setting
  <2>2. \A t \in tasks : t.job # j
    BY <1>1, <2>1 DEF Holders, HeldRow
  <2>3. jobs[j] \in Row
    BY <1>1 DEF JobsTyped, Table
  <2>4. \A i \in JobIds : /\ i # j => jobs'[i] = jobs[i]
                          /\ jobs'[i].status = jobs[i].status
    BY <1>1, <2>1, <2>3 DEF JobsTyped, Table, Row
  <2>5. \A u \in tasks' : HeldRow(u)'
    BY <1>1, <2>1, <2>2, <2>4 DEF HeldRow
  <2> QED
    BY <2>1, <2>4, <2>5, SameAlive DEF Exists, IsOpen
<1> QED
  BY <1>2, <1>3, <1>4

\* The reconciler enqueues a stage only when nobody has a job, and the stage fits.
LEMMA ReconcileAlive ==
    ASSUME OneInv, DocExists, Reconcile
    PROVE  DocExists' /\ Alive' /\ OneWorks' /\ deleting' = deleting
<1>1. /\ JobsTyped(jobs) /\ Alive
      /\ \A t \in tasks : t.job \in JobIds /\ HeldRow(t) /\ IsOpen(jobs[t.job])
  BY AtWorkOn DEF OneInv, TypeInv
<1>2. UNCHANGED <<docVars, tasks, deleting, form>>
  BY DEF Reconcile, setting
<1>3. \A j \in JobIds : AfterReclaim[j] = ReclaimedRow(jobs[j]) /\ jobs[j] \in Row
  BY <1>1 DEF AfterReclaim, JobsTyped, Table
<1>4. \A j \in JobIds : /\ IsOpen(AfterReclaim[j]) <=> IsOpen(jobs[j])
                        /\ Exists(AfterReclaim[j]) <=> Exists(jobs[j])
                        /\ jobs[j].fresh => AfterReclaim[j] = jobs[j]
  BY <1>3 DEF ReclaimedRow, Stuck, IsOpen, OpenStatuses, Exists, Row
<1>5. CASE jobs' = AfterReclaim
  <2>1. \A u \in tasks' : HeldRow(u)'
    BY <1>1, <1>2, <1>4, <1>5 DEF HeldRow
  <2> QED
    BY <1>2, <1>4, <1>5, <2>1, SameAlive
<1>6. CASE Partial(AfterReclaim) /\ jobs' = Insert(AfterReclaim, ReconcileKey(NextStage[status]))
  <2>1. \A j \in JobIds : ~IsOpen(AfterReclaim[j]) /\ ~IsOpen(jobs[j])
    BY <1>4, <1>6 DEF Partial, OpenJobs
  <2>2. tasks = {}
    BY <1>1, <2>1
  <2> DEFINE stage == NextStage[status]
             key == ReconcileKey(stage)
  <2>3. stage \in PipelineKinds /\ Fits(stage, status)
    BY <1>6 DEF Partial, NextStage, PipelineKinds, Fits
  <2>4. jobs' = Insert(AfterReclaim, key)
    BY <1>6
  <2> HIDE DEF stage
  <2>5. key \in DedupKeys /\ key \in JobIds /\ key[1] = stage
    BY <2>3, StageKeys
  <2> HIDE DEF key
  <2>6. \A j \in JobIds : /\ j # key => jobs'[j] = AfterReclaim[j]
                          /\ jobs'[key] = IF Exists(AfterReclaim[key]) THEN AfterReclaim[key]
                                          ELSE NewRow(key[1], Doc, key)
    BY <1>1, <2>4, <2>5, ReclaimTyped, InsertRows
  <2>7. \A j \in JobIds : IsOpen(jobs[j])' => j = key
    BY <2>1, <2>6
  <2>8. \A j \in JobIds : Exists(jobs[j]) => Exists(jobs[j])'
    BY <1>4, <2>6 DEF NewRow, Exists
  <2>9. UNCHANGED <<status, pageRows, blocks, chunks>>
    BY <1>2 DEF docVars
  <2>10. TextWhole' /\ DocExists'
    BY <1>1, <1>2, <2>9, SameText DEF Alive, DocExists
  <2>11. OneOpen' /\ \A j \in JobIds : IsOpen(jobs[j])' => Fits(j[1], status)'
    BY <2>3, <2>5, <2>7, <2>9 DEF OneOpen
  <2>12. Exists(jobs[StageKey("ocr")])'
    <3>1. StageKey("ocr") \in JobIds
      BY StageKeys DEF PipelineKinds
    <3> QED
      BY <1>1, <2>8, <3>1 DEF Alive
  <2> QED
    BY <1>2, <2>2, <2>10, <2>11, <2>12 DEF Alive, OneTask, OneWorks
<1> QED
  BY <1>5, <1>6 DEF Reconcile

\* A new upload of the content finds the job it would enqueue, and leaves the document to
\* whoever has it.
LEMMA ReuploadAlive ==
    ASSUME OneInv, DocExists, Reupload
    PROVE  DocExists' /\ Alive' /\ OneWorks' /\ deleting' = deleting
<1>1. Alive /\ OneWorks /\ \A t \in tasks : KindOf(t) \in PipelineKinds
  BY AtWorkOn DEF OneInv
<1>2. /\ status = "failed" /\ status' = "uploaded"
      /\ UNCHANGED <<pageRows, blocks, chunks, tasks, deleting, form>>
      /\ jobs' = Insert(jobs, StageKey("ocr"))
  BY DEF Reupload, SetStatus, Call
<1>3. jobs' = jobs
  BY <1>1, <1>2 DEF Alive, Insert
<1>4. \A j \in JobIds : IsOpen(jobs[j]) => Fits(j[1], status)'
  BY <1>1, <1>2 DEF Alive, Fits
<1>5. ASSUME NEW t \in tasks PROVE AtPoint(KindOf(t), t.pc, t.todo)'
  <2>1. AtPoint(KindOf(t), t.pc, t.todo) /\ KindOf(t) \in PipelineKinds
    BY <1>1 DEF Alive
  <2>2. KindOf(t) \in DOMAIN NextKind => NextKind[KindOf(t)] \in PipelineKinds
    BY DEF NextKind, PipelineKinds
  <2> QED
    BY <1>2, <2>1, <2>2 DEF AtPoint, Fits
<1>6. TextWhole' /\ DocExists'
  BY <1>1, <1>2, SameText DEF Alive, TextWhole, DocExists
<1>7. \A t \in tasks' : HeldRow(t)' /\ AtPoint(KindOf(t), t.pc, t.todo)'
  BY <1>1, <1>2, <1>3, <1>5 DEF Alive, HeldRow
<1>8. OneOpen' /\ OneTask' /\ OneWorks' /\ Exists(jobs[StageKey("ocr")])'
  BY <1>1, <1>2, <1>3 DEF Alive, OneOpen, OneTask, OneWorks
<1> QED
  BY <1>2, <1>3, <1>4, <1>6, <1>7, <1>8 DEF Alive

\* A request to delete the document flags its jobs, and may give up.
LEMMA RequestAlive ==
    ASSUME OneInv, DocExists, RequestDelete \/ DeleteTimesOut
    PROVE  DocExists' /\ Alive' /\ OneWorks'
<1>1. JobsTyped(jobs) /\ \A t \in tasks : t.job \in JobIds /\ HeldRow(t)
  BY AtWorkOn DEF OneInv, TypeInv
<1>2. UNCHANGED <<docVars, tasks, form>>
  BY DEF RequestDelete, DeleteTimesOut, Call, setting
<1>3. \A j \in JobIds : jobs[j] \in Row
  BY <1>1 DEF JobsTyped, Table
<1>4. \A j \in JobIds : /\ jobs'[j].status = jobs[j].status /\ jobs'[j].worker = jobs[j].worker
                        /\ jobs'[j].fresh = jobs[j].fresh
  BY <1>3 DEF RequestDelete, DeleteTimesOut, CancelRequestedForDocument, FlaggedRow, Row
<1>5. \A u \in tasks' : HeldRow(u)'
  BY <1>1, <1>2, <1>4 DEF HeldRow
<1> QED
  BY <1>2, <1>4, <1>5, SameAlive DEF Exists, IsOpen

\* A deletion makes orphans of the tasks.
LEMMA DeletionEnds ==
    ASSUME OneInv, DeleteRows
    PROVE  status' = "deleted" /\ ~deleting' /\ OneWorks'
<1>1. Alive
  BY DEF OneInv, DeleteRows
<1>2. status' = "deleted" /\ ~deleting' /\ OrphanTasks(operations + 1)
  BY DEF DeleteRows
<1>3. OneWorks'
  BY <1>1, <1>2 DEF Alive, OneTask, OneWorks, OrphanTasks
<1> QED
  BY <1>2, <1>3

\* A step of a document that exists.
LEMMA AliveStep ==
    ASSUME OneAtATime, OneInv, DocExists, Next
    PROVE  /\ (DocExists' /\ Alive') \/ status' = "deleted"
           /\ OneWorks' /\ (deleting' => DocExists')
<1>1. ASSUME DocExists', Alive', OneWorks'
      PROVE  /\ (DocExists' /\ Alive') \/ status' = "deleted"
             /\ OneWorks' /\ (deleting' => DocExists')
  BY <1>1
<1>2. CASE HttpStep
  <2>1. ~Upload
    BY DEF Upload, DocExists
  <2>2. CASE DeleteRows
    BY <2>2, DeletionEnds
  <2> QED
    BY <1>1, <1>2, <2>1, <2>2, NoRequests, ReuploadAlive, RequestAlive DEF OneInv
<1>3. CASE WorkerStep
  <2>1. ASSUME NEW t \in tasks, HandlerStep(t) \/ Heartbeat(t) \/ StageAborts(t)
        PROVE  DocExists' /\ Alive' /\ OneWorks'
    <3>1. CASE Finish(t) \/ Raise(t)
      <4>1. DocExists'
        BY <3>1 DEF Finish, Raise, docVars, DocExists
      <4> QED
        BY <3>1, <4>1, QueueAlive
    <3> QED
      BY <2>1, <3>1, OcrAlive, StageAlive, AbortAlive, LeaseAlive DEF HandlerStep
  <2>2. ASSUME NEW w \in Workers, NEW j \in JobIds, Claim(w, j)
        PROVE  DocExists' /\ Alive' /\ OneWorks'
    <3>1. DocExists'
      BY <2>2 DEF Claim, docVars, DocExists
    <3> QED
      BY <2>2, <3>1, ClaimsAlive
  <2> QED
    BY <1>1, <1>3, <2>1, <2>2, LeaseAlive DEF WorkerStep
<1>4. CASE TimeStep
  <2>1. \A j \in JobIds : ~LeaseLapses(j)
    BY NoPageOps
  <2>2. Reconcile \/ \E j \in JobIds : LeaseExpires(j)
    BY <1>4, <2>1 DEF TimeStep
  <2>3. DocExists' /\ Alive' /\ OneWorks'
    BY <2>2, LeaseAlive, ReconcileAlive
  <2> QED
    BY <1>1, <2>3
<1> QED
  BY <1>2, <1>3, <1>4 DEF Next

\* Every step keeps the invariant.
LEMMA StepOne == OneAtATime /\ OneInv /\ [Next]_vars => OneInv'
<1> SUFFICES ASSUME OneAtATime, OneInv, [Next]_vars PROVE OneInv'
  OBVIOUS
<1>1. CASE UNCHANGED vars
  <2>1. UNCHANGED <<status, pageRows, blocks, chunks, jobs, tasks, deleting, form, asking>>
    BY <1>1 DEF vars, docVars, setting
  <2>2. TypeInv'
    BY <1>1, StepTyped DEF OneInv
  <2>3. WholeDocument' /\ OneWorks' /\ DocExists' = DocExists
    BY <2>1 DEF OneInv, WholeDocument, OneWorks, DocExists
  <2>4. DocExists => Alive'
    <3>1. \A t \in tasks : /\ HeldRow(t) => HeldRow(t)'
                           /\ AtPoint(KindOf(t), t.pc, t.todo) => AtPoint(KindOf(t), t.pc, t.todo)'
      BY <2>1 DEF HeldRow, AtPoint, SpansLoaded, BlocksLoaded, Unembedded
    <3>2. TextWhole => TextWhole'
      BY <2>1, SameText
    <3> QED
      BY <2>1, <3>1, <3>2 DEF OneInv, Alive, OneOpen, OneTask
  <2> QED
    BY <2>1, <2>2, <2>3, <2>4 DEF OneInv
<1>2. CASE Next
  <2>1. TypeInv' /\ WholeDocument' /\ asking' = {}
    BY <1>2, StepTyped, StaysWhole, NobodyAsks DEF OneInv
  <2>2. CASE status = "absent"
    <3>1. DocExists' /\ Alive' /\ OneWorks' /\ ~deleting'
      BY <1>2, <2>2, OnlyUpload, UploadAlive
    <3> QED
      BY <2>1, <3>1 DEF OneInv, DocExists
  <2>3. CASE status = "deleted"
    <3>1. status' = "deleted" /\ ~deleting' /\ OneWorks'
      BY <1>2, <2>3, GoneStays
    <3> QED
      BY <2>1, <3>1 DEF OneInv, DocExists
  <2>4. CASE DocExists
    <3>1. /\ (DocExists' /\ Alive') \/ status' = "deleted"
          /\ OneWorks' /\ (deleting' => DocExists')
      BY <1>2, <2>4, AliveStep
    <3> QED
      BY <2>1, <3>1 DEF OneInv, DocExists
  <2> QED
    BY <2>2, <2>3, <2>4 DEF DocExists
<1> QED
  BY <1>1, <1>2

\* Before the upload there is nothing.
LEMMA InitOne == Init => OneInv
<1> SUFFICES ASSUME Init PROVE OneInv
  OBVIOUS
<1>1. TypeInv
  BY InitTyped
<1>2. \A j \in JobIds : ~Exists(jobs[j])
  BY DEF Init, EmptyTable, Unused, Exists
<1> QED
  BY <1>1, <1>2 DEF Init, OneInv, WholeDocument, DocExists, OneWorks

\* The invariant holds as long as one handler at a time has the document.
LEMMA OneAlways == OneAtATime => (Spec => []OneInv)
<1> SUFFICES ASSUME OneAtATime PROVE Spec => []OneInv
  OBVIOUS
<1>1. OneInv /\ [Next]_vars => OneInv'
  BY StepOne
<1> QED
  BY <1>1, InitOne, PTL DEF Spec

-----------------------------------------------------------------------------
(* What follows *)

\* As long as no handler outlives its lease and nobody sends the document back, only one
\* handler at a time is past its claim in a stage, however many workers crash, statements
\* fail and jobs are reclaimed, and whenever the document is deleted.
THEOREM OneAtWork == OneAtATime => (Spec => []OneHandlerInStage)
<1>1. OneInv => OneHandlerInStage
  BY DEF OneInv, OneWorks, OneHandlerInStage
<1> QED
  BY <1>1, OneAlways, PTL

\* A ready document can be searched in full: the chunks hold the text of every page that
\* OCR read, and each has its vector.
THEOREM ReadyIsSearchable == OneAtATime => (Spec => []ReadyIsWhole)
<1>1. OneInv => ReadyIsWhole
  BY DEF OneInv, Alive, TextWhole, ChunksWhole, ReadyIsWhole, ReadyIsEmbedded, AllEmbedded,
     ReadyIsComplete, DocExists
<1> QED
  BY <1>1, OneAlways, PTL

\* In particular a crash between two batches of embedding leaves no chunk of a ready
\* document without its vector.
THEOREM ReadyIsSearchedInFull == OneAtATime => (Spec => []ReadyIsEmbedded)
<1>1. ReadyIsWhole => ReadyIsEmbedded
  BY DEF ReadyIsWhole
<1> QED
  BY <1>1, ReadyIsSearchable, PTL

-----------------------------------------------------------------------------
(* The state machine of the documents *)

\* The stage of a status.
StageOf(s) ==
    CASE s \in {"ocr_pending", "ocr_running"} -> "ocr"
      [] s \in {"ocr_done", "layout_running"} -> "layout"
      [] s \in {"layout_done", "chunking_running"} -> "chunking"
      [] s \in {"chunking_done", "embedding_running"} -> "embedding"
      [] OTHER -> s

\* How the status of a document moves, one commit at a time.
Moves(s, r) ==
    \/ r = s
    \/ s = "absent" /\ r = "uploaded"
    \/ s \in {"uploaded", "failed", "ocr_running"} /\ r = "ocr_pending"
    \/ s = "ocr_pending" /\ r = "ocr_running"
    \/ s = "ocr_running" /\ r = "ocr_done"
    \/ s = "ocr_done" /\ r = "layout_running"
    \/ s = "layout_running" /\ r = "layout_done"
    \/ s = "layout_done" /\ r = "chunking_running"
    \/ s = "chunking_running" /\ r = "chunking_done"
    \/ s = "chunking_done" /\ r = "embedding_running"
    \/ s = "embedding_running" /\ r = "ready"
    \/ s \in {"ocr_pending", "ocr_running", "layout_running", "chunking_running",
              "embedding_running"} /\ r = "failed"
    \/ s = "failed" /\ r = "uploaded"
    \/ s \notin {"absent", "deleted"} /\ r = "deleted"

\* Nothing but the status of a document that leaves `ready' changes what is found in it, and
\* only OCR reads.
MovesOn ==
    /\ Moves(status, status')
    /\ status = "ready" => chunks' = chunks \/ status' # "ready"
    /\ \/ Readable' = Readable /\ (status' = "deleted" => status = "deleted")
       \/ /\ status = "ocr_running" /\ status' \in {"ocr_running", "ocr_done"}
          /\ Readable \subseteq Readable'
       \/ status \notin {"absent", "deleted"} /\ status' = "deleted" /\ Readable' = {}

\* The kind of file stays what it is.
LEMMA FormKept == [Next]_vars => form' = form
<1> SUFFICES ASSUME [Next]_vars PROVE form' = form
  OBVIOUS
<1>1. CASE UNCHANGED setting
  BY <1>1 DEF setting
<1>2. CASE HttpStep
  BY <1>1, <1>2 DEF HttpStep, Upload, Reupload, RetryChecks, RetryWrites, ReextractChecks,
     ReextractWrites, RequestDies, RequestDelete, DeleteRows, DeleteTimesOut, Call
<1>3. CASE WorkerStep
  BY <1>1, <1>3, HandlerSetting DEF WorkerStep, Claim, Heartbeat, StageAborts, Crash, Fault
<1>4. CASE TimeStep
  BY <1>1, <1>4 DEF TimeStep, Reconcile, LeaseExpires, LeaseLapses, Fault
<1> QED
  BY <1>1, <1>2, <1>3, <1>4 DEF Next, vars

\* A step of a handler that keeps the document.
LEMMA HandlerMovesOn ==
    ASSUME OneInv, DocExists, NEW t \in tasks,
           HandlerStep(t) \/ Heartbeat(t) \/ StageAborts(t)
    PROVE  MovesOn
<1>1. /\ AtPoint(KindOf(t), t.pc, t.todo) /\ ~SinglePage(t) /\ form' = form
      /\ DocTyped /\ TextOnly
  BY AtWorkOn, FormKept DEF Next, WorkerStep, Alive, TextWhole
<1>7. UNCHANGED pageRows => Readable' = Readable
  BY <1>1 DEF Readable
<1>2. CASE UNCHANGED docVars
  BY <1>2, <1>7 DEF docVars, MovesOn, Moves
<1>3. CASE /\ \E pc \in Pcs : FailDocument(t, pc)
           /\ t.pc \in {"locate", "count", "pages", "page", "work", "batches"}
  <2>1. status' = "failed" /\ UNCHANGED pageRows
    BY <1>3 DEF FailDocument, Orphaned, SetStatus
  <2> QED
    BY <1>1, <1>3, <1>7, <2>1 DEF AtPoint, MovesOn, Moves
<1>8. OcrPage(t) \/ OcrText(t) => Readable \subseteq Readable'
  BY <1>1, RowsGrow, MoreText
<1>4. CASE OcrStep(t)
  <2>1. OcrInputFails(t) \/ OcrLoopFails(t) => MovesOn
    BY <1>3 DEF OcrInputFails, OcrLoopFails, Pcs
  <2>2. OcrLoad(t) \/ OcrNextPage(t) \/ OcrCancelled(t) => MovesOn
    BY <1>2 DEF OcrLoad, OcrNextPage, OcrCancelled
  <2>3. ASSUME OcrPending(t) PROVE MovesOn
    <3>1. t.pc = "pending" /\ status' = "ocr_pending" /\ UNCHANGED pageRows
      BY <2>3 DEF OcrPending, Orphaned, SetStatus
    <3> QED
      BY <1>1, <1>7, <3>1 DEF AtPoint, MovesOn, Moves
  <2>4. ASSUME OcrLocate(t) PROVE MovesOn
    <3>1. CASE SetStatus("ocr_running")
      <4>1. UNCHANGED pageRows /\ status' = "ocr_running" /\ t.pc = "locate"
        BY <2>4, <3>1 DEF OcrLocate, SetStatus
      <4> QED
        BY <1>1, <1>7, <4>1 DEF AtPoint, MovesOn, Moves
    <3> QED
      BY <1>2, <2>4, <3>1 DEF OcrLocate
  <2>7. ASSUME OcrCount(t) PROVE MovesOn
    BY <1>7, <2>7 DEF OcrCount, MovesOn, Moves
  <2>5. ASSUME OcrPage(t) PROVE MovesOn
    <3>1. t.pc = "page" /\ status' = status /\ chunks' = chunks
      BY <2>5 DEF OcrPage
    <3> QED
      BY <1>1, <1>8, <2>5, <3>1 DEF AtPoint, MovesOn, Moves
  <2>6. ASSUME OcrDone(t) \/ OcrText(t) PROVE MovesOn
    <3>1. t.pc = "pages" /\ status' = "ocr_done" /\ (UNCHANGED pageRows \/ OcrText(t))
      BY <1>1, <2>6 DEF OcrDone, OcrText, Orphaned, SetStatus
    <3> QED
      BY <1>1, <1>7, <1>8, <3>1 DEF AtPoint, MovesOn, Moves
  <2> QED
    BY <1>4, <2>1, <2>2, <2>3, <2>4, <2>5, <2>6, <2>7 DEF OcrStep
<1>5. CASE StageStep(t)
  <2>1. StageFails(t) => MovesOn
    BY <1>3 DEF StageFails, Pcs
  <2>5. StageFails(t) \/ UNCHANGED pageRows
    BY <1>5 DEF StageStep, LayoutClaim, ChunkingClaim, EmbeddingClaim, StageClaims, SetStatus,
       docVars, LayoutWork, LayoutDone, ChunkingWork, EmbeddingDone, EmbeddingBatch
  <2>2. ASSUME LayoutClaim(t) \/ ChunkingClaim(t) \/ EmbeddingClaim(t), Readable' = Readable
        PROVE  MovesOn
    BY <1>2, <2>2 DEF LayoutClaim, ChunkingClaim, EmbeddingClaim, StageClaims, SetStatus, MovesOn, Moves
  <2>3. ASSUME LayoutWork(t) \/ ChunkingWork(t) \/ EmbeddingDone(t), Readable' = Readable
        PROVE  MovesOn
    BY <1>1, <2>3
    DEF LayoutWork, LayoutDone, ChunkingWork, EmbeddingDone, SetStatus, AtPoint, MovesOn, Moves
  <2>4. ASSUME NEW id \in t.todo, EmbeddingBatch(t, id), Readable' = Readable PROVE MovesOn
    BY <1>1, <2>4 DEF EmbeddingBatch, AtPoint, MovesOn, Moves
  <2> QED
    BY <1>5, <1>7, <2>1, <2>2, <2>3, <2>4, <2>5 DEF StageStep
<1>6. Finish(t) \/ Raise(t) \/ Heartbeat(t) \/ StageAborts(t) => MovesOn
  BY <1>2 DEF Finish, Raise, Heartbeat, StageAborts
<1> QED
  BY <1>4, <1>5, <1>6 DEF HandlerStep

\* Every step moves the status as the state machine allows.
LEMMA StepMovesOn == OneAtATime /\ OneInv /\ [Next]_vars => MovesOn
<1> SUFFICES ASSUME OneAtATime, OneInv, [Next]_vars PROVE MovesOn
  OBVIOUS
<1>6. UNCHANGED pageRows => Readable' = Readable
  BY FormKept DEF Readable
<1>1. CASE UNCHANGED docVars
  BY <1>1, <1>6 DEF docVars, MovesOn, Moves
<1>2. CASE UNCHANGED vars
  BY <1>1, <1>2 DEF vars
<1>3. CASE HttpStep
  <2>1. Upload \/ Reupload => MovesOn
    BY <1>6 DEF Upload, Reupload, SetStatus, MovesOn, Moves
  <2>2. RequestDelete \/ DeleteTimesOut => MovesOn
    BY <1>1 DEF RequestDelete, DeleteTimesOut
  <2>3. DeleteRows => MovesOn
    <3>1. ASSUME DeleteRows PROVE Readable' = {}
      BY <3>1 DEF DeleteRows, NoRows, Readable
    <3> QED
      BY <3>1 DEF DeleteRows, OneInv, DocExists, MovesOn, Moves
  <2> QED
    BY <1>3, <2>1, <2>2, <2>3, NoRequests DEF OneInv
<1>4. CASE WorkerStep
  <2>1. ASSUME NEW t \in tasks, HandlerStep(t) \/ Heartbeat(t) \/ StageAborts(t) PROVE MovesOn
    <3>1. CASE DocExists
      BY <2>1, <3>1, HandlerMovesOn
    <3>2. CASE status = "absent"
      BY <2>1, <3>2 DEF OneInv
    <3>3. CASE status = "deleted"
      <4>1. status' = "deleted" /\ Readable' = Readable
        BY <1>4, <3>3, GoneStays DEF Next
      <4> QED
        BY <3>3, <4>1 DEF MovesOn, Moves
    <3> QED
      BY <3>1, <3>2, <3>3 DEF DocExists
  <2>2. ASSUME NEW w \in Workers, Crash(w) \/ \E j \in JobIds : Claim(w, j) PROVE MovesOn
    BY <1>1, <2>2 DEF Crash, Claim
  <2> QED
    BY <1>4, <2>1, <2>2 DEF WorkerStep
<1>5. CASE TimeStep
  BY <1>1, <1>5 DEF TimeStep, Reconcile, LeaseExpires, LeaseLapses, Late
<1> QED
  BY <1>2, <1>3, <1>4, <1>5 DEF Next

\* The stage and what a search finds, before and after a step.
LEMMA StageValues ==
    /\ Stage = StageOf(status) /\ Stage' = StageOf(status')
    /\ status # "ready" => Searchable = {}
    /\ status' # "ready" => Searchable' = {}
BY DEF Stage, StageOf, Searchable

\* A search of a document that becomes ready finds all that was read, and nothing else.
LEMMA AllFound ==
    ASSUME OneInv', status' = "ready"
    PROVE  Searchable' = Readable'
<1>1. TextOnly' /\ ChunksWhole' /\ \A c \in chunks' : c.embedded
  BY DEF OneInv, Alive, TextWhole, DocExists
<1>2. Searchable' = {d.id.page : d \in {e \in chunks' : e.embedded}}
  BY DEF Searchable
<1> QED
  BY <1>1, <1>2 DEF TextOnly, ChunksWhole

\* Each move is a step of the state machine, or none.
LEMMA MoveIsStep ==
    ASSUME OneInv, OneInv', MovesOn
    PROVE  [Machine!Next]_(Machine!vars)
<1> USE DEF Machine!Next, Machine!vars
<1>0. Readable' \subseteq Pages
  BY DEF Readable
<1>1. CASE Stage' = Stage /\ Searchable' = Searchable /\ status' # "deleted"
  <2>1. CASE Readable' = Readable
    BY <1>1, <2>1
  <2>2. CASE status = "ocr_running" /\ Readable \subseteq Readable'
    BY <1>0, <1>1, <2>2, StageValues DEF StageOf, Machine!Read, Machine!Reads
  <2> QED
    BY <1>1, <2>1, <2>2 DEF MovesOn
<1>10. ASSUME status \notin {"ocr_running", "deleted"}, status' # "deleted"
       PROVE  Readable' = Readable
  BY <1>10 DEF MovesOn
<1>2. CASE status' = status
  <2>1. CASE status = "ready"
    <3>1. chunks' = chunks
      BY <1>2, <2>1 DEF MovesOn
    <3>2. Searchable' = Searchable
      BY <1>2, <3>1 DEF Searchable
    <3> QED
      BY <1>1, <1>2, <2>1, <3>2, StageValues
  <2>2. CASE status = "deleted"
    <3>1. Readable' = Readable
      BY <1>2, <2>2 DEF MovesOn
    <3> QED
      BY <1>2, <2>2, <3>1, StageValues
  <2> QED
    BY <1>1, <1>2, <2>1, <2>2, StageValues
<1>3. CASE status = "absent" /\ status' = "uploaded"
  BY <1>3, <1>10, StageValues DEF StageOf, Machine!Arrive
<1>4. CASE status' = "ready" /\ status = "embedding_running"
  <2>1. Searchable' = Readable' /\ Readable' = Readable
    BY <1>4, <1>10, AllFound
  <2> QED
    BY <1>4, <2>1, StageValues DEF StageOf, Machine!Publish
<1>5. CASE status' = "failed" /\ status # "failed"
  <2>1. Readable' = Readable
    BY <1>5 DEF MovesOn
  <2> QED
    BY <1>5, <2>1, StageValues DEF MovesOn, Moves, StageOf, Machine!Fail, Machine!InPipeline
<1>6. CASE status' = "deleted" /\ status \notin {"absent", "deleted"}
  <2>1. Readable' = {}
    BY <1>6 DEF MovesOn
  <2> QED
    BY <1>6, <2>1, StageValues DEF OneInv, TypeInv, DocTyped, DocStatuses, StageOf, Machine!Delete
<1>7. CASE status = "failed" /\ status' \in {"uploaded", "ocr_pending"}
  BY <1>7, <1>10, StageValues DEF StageOf, Machine!Reattempt, Machine!Restart
<1>8. CASE \/ status = "uploaded" /\ status' = "ocr_pending"
           \/ status = "layout_running" /\ status' = "layout_done"
           \/ status = "chunking_running" /\ status' = "chunking_done"
  BY <1>8, <1>10, StageValues DEF StageOf, Machine!Advance, Machine!After, Machine!Keeps
<1>11. CASE status = "ocr_running" /\ status' = "ocr_done"
  <2>1. Readable \subseteq Readable'
    BY <1>11 DEF MovesOn
  <2> QED
    BY <1>0, <1>11, <2>1, StageValues
    DEF StageOf, Machine!Advance, Machine!After, Machine!Keeps, Machine!Reads
<1>9. CASE \/ status = "ocr_running" /\ status' = "ocr_pending"
           \/ status = "ocr_pending" /\ status' = "ocr_running"
           \/ status = "ocr_done" /\ status' = "layout_running"
           \/ status = "layout_done" /\ status' = "chunking_running"
           \/ status = "chunking_done" /\ status' = "embedding_running"
  BY <1>1, <1>9, StageValues DEF StageOf
<1> QED
  BY <1>2, <1>3, <1>4, <1>5, <1>6, <1>7, <1>8, <1>9, <1>11 DEF MovesOn, Moves

\* The pipeline implements the state machine of the documents, with the same provisos:
\* the stages go forward one at a time, pages are read in the OCR stage only, and a search
\* finds all of what was read, and nothing else, from the step in which the document becomes
\* ready to the one in which it leaves that state, and nothing at any other time.
THEOREM PipelineFollowsMachine == OneAtATime => (Spec => FollowsStateMachine)
<1> SUFFICES ASSUME OneAtATime PROVE Spec => FollowsStateMachine
  OBVIOUS
<1>1. Init => Machine!Init
  BY DEF Init, Machine!Init, Stage, Searchable, Readable, NoRows
<1>2. OneInv /\ OneInv' /\ [Next]_vars => [Machine!Next]_(Machine!vars)
  BY StepMovesOn, MoveIsStep
<1>3. Spec => []OneInv
  BY OneAlways
<1> QED
  BY <1>1, <1>2, <1>3, PTL DEF Spec, FollowsStateMachine, Machine!Spec

-----------------------------------------------------------------------------
(* Sessions: their jobs and their tasks *)

SessionJobs == {SessionKey(s) : s \in Sessions}

SessionPcs == {"start", "claim", "input", "read", "readok", "finish", "retry"}

\* Where a task of a session may be, and any other.
PcFor(t, pc) == IF OfSession(t) THEN pc \in SessionPcs ELSE pc \in Pcs

\* A task of the pipeline or of a session.
TaskForm(t) ==
    /\ t = [job |-> t.job, n |-> t.n, orphan |-> t.orphan, worker |-> t.worker,
            pc |-> t.pc, todo |-> t.todo]
    /\ t.worker \in Workers
    /\ \/ t.job \in DedupKeys /\ t.pc \in Pcs
       \/ t.job \in SessionJobs /\ t.pc \in SessionPcs

RowsForm(T) ==
    T \in Table /\ \A j \in JobIds : Exists(T[j]) => j \in DedupKeys \cup SessionJobs

\* Requests are numbered from 1, so that they orphan the tasks whose rows they wipe.
Asked == [n : Nat \ {0}, page : Pages \cup {0}, found : BOOLEAN]

SessionForm ==
    /\ sessions \in [Sessions -> Session]
    /\ accepting \subseteq [session : Sessions, late : BOOLEAN, spans : [Pages -> Results]]
    /\ RowsForm(jobs)
    /\ \A t \in tasks : TaskForm(t)
    /\ operations \in Nat
    /\ asking \subseteq Asked
    /\ IsFiniteSet(Accepted)

\* A task has its row, or its row is gone for good.
RowOfTask(t) ==
    IF HasRow(t)
    THEN jobs[t.job].status = "running" /\ jobs[t.job].fresh /\ jobs[t.job].worker = t.worker
    ELSE ~Exists(jobs[t.job])

\* A session is run by one task at a time.
OneRun(s) ==
    /\ \A t, u \in tasks : t.job = SessionKey(s) /\ u.job = SessionKey(s) => t = u
    /\ \A t \in tasks : t.job = SessionKey(s) => RowOfTask(t)

\* The task reads pages for its session, and will set its status.
Reads(t) == t.pc \in {"claim", "input", "read", "readok"}
BeingRead(s) == \E t \in tasks : t.job = SessionKey(s) /\ Reads(t)

BeingAccepted(s) == \E a \in accepting : a.session = s

\* No job of the session exists, and none runs.
Idle(s) == ~Exists(jobs[SessionKey(s)]) /\ \A t \in tasks : t.job # SessionKey(s)

\* What the status of a session says of its job, its task and its requests.
SessionFits(s) ==
    /\ BeingRead(s) => /\ sessions[s].status \in {"pending", "running", "rejected", "absent"}
                       /\ ~BeingAccepted(s)
    /\ BeingAccepted(s) => sessions[s].status \in {"ready", "accepted", "rejected", "absent"}
    /\ sessions[s].queued => Idle(s)
    /\ ~Live(s) => ~sessions[s].queued
    /\ ~Live(s) /\ status # "deleted" => Idle(s) /\ ~BeingAccepted(s)

SessionInv ==
    /\ SessionForm
    /\ \A s \in Sessions : OneRun(s) /\ SessionFits(s)
    /\ status = "deleted" => \A s \in Sessions : ~Live(s)

\* What a step may do to the job and the task of a session but for those that start or
\* take up its run: no job appears, and no task begins to read.
RunsOn(s) ==
    /\ OneRun(s)'
    /\ Exists(jobs'[SessionKey(s)]) => Exists(jobs[SessionKey(s)])
    /\ \A u \in tasks' : u.job = SessionKey(s) =>
          \/ \E t \in tasks : t.job = SessionKey(s) /\ (Reads(u) => Reads(t))
          \/ Exists(jobs[SessionKey(s)]) /\ ~Reads(u)

RunOn ==
    /\ RowsForm(jobs')
    /\ \A t \in tasks' : TaskForm(t)
    /\ \A s \in Sessions : RunsOn(s)

\* The key of a session is its own.
LEMMA SessionKeyParts ==
    ASSUME NEW s \in Sessions
    PROVE  /\ SessionKey(s) \in JobIds /\ SessionKey(s) \in Keys
           /\ SessionKey(s)[1] = "page_reextract" /\ SessionKey(s)[3] = s
           /\ SessionKey(s) \notin DedupKeys /\ SessionKey(s) \in SessionJobs
<1>1. SessionKey(s)[1] = "page_reextract" /\ SessionKey(s)[3] = s
  BY DEF SessionKey
<1>2. SessionKey(s) \notin DedupKeys
  BY <1>1, KeyParts DEF PipelineKinds
<1> QED
  BY <1>1, <1>2, KeysAssumption, SessionKeysAssumption DEF SessionKey, SessionJobs

\* The task of a session, and a task that is not.
LEMMA FormParts ==
    ASSUME NEW t, TaskForm(t)
    PROVE  /\ t.job \in JobIds
           /\ t.job \in DedupKeys <=> KindOf(t) # "page_reextract"
           /\ t.job \in SessionJobs <=> OfSession(t)
           /\ OfSession(t) => SessionOf(t) \in Sessions /\ t.job = SessionKey(SessionOf(t))
           /\ OfSession(t) => t.pc \in SessionPcs
           /\ ~OfSession(t) => t.pc \in Pcs
           /\ Reads(t) => OfSession(t)
<1>1. CASE t.job \in DedupKeys /\ t.pc \in Pcs
  <2>1. t.job[1] \in PipelineKinds /\ t.job \in JobIds
    BY <1>1, KeyParts
  <2>2. t.job[1] # "page_reextract"
    BY <2>1 DEF PipelineKinds
  <2>3. t.job \notin SessionJobs
    BY <1>1, SessionKeyParts DEF SessionJobs
  <2> QED
    BY <1>1, <2>1, <2>2, <2>3 DEF OfSession, KindOf, Reads, Pcs
<1>2. CASE t.job \in SessionJobs /\ t.pc \in SessionPcs
  <2>1. PICK s \in Sessions : t.job = SessionKey(s)
    BY <1>2 DEF SessionJobs
  <2> QED
    BY <1>2, <2>1, SessionKeyParts DEF OfSession, KindOf, SessionOf
<1> QED
  BY <1>1, <1>2 DEF TaskForm

\* Steps that leave jobs and tasks alone.
LEMMA SameRuns ==
    ASSUME SessionInv, UNCHANGED <<jobs, tasks>>
    PROVE  RunOn
<1>1. ASSUME NEW s \in Sessions PROVE RunsOn(s)
  <2>1. OneRun(s)'
    BY DEF SessionInv, OneRun, RowOfTask
  <2> QED
    BY <2>1 DEF RunsOn
<1> QED
  BY <1>1 DEF SessionInv, SessionForm, RunOn

TaskAt(t, pc, todo) == [t EXCEPT !.pc = pc, !.todo = todo]

\* A task that moves on is a task with the same job, worker and row.
LEMMA MovedForm ==
    ASSUME NEW t, TaskForm(t), NEW pc, NEW todo,
           PcFor(t, pc)
    PROVE  /\ TaskForm(TaskAt(t, pc, todo)) /\ TaskAt(t, pc, todo).job = t.job
           /\ TaskAt(t, pc, todo).orphan = t.orphan /\ TaskAt(t, pc, todo).worker = t.worker
           /\ TaskAt(t, pc, todo).pc = pc
<1> DEFINE u == [t EXCEPT !.pc = pc, !.todo = todo]
<1>1. t = [job |-> t.job, n |-> t.n, orphan |-> t.orphan, worker |-> t.worker,
           pc |-> t.pc, todo |-> t.todo]
  BY DEF TaskForm
<1>2. u = [job |-> t.job, n |-> t.n, orphan |-> t.orphan, worker |-> t.worker,
           pc |-> pc, todo |-> todo]
  <2> DEFINE r == [t EXCEPT !.pc = pc]
  <2>1. r = [job |-> t.job, n |-> t.n, orphan |-> t.orphan, worker |-> t.worker,
             pc |-> pc, todo |-> t.todo]
    BY <1>1
  <2>2. u = [r EXCEPT !.todo = todo]
    BY <2>1
  <2> HIDE DEF r
  <2> QED
    BY <2>1, <2>2
<1> HIDE DEF u
<1>3. u.job = t.job /\ u.n = t.n /\ u.orphan = t.orphan /\ u.worker = t.worker /\ u.pc = pc
      /\ u.todo = todo
  BY <1>2
<1>4. TaskForm(u)
  BY <1>2, <1>3, FormParts DEF TaskForm, PcFor
<1> QED
  BY <1>3, <1>4 DEF u, TaskAt

\* A task moves on and does not begin to read.
LEMMA MovedRun ==
    ASSUME SessionInv, NEW t \in tasks, NEW pc, NEW todo, tasks' = Moved(t, pc, todo),
           UNCHANGED jobs, PcFor(t, pc)
    PROVE  /\ \A u \in tasks' : TaskForm(u)
           /\ \A s \in Sessions : OneRun(s)'
           /\ \A u \in tasks' : (u.job = t.job /\ u.pc = pc) \/ u \in tasks \ {t}
           /\ (pc \in {"claim", "input", "read", "readok"} => Reads(t)) => RunOn
<1>1. RowsForm(jobs) /\ (\A u \in tasks : TaskForm(u)) /\ TaskForm(t)
  BY DEF SessionInv, SessionForm
<1>2. PICK u : u = TaskAt(t, pc, todo)
  OBVIOUS
<1>3. TaskForm(u) /\ u.job = t.job /\ u.orphan = t.orphan /\ u.worker = t.worker /\ u.pc = pc
  BY <1>1, <1>2, MovedForm
<1>4. tasks' = (tasks \ {t}) \cup {u}
  BY <1>2 DEF Moved, TaskAt
<1>5. \A v \in tasks' : TaskForm(v)
  BY <1>1, <1>3, <1>4
<1>6. ASSUME NEW s \in Sessions PROVE OneRun(s)'
  <2>1. OneRun(s)
    BY DEF SessionInv
  <2>2. ASSUME NEW v \in tasks', v.job = SessionKey(s) PROVE RowOfTask(v)'
    BY <1>3, <1>4, <2>1, <2>2 DEF OneRun, RowOfTask, HasRow
  <2>3. ASSUME NEW v \in tasks', NEW w \in tasks', v.job = SessionKey(s), w.job = SessionKey(s)
        PROVE  v = w
    BY <1>3, <1>4, <2>1, <2>3 DEF OneRun
  <2> QED
    BY <2>2, <2>3 DEF OneRun
<1>7. ASSUME pc \in {"claim", "input", "read", "readok"} => Reads(t) PROVE RunOn
  <2>1. ASSUME NEW s \in Sessions PROVE RunsOn(s)
    BY <1>3, <1>4, <1>6, <1>7 DEF RunsOn, Reads
  <2> QED
    BY <1>1, <1>5, <2>1 DEF RunOn
<1> QED
  BY <1>3, <1>4, <1>5, <1>6, <1>7

\* Tasks end, and the rows of the sessions that have a task left are as they were.
LEMMA EndedRun ==
    ASSUME SessionInv, tasks' \subseteq tasks, RowsForm(jobs'),
           \A s \in Sessions : /\ Exists(jobs'[SessionKey(s)]) => Exists(jobs[SessionKey(s)])
                               /\ \A t \in tasks' : t.job = SessionKey(s) =>
                                     (RowOfTask(t) => RowOfTask(t)')
    PROVE  RunOn
<1>1. ASSUME NEW s \in Sessions PROVE RunsOn(s)
  <2>1. OneRun(s)'
    BY DEF SessionInv, OneRun
  <2> QED
    BY <2>1 DEF RunsOn
<1> QED
  BY <1>1 DEF SessionInv, SessionForm, RunOn

\* Replacing one row keeps the rows in form.
LEMMA RowsReplaced ==
    ASSUME NEW T, RowsForm(T), NEW key \in DedupKeys \cup SessionJobs, key \in JobIds, NEW row \in Row
    PROVE  /\ RowsForm([T EXCEPT ![key] = row])
           /\ \A j \in JobIds : j # key => [T EXCEPT ![key] = row][j] = T[j]
           /\ [T EXCEPT ![key] = row][key] = row
BY DEF RowsForm, Table

\* An enqueue keeps the rows in form and touches the row of its key only.
LEMMA RowsInserted ==
    ASSUME NEW T, RowsForm(T), NEW key \in DedupKeys \cup SessionJobs
    PROVE  /\ RowsForm(Insert(T, key))
           /\ \A j \in JobIds : j # key => Insert(T, key)[j] = T[j]
<1>1. key \in JobIds /\ key[1] \in Kinds /\ key \in Keys
  BY KeyParts, SessionKeyParts, SessionKeysAssumption, KeysAssumption DEF SessionJobs
<1>2. NewRow(key[1], Doc, key) \in Row
  BY <1>1, DocAssumption DEF NewRow, Row, Statuses
<1>3. CASE Exists(T[key])
  BY <1>3 DEF Insert
<1>4. CASE ~Exists(T[key])
  <2>1. Insert(T, key) = [T EXCEPT ![key] = NewRow(key[1], Doc, key)]
    BY <1>4 DEF Insert
  <2>2. PICK row \in Row : row = NewRow(key[1], Doc, key)
    BY <1>2
  <2>3. Insert(T, key) = [T EXCEPT ![key] = row]
    BY <2>1, <2>2
  <2>4. /\ RowsForm([T EXCEPT ![key] = row])
        /\ \A j \in JobIds : j # key => [T EXCEPT ![key] = row][j] = T[j]
    BY <1>1, RowsReplaced
  <2> QED
    BY <2>3, <2>4
<1> QED
  BY <1>3, <1>4

\* The statement of a task keeps the rows in form and touches the row of its job only.
LEMMA RowsSet ==
    ASSUME RowsForm(jobs), NEW t, TaskForm(t), NEW row \in Row
    PROVE  /\ RowsForm(SetRow(t, row))
           /\ \A j \in JobIds : j # t.job => SetRow(t, row)[j] = jobs[j]
           /\ SetRow(t, row)[t.job] = IF HasRow(t) THEN row ELSE jobs[t.job]
<1>1. t.job \in JobIds /\ t.job \in DedupKeys \cup SessionJobs
  BY FormParts DEF TaskForm
<1> QED
  BY <1>1, RowsReplaced DEF SetRow

\* An enqueue for the pipeline.
LEMMA InsertedRun ==
    ASSUME SessionInv, NEW key \in DedupKeys, jobs' = Insert(jobs, key), tasks' = tasks
    PROVE  RunOn
<1>1. RowsForm(jobs) /\ RowsForm(jobs')
  BY RowsInserted DEF SessionInv, SessionForm
<1>2. \A s \in Sessions : jobs'[SessionKey(s)] = jobs[SessionKey(s)]
  BY <1>1, RowsInserted, SessionKeyParts
<1> QED
  BY <1>1, <1>2, EndedRun DEF RowOfTask, HasRow

\* The steps of the handlers of the pipeline.
LEMMA HandlerRun ==
    ASSUME SessionInv, NEW t \in tasks, OcrStep(t) \/ StageStep(t) \/ StageAborts(t)
    PROVE  RunOn
<1>1. TaskForm(t) /\ RowsForm(jobs)
  BY DEF SessionInv, SessionForm
<1>2. ~OfSession(t)
  <2> SUFFICES ASSUME OfSession(t) PROVE FALSE
    OBVIOUS
  <2>1. t.pc \in {"start", "claim", "input", "read", "readok", "finish", "retry"}
    BY <1>1, FormParts DEF SessionPcs
  <2>2. KindOf(t) = "page_reextract"
    BY DEF OfSession
  <2> QED
    BY <2>1, <2>2
    DEF OcrStep, OcrLoad, OcrPending, OcrLocate, OcrCount, OcrInputFails, OcrNextPage,
        OcrCancelled, OcrPage, OcrLoopFails, OcrDone, OcrText, StageStep, StageFails, LayoutClaim, LayoutWork,
        ChunkingClaim, ChunkingWork, EmbeddingClaim, EmbeddingDone, EmbeddingBatch, StageAborts
<1>3. CASE tasks' = tasks \ {t} /\ jobs' = SetRow(t, CancelledRow(jobs[t.job]))
  <2>1. CancelledRow(jobs[t.job]) \in Row
    BY <1>1, FormParts, RowStatements DEF RowsForm, Table
  <2>2. RowsForm(jobs') /\ \A j \in JobIds : j # t.job => jobs'[j] = jobs[j]
    BY <1>1, <1>3, <2>1, RowsSet
  <2>3. ASSUME NEW s \in Sessions PROVE jobs'[SessionKey(s)] = jobs[SessionKey(s)]
    BY <1>1, <1>2, <2>2, FormParts, SessionKeyParts
  <2> QED
    BY <1>3, <2>2, <2>3, EndedRun DEF RowOfTask, HasRow
<1>4. CASE UNCHANGED jobs /\ \E pc \in Pcs : \E todo : tasks' = Moved(t, pc, todo)
  <2>1. PICK pc \in Pcs : \E todo : tasks' = Moved(t, pc, todo)
    BY <1>4
  <2>2. PICK todo : tasks' = Moved(t, pc, todo)
    BY <2>1
  <2>3. PcFor(t, pc) /\ pc \notin {"claim", "input", "read", "readok"}
    BY <1>2 DEF PcFor, Pcs
  <2> QED
    BY <1>4, <2>2, <2>3, MovedRun
<1> QED
  BY <1>3, <1>4, HandlerMoves

\* A claim of a session's job finds no task of it.
LEMMA ClaimRun ==
    ASSUME SessionInv, NEW w \in Workers, NEW j \in JobIds, Claim(w, j)
    PROVE  RunOn
<1>1. RowsForm(jobs) /\ (\A t \in tasks : TaskForm(t)) /\ jobs[j] \in Row
  BY DEF SessionInv, SessionForm, RowsForm, Table
<1>2. jobs[j].status = "pending" /\ Exists(jobs[j]) /\ j \in DedupKeys \cup SessionJobs
  BY <1>1 DEF Claim, Claimable, Exists, RowsForm
<1>3. PICK new : new = [job |-> j, n |-> jobs[j].attempts + 1, orphan |-> 0, worker |-> w,
                        pc |-> "start", todo |-> {}]
  OBVIOUS
<1>4. /\ tasks' = tasks \cup {new}
      /\ jobs' = [jobs EXCEPT ![j] = ClaimedRow(jobs[j], w)]
  BY <1>3 DEF Claim
<1>5. /\ new.job = j /\ new.orphan = 0 /\ new.worker = w /\ new.pc = "start"
      /\ new = [job |-> new.job, n |-> new.n, orphan |-> new.orphan, worker |-> new.worker,
                pc |-> new.pc, todo |-> new.todo]
  BY <1>3
<1>6. TaskForm(new)
  BY <1>2, <1>5 DEF TaskForm, Pcs, SessionPcs
<1>7. RowsForm(jobs') /\ jobs'[j] = ClaimedRow(jobs[j], w) /\ \A i \in JobIds : i # j => jobs'[i] = jobs[i]
  <2>1. PICK row \in Row : row = ClaimedRow(jobs[j], w)
    BY <1>1, RowStatements
  <2>2. jobs' = [jobs EXCEPT ![j] = row]
    BY <1>4, <2>1
  <2>3. /\ RowsForm([jobs EXCEPT ![j] = row])
        /\ \A i \in JobIds : i # j => [jobs EXCEPT ![j] = row][i] = jobs[i]
        /\ [jobs EXCEPT ![j] = row][j] = row
    BY <1>1, <1>2, RowsReplaced
  <2> QED
    BY <2>1, <2>2, <2>3
<1>8. jobs'[j].status = "running" /\ jobs'[j].fresh /\ jobs'[j].worker = w
  BY <1>1, <1>7 DEF ClaimedRow, Row
<1>9. ASSUME NEW s \in Sessions PROVE RunsOn(s)
  <2>1. OneRun(s) /\ SessionKey(s) \in JobIds
    BY SessionKeyParts DEF SessionInv
  <2>2. CASE j = SessionKey(s)
    <3>1. \A t \in tasks : t.job # SessionKey(s)
      BY <1>2, <2>1, <2>2 DEF OneRun, RowOfTask
    <3>2. \A u \in tasks' : u.job = SessionKey(s) => u = new
      BY <1>4, <3>1
    <3>3. RowOfTask(new)'
      BY <1>5, <1>8, <2>2 DEF RowOfTask, HasRow
    <3>4. OneRun(s)'
      BY <3>2, <3>3 DEF OneRun
    <3> QED
      BY <1>2, <1>5, <2>2, <3>2, <3>4 DEF RunsOn, Reads
  <2>3. CASE j # SessionKey(s)
    <3>1. jobs'[SessionKey(s)] = jobs[SessionKey(s)]
      BY <1>7, <2>1, <2>3
    <3>2. \A u \in tasks' : u.job = SessionKey(s) => u \in tasks
      BY <1>4, <1>5, <2>3
    <3>3. OneRun(s)'
      BY <2>1, <3>1, <3>2 DEF OneRun, RowOfTask, HasRow
    <3> QED
      BY <3>1, <3>2, <3>3 DEF RunsOn
  <2> QED
    BY <2>2, <2>3
<1> QED
  BY <1>1, <1>4, <1>6, <1>7, <1>9 DEF RunOn

\* The end of a handler, and its heartbeat.
LEMMA EndRun ==
    ASSUME SessionInv, NEW t \in tasks, Finish(t) \/ Raise(t) \/ Heartbeat(t)
    PROVE  RunOn
<1>1. TaskForm(t) /\ RowsForm(jobs) /\ t.job \in JobIds /\ jobs[t.job] \in Row /\ t.worker \in Workers
  BY FormParts DEF SessionInv, SessionForm, RowsForm, Table, TaskForm
<1>2. ASSUME NEW row \in Row, Exists(row) => Exists(jobs[t.job]), NEW T, tasks' \subseteq tasks,
             \/ jobs' = SetRow(t, row)
             \/ \E key \in DedupKeys : jobs' = Insert(SetRow(t, row), key),
             t \notin tasks' \/ (RowOfTask(t) => RowOfTask(t)')
      PROVE  RunOn
  <2>1. /\ RowsForm(SetRow(t, row))
        /\ \A j \in JobIds : j # t.job => SetRow(t, row)[j] = jobs[j]
        /\ SetRow(t, row)[t.job] = IF HasRow(t) THEN row ELSE jobs[t.job]
    BY <1>1, RowsSet
  <2>2. RowsForm(jobs') /\ \A s \in Sessions : jobs'[SessionKey(s)] = SetRow(t, row)[SessionKey(s)]
    <3>1. CASE jobs' = SetRow(t, row)
      BY <2>1, <3>1
    <3>2. ASSUME NEW key \in DedupKeys, jobs' = Insert(SetRow(t, row), key)
          PROVE  RowsForm(jobs') /\ \A s \in Sessions : jobs'[SessionKey(s)] = SetRow(t, row)[SessionKey(s)]
      BY <2>1, <3>2, RowsInserted, SessionKeyParts
    <3> QED
      BY <1>2, <3>1, <3>2
  <2>3. ASSUME NEW s \in Sessions
        PROVE  /\ Exists(jobs'[SessionKey(s)]) => Exists(jobs[SessionKey(s)])
               /\ \A u \in tasks' : u.job = SessionKey(s) => (RowOfTask(u) => RowOfTask(u)')
    <3>1. OneRun(s) /\ SessionKey(s) \in JobIds
      BY SessionKeyParts DEF SessionInv
    <3>2. CASE t.job = SessionKey(s)
      <4>1. \A u \in tasks' : u.job = SessionKey(s) => u = t
        BY <1>2, <3>1, <3>2 DEF OneRun
      <4> QED
        BY <1>2, <2>1, <2>2, <3>2, <4>1
    <3>3. CASE t.job # SessionKey(s)
      BY <2>1, <2>2, <3>1, <3>3 DEF RowOfTask, HasRow
    <3> QED
      BY <3>2, <3>3
  <2> QED
    BY <1>2, <2>2, <2>3, EndedRun
<1>3. CASE Finish(t)
  <2>1. CompletedRow(jobs[t.job]) \in Row /\ (Exists(CompletedRow(jobs[t.job])) => Exists(jobs[t.job]))
    BY <1>1, RowStatements DEF CompletedRow
  <2>2. /\ tasks' = tasks \ {t}
        /\ \/ jobs' = Completed(t)
           \/ \E key \in DedupKeys : jobs' = Insert(Completed(t), key)
    <3>1. KindOf(t) \in DOMAIN NextKind => StageKey(NextKind[KindOf(t)]) \in DedupKeys
      BY StageKeys DEF NextKind, PipelineKinds
    <3> QED
      BY <1>3, <3>1 DEF Finish
  <2> QED
    BY <1>2, <2>1, <2>2 DEF Completed
<1>4. CASE Raise(t)
  <2>1. PICK b \in BOOLEAN : b = (t.pc = "retry")
    OBVIOUS
  <2>2. FailedRow(jobs[t.job], b) \in Row /\ (Exists(FailedRow(jobs[t.job], b)) => Exists(jobs[t.job]))
    BY <1>1, RowStatements DEF FailedRow
  <2>3. tasks' = tasks \ {t} /\ jobs' = SetRow(t, FailedRow(jobs[t.job], b))
    BY <1>4, <2>1 DEF Raise
  <2> QED
    BY <1>2, <2>2, <2>3
<1>5. CASE Heartbeat(t)
  <2>1. HeartbeatRow(jobs[t.job], t.worker) \in Row
    BY <1>1, RowStatements
  <2>2. /\ HeartbeatRow(jobs[t.job], t.worker).status = jobs[t.job].status
        /\ HeartbeatRow(jobs[t.job], t.worker).worker = jobs[t.job].worker
        /\ jobs[t.job].fresh => HeartbeatRow(jobs[t.job], t.worker).fresh
    BY <1>1 DEF HeartbeatRow, Row
  <2>3. tasks' = tasks /\ jobs' = SetRow(t, HeartbeatRow(jobs[t.job], t.worker))
    BY <1>5 DEF Heartbeat
  <2>4. jobs'[t.job] = IF HasRow(t) THEN HeartbeatRow(jobs[t.job], t.worker) ELSE jobs[t.job]
    BY <1>1, <2>1, <2>3, RowsSet
  <2>5. RowOfTask(t) => RowOfTask(t)'
    BY <2>2, <2>4 DEF RowOfTask, HasRow, Exists
  <2>6. Exists(HeartbeatRow(jobs[t.job], t.worker)) => Exists(jobs[t.job])
    BY <2>2 DEF Exists
  <2> QED
    BY <1>2, <2>1, <2>3, <2>5, <2>6
<1> QED
  BY <1>3, <1>4, <1>5

\* Crashes, leases and the reconciler.
LEMMA TimeRun ==
    ASSUME SessionInv, "lapse" \notin Faults, TimeStep \/ \E w \in Workers : Crash(w)
    PROVE  RunOn
<1>1. RowsForm(jobs) /\ \A j \in JobIds : jobs[j] \in Row
  BY DEF SessionInv, SessionForm, RowsForm, Table
<1>2. ASSUME NEW w \in Workers, Crash(w) PROVE RunOn
  <2>1. tasks' \subseteq tasks /\ jobs' = jobs
    BY <1>2 DEF Crash
  <2> QED
    BY <1>1, <2>1, EndedRun DEF RowOfTask, HasRow
<1>3. ASSUME NEW j \in JobIds, LeaseExpires(j) PROVE RunOn
  <2>1. /\ Holders(j) = {} /\ tasks' = tasks /\ jobs[j].status = "running"
        /\ jobs' = [jobs EXCEPT ![j].fresh = FALSE]
    BY <1>3 DEF LeaseExpires, Late
  <2>2. PICK row \in Row : row = [jobs[j] EXCEPT !.fresh = FALSE]
    BY <1>1 DEF Row
  <2>3. jobs' = [jobs EXCEPT ![j] = row]
    BY <2>1, <2>2
  <2>4. Exists(jobs[j]) /\ j \in DedupKeys \cup SessionJobs
    BY <1>1, <2>1 DEF Exists, RowsForm
  <2>5. /\ RowsForm([jobs EXCEPT ![j] = row])
        /\ \A i \in JobIds : i # j => [jobs EXCEPT ![j] = row][i] = jobs[i]
    BY <1>1, <2>4, RowsReplaced
  <2>6. RowsForm(jobs') /\ \A i \in JobIds : i # j => jobs'[i] = jobs[i]
    BY <2>3, <2>5
  <2>7. ASSUME NEW s \in Sessions
        PROVE  /\ Exists(jobs'[SessionKey(s)]) => Exists(jobs[SessionKey(s)])
               /\ \A t \in tasks' : t.job = SessionKey(s) => (RowOfTask(t) => RowOfTask(t)')
    <3>1. CASE j = SessionKey(s)
      <4>1. ASSUME NEW t \in tasks, t.job = j, RowOfTask(t) PROVE FALSE
        BY <2>1, <2>4, <4>1 DEF RowOfTask, Holders
      <4> QED
        BY <2>1, <2>4, <3>1, <4>1
    <3>2. CASE j # SessionKey(s)
      BY <2>6, <3>2, SessionKeyParts DEF RowOfTask, HasRow
    <3> QED
      BY <3>1, <3>2
  <2> QED
    BY <2>1, <2>6, <2>7, EndedRun
<1>4. \A j \in JobIds : ~LeaseLapses(j)
  BY DEF LeaseLapses, Fault
<1>5. CASE Reconcile
  <2>1. tasks' = tasks
    BY <1>5 DEF Reconcile
  <2>2. AfterReclaim \in Table /\ \A j \in JobIds : AfterReclaim[j] = ReclaimedRow(jobs[j])
    BY <1>1, RowStatements DEF AfterReclaim, Table
  <2>3. \A j \in JobIds : Exists(AfterReclaim[j]) => Exists(jobs[j])
    BY <2>2 DEF ReclaimedRow, Stuck, Exists
  <2>4. RowsForm(AfterReclaim)
    BY <1>1, <2>2, <2>3 DEF RowsForm
  <2>5. jobs' = AfterReclaim \/ \E key \in DedupKeys : jobs' = Insert(AfterReclaim, key)
    <3>1. status \in DOMAIN NextStage => ReconcileKey(NextStage[status]) \in DedupKeys
      BY StageKeys DEF NextStage, PipelineKinds
    <3> QED
      BY <1>5, <3>1 DEF Reconcile, Partial
  <2>6. RowsForm(jobs') /\ \A s \in Sessions : jobs'[SessionKey(s)] = AfterReclaim[SessionKey(s)]
    <3>1. CASE jobs' = AfterReclaim
      BY <2>4, <3>1
    <3>2. ASSUME NEW key \in DedupKeys, jobs' = Insert(AfterReclaim, key)
          PROVE  RowsForm(jobs') /\ \A s \in Sessions : jobs'[SessionKey(s)] = AfterReclaim[SessionKey(s)]
      BY <2>4, <3>2, RowsInserted, SessionKeyParts
    <3> QED
      BY <2>5, <3>1, <3>2
  <2>7. ASSUME NEW s \in Sessions
        PROVE  /\ Exists(jobs'[SessionKey(s)]) => Exists(jobs[SessionKey(s)])
               /\ \A t \in tasks' : t.job = SessionKey(s) => (RowOfTask(t) => RowOfTask(t)')
    <3>1. SessionKey(s) \in JobIds
      BY SessionKeyParts
    <3>2. jobs'[SessionKey(s)] = ReclaimedRow(jobs[SessionKey(s)])
      BY <2>2, <2>6, <3>1
    <3>3. ASSUME NEW t \in tasks, t.job = SessionKey(s), RowOfTask(t) PROVE RowOfTask(t)'
      <4>1. jobs'[SessionKey(s)] = jobs[SessionKey(s)]
        BY <3>2, <3>3 DEF RowOfTask, ReclaimedRow, Stuck, Exists
      <4> QED
        BY <3>3, <4>1 DEF RowOfTask, HasRow
    <3> QED
      BY <2>1, <2>3, <2>6, <3>1, <3>3
  <2> QED
    BY <2>1, <2>6, <2>7, EndedRun
<1> QED
  BY <1>2, <1>3, <1>4, <1>5 DEF TimeStep

OrphanAt(t, n) == [t EXCEPT !.orphan = IF HasRow(t) THEN n ELSE @]

\* The jobs of the document go, those of the sessions with them.
LEMMA WipedRun ==
    ASSUME SessionInv, NEW n, n # 0, tasks' = {OrphanAt(t, n) : t \in tasks},
           jobs' = EmptyTable \/ \E key \in DedupKeys : jobs' = Insert(EmptyTable, key)
    PROVE  RunOn
<1>1. ASSUME NEW t \in tasks
      PROVE  /\ OrphanAt(t, n).job = t.job /\ OrphanAt(t, n).pc = t.pc
             /\ ~HasRow(OrphanAt(t, n)) /\ TaskForm(OrphanAt(t, n))
  <2>1. TaskForm(t)
    BY DEF SessionInv, SessionForm
  <2>2. PICK m : m = IF HasRow(t) THEN n ELSE t.orphan
    OBVIOUS
  <2>3. m # 0
    BY <2>2 DEF HasRow
  <2>4. PICK u : u = OrphanAt(t, n)
    OBVIOUS
  <2>5. u = [t EXCEPT !.orphan = m]
    BY <2>2, <2>4 DEF OrphanAt
  <2>6. u = [job |-> t.job, n |-> t.n, orphan |-> m, worker |-> t.worker, pc |-> t.pc,
             todo |-> t.todo]
    BY <2>1, <2>5 DEF TaskForm
  <2>7. /\ u.job = t.job /\ u.pc = t.pc /\ u.orphan = m /\ u.worker = t.worker
        /\ u.n = t.n /\ u.todo = t.todo
    BY <2>6
  <2>8. TaskForm(u)
    BY <2>1, <2>6, <2>7 DEF TaskForm
  <2> QED
    BY <2>3, <2>4, <2>7, <2>8 DEF HasRow
<1>2. RowsForm(EmptyTable) /\ \A j \in JobIds : ~Exists(EmptyTable[j])
  BY UnusedIsRow DEF RowsForm, Table, EmptyTable, Exists, Unused
<1>3. RowsForm(jobs') /\ \A s \in Sessions : ~Exists(jobs'[SessionKey(s)])
  <2>1. CASE jobs' = EmptyTable
    BY <1>2, <2>1, SessionKeyParts
  <2>2. ASSUME NEW key \in DedupKeys, jobs' = Insert(EmptyTable, key)
        PROVE  RowsForm(jobs') /\ \A s \in Sessions : ~Exists(jobs'[SessionKey(s)])
    BY <1>2, <2>2, RowsInserted, SessionKeyParts
  <2> QED
    BY <2>1, <2>2
<1>4. ASSUME NEW s \in Sessions PROVE RunsOn(s)
  <2>1. OneRun(s)
    BY DEF SessionInv
  <2>2. ASSUME NEW u \in tasks', u.job = SessionKey(s)
        PROVE  /\ RowOfTask(u)'
               /\ \E t \in tasks : u = OrphanAt(t, n) /\ t.job = SessionKey(s) /\ u.pc = t.pc
    <3>1. PICK t \in tasks : u = OrphanAt(t, n)
      OBVIOUS
    <3>2. u.job = t.job /\ u.pc = t.pc /\ ~HasRow(u)
      BY <1>1, <3>1
    <3> QED
      BY <1>3, <2>2, <3>1, <3>2 DEF RowOfTask, HasRow
  <2>3. OneRun(s)'
    BY <2>1, <2>2 DEF OneRun
  <2> QED
    BY <1>3, <2>2, <2>3 DEF RunsOn, Reads
<1> QED
  BY <1>1, <1>3, <1>4 DEF RunOn

\* The operations of users.
LEMMA HttpRun ==
    ASSUME SessionInv, HttpStep
    PROVE  RunOn
<1>1. RowsForm(jobs) /\ operations \in Nat /\ operations + 1 # 0 /\ \A r \in asking : r.n # 0
  BY DEF SessionInv, SessionForm, Asked
<1>2. StageKey("ocr") \in DedupKeys /\ \A p \in Pages : PageKey(p) \in DedupKeys
  BY StageKeys, PageKeys DEF PipelineKinds
<1>3. \A n : OrphanTasks(n) => tasks' = {OrphanAt(t, n) : t \in tasks}
  BY DEF OrphanTasks, OrphanAt
<1>4. CASE Upload \/ Reupload
  BY <1>2, <1>4, InsertedRun DEF Upload, Reupload
<1>5. ASSUME NEW n, n # 0, OrphanTasks(n),
             \/ jobs' = EmptyTable
             \/ jobs' = Insert(EmptyTable, StageKey("ocr"))
             \/ \E p \in Pages : jobs' = Insert(EmptyTable, PageKey(p))
      PROVE  RunOn
  BY <1>1, <1>2, <1>3, <1>5, WipedRun
<1>6. CASE RequestDelete
  <2>1. tasks' = tasks /\ jobs' = CancelRequestedForDocument(jobs, Doc)
    BY <1>6 DEF RequestDelete
  <2>2. \A j \in JobIds : jobs[j] \in Row /\ FlaggedRow(jobs[j]) \in Row
    BY <1>1, RowStatements DEF RowsForm, Table
  <2>3. \A j \in JobIds : jobs'[j] \in {jobs[j], FlaggedRow(jobs[j])}
    BY <2>1 DEF CancelRequestedForDocument
  <2>4. \A j \in JobIds : /\ jobs'[j].status = jobs[j].status
                          /\ jobs'[j].fresh = jobs[j].fresh
                          /\ jobs'[j].worker = jobs[j].worker
    BY <2>2, <2>3 DEF FlaggedRow, Row
  <2>5. jobs' = [j \in JobIds |-> jobs'[j]] /\ jobs' \in Table
    BY <2>1, <2>2 DEF CancelRequestedForDocument, Table
  <2>6. RowsForm(jobs')
    BY <1>1, <2>4, <2>5 DEF RowsForm, Exists
  <2> QED
    BY <2>1, <2>4, <2>6, EndedRun, SessionKeyParts DEF RowOfTask, HasRow, Exists
<1>7. CASE \/ DeleteTimesOut \/ RetryChecks \/ \E p \in Pages : ReextractChecks(p)
           \/ \E r \in asking : RequestDies(r)
  BY <1>7, SameRuns DEF DeleteTimesOut, RetryChecks, ReextractChecks, RequestDies
<1>8. ASSUME NEW r \in asking, RetryWrites(r) PROVE RunOn
  BY <1>1, <1>5, <1>8 DEF RetryWrites
<1>9. ASSUME NEW r \in asking, ReextractWrites(r) PROVE RunOn
  BY <1>1, <1>5, <1>9 DEF ReextractWrites
<1>10. CASE DeleteRows
  BY <1>1, <1>5, <1>10 DEF DeleteRows
<1> QED
  BY <1>4, <1>6, <1>7, <1>8, <1>9, <1>10 DEF HttpStep

\* Every step of the pipeline.
LEMMA PipelineRun ==
    ASSUME SessionInv, "lapse" \notin Faults, Next
    PROVE  RunOn
<1>1. CASE WorkerStep
  BY <1>1, ClaimRun, HandlerRun, EndRun, TimeRun DEF WorkerStep, HandlerStep
<1> QED
  BY <1>1, HttpRun, TimeRun DEF Next

-----------------------------------------------------------------------------
(* Sessions: what every step keeps *)

\* A step cannot bring an accepted session back, but for a reject that is under way.
AcceptedKept ==
    \A s \in Sessions : sessions[s].status = "accepted" =>
        \/ sessions'[s].status \in {"accepted", "absent"}
        \/ s \in rejecting /\ sessions'[s].status = "rejected"

\* A document that is deleted stays deleted.
LEMMA DeletedStays == status = "deleted" /\ Next => status' = "deleted"
<1> SUFFICES ASSUME status = "deleted", Next PROVE status' = "deleted"
  OBVIOUS
<1> USE DEF DocExists, docVars
<1>1. CASE HttpStep
  BY <1>1 DEF HttpStep, Upload, Reupload, RetryChecks, RetryWrites, ReextractChecks,
     ReextractWrites, RequestDies, RequestDelete, DeleteRows, DeleteTimesOut
<1>2. ASSUME NEW t \in tasks, HandlerStep(t) \/ Heartbeat(t) \/ StageAborts(t)
      PROVE  status' = "deleted"
  <2>1. CASE OcrStep(t)
    BY <2>1 DEF OcrStep, OcrLoad, OcrPending, OcrLocate, OcrClaimable, OcrCount, OcrInputFails,
       OcrNextPage, OcrCancelled, OcrPage, OcrLoopFails, OcrDone, OcrText, FailDocument, Orphaned
  <2>2. CASE StageStep(t)
    BY <2>2 DEF StageStep, StageFails, LayoutClaim, LayoutWork, ChunkingClaim, ChunkingWork,
       EmbeddingClaim, EmbeddingDone, EmbeddingBatch, StageClaims, FailDocument, Orphaned
  <2> QED
    BY <1>2, <2>1, <2>2 DEF HandlerStep, Finish, Raise, Heartbeat, StageAborts
<1>3. CASE WorkerStep
  BY <1>2, <1>3 DEF WorkerStep, Claim, Crash
<1>4. CASE TimeStep
  BY <1>4 DEF TimeStep, Reconcile, LeaseExpires, LeaseLapses, Late
<1> QED
  BY <1>1, <1>3, <1>4 DEF Next

\* The calls are counted, and the requests numbered.
LEMMA CallsCounted ==
    ASSUME operations \in Nat, asking \subseteq Asked, Next
    PROVE  operations' \in Nat /\ asking' \subseteq Asked
<1>1. UNCHANGED setting => operations' \in Nat /\ asking' \subseteq Asked
  BY DEF setting
<1>2. \A op : Call(op) => operations' \in Nat
  BY DEF Call
<1>3. CASE HttpStep
  <2>1. ASSUME NEW p \in Pages \cup {0}, Asks(p) PROVE asking' \subseteq Asked
    <3>1. [n |-> operations + 1, page |-> p, found |-> TRUE] \in Asked
      BY DEF Asked
    <3> QED
      BY <2>1, <3>1 DEF Asks
  <2>2. RetryChecks \/ (\E p \in Pages : ReextractChecks(p))
        => operations' \in Nat /\ asking' \subseteq Asked
    BY <1>2, <2>1 DEF RetryChecks, ReextractChecks
  <2>3. Reupload \/ RequestDelete => operations' \in Nat /\ asking' \subseteq Asked
    BY <1>2 DEF Reupload, RequestDelete
  <2>4. ASSUME NEW r \in asking, RetryWrites(r) PROVE operations' \in Nat /\ asking' \subseteq Asked
    <3>1. \A q \in Asked : [q EXCEPT !.found = FALSE] \in Asked
      BY DEF Asked
    <3> QED
      BY <2>4, <3>1 DEF RetryWrites
  <2>5. ASSUME NEW r \in asking, ReextractWrites(r) \/ RequestDies(r)
        PROVE  operations' \in Nat /\ asking' \subseteq Asked
    BY <2>5 DEF ReextractWrites, RequestDies
  <2> QED
    BY <1>1, <1>3, <2>2, <2>3, <2>4, <2>5 DEF HttpStep, Upload, DeleteRows, DeleteTimesOut
<1>4. \A f : Fault(f) => operations' \in Nat /\ asking' \subseteq Asked
  BY DEF Fault
<1>5. CASE WorkerStep
  BY <1>1, <1>4, <1>5, HandlerSetting DEF WorkerStep, Claim, Heartbeat, StageAborts, Crash
<1>6. CASE TimeStep
  BY <1>1, <1>4, <1>6 DEF TimeStep, Reconcile, LeaseExpires, LeaseLapses
<1> QED
  BY <1>3, <1>5, <1>6 DEF Next

\* The accepted sessions are finitely many, as long as they become so one by one.
LEMMA AcceptedFinite ==
    ASSUME IsFiniteSet(Accepted), NEW r,
           \A s \in Sessions : sessions'[s].status = "accepted" => s = r \/ sessions[s].status = "accepted"
    PROVE  IsFiniteSet(Accepted)'
<1>1. IsFiniteSet(Accepted \cup {r})
  BY FS_AddElement
<1>2. Accepted' \subseteq Accepted \cup {r}
  BY DEF Accepted
<1> QED
  BY <1>1, <1>2, FS_Subset

\* What a session's status says stays true if its runs go on.
LEMMA FitsOn ==
    ASSUME SessionInv, NEW s \in Sessions, RunsOn(s),
           BeingAccepted(s)' => BeingAccepted(s),
           sessions'[s].queued => sessions[s].queued,
           status = "deleted" => status' = "deleted",
           ~Live(s)' => ~Live(s) \/ (status' = "deleted" /\ ~sessions'[s].queued),
           BeingRead(s)' => sessions'[s].status \in {"pending", "running", "rejected", "absent"},
           BeingAccepted(s)' => sessions'[s].status \in {"ready", "accepted", "rejected", "absent"}
    PROVE  SessionFits(s)'
<1>1. SessionFits(s)
  BY DEF SessionInv
<1>2. BeingRead(s)' => BeingRead(s)
  BY DEF BeingRead, RunsOn
<1>3. Idle(s) => Idle(s)'
  BY DEF Idle, RunsOn
<1> QED
  BY <1>1, <1>2, <1>3 DEF SessionFits

\* So it does if the session is as it was.
LEMMA SameFits ==
    ASSUME SessionInv, NEW s \in Sessions, RunsOn(s),
           BeingAccepted(s)' => BeingAccepted(s), status = "deleted" => status' = "deleted",
           sessions'[s].status = sessions[s].status, sessions'[s].queued = sessions[s].queued
    PROVE  SessionFits(s)'
<1>1. SessionFits(s)
  BY DEF SessionInv
<1>2. BeingRead(s)' => BeingRead(s)
  BY DEF BeingRead, RunsOn
<1>3. Live(s)' = Live(s)
  BY DEF Live
<1> QED
  BY <1>1, <1>2, <1>3, FitsOn DEF SessionFits

\* A session whose status changes.
LEMMA StatusSet ==
    ASSUME sessions \in [Sessions -> Session], NEW s \in Sessions, NEW st \in SessionStatuses,
           sessions' = [sessions EXCEPT ![s].status = st]
    PROVE  /\ sessions' \in [Sessions -> Session]
           /\ sessions'[s].status = st /\ sessions'[s].queued = sessions[s].queued
           /\ \A r \in Sessions : r # s => sessions'[r] = sessions[r]
<1>1. PICK row \in Session : row = [sessions[s] EXCEPT !.status = st]
  BY DEF Session
<1>2. row.status = st /\ row.queued = sessions[s].queued
  BY <1>1 DEF Session
<1>3. sessions' = [sessions EXCEPT ![s] = row]
  BY <1>1
<1> QED
  BY <1>2, <1>3

\* A step of the pipeline.
LEMMA PipelineKeeps ==
    ASSUME SessionInv, "lapse" \notin Faults, PipelineStep
    PROVE  SessionInv' /\ AcceptedKept
<1>1. RunOn
  BY PipelineRun DEF PipelineStep, Next
<1>2. SessionForm /\ accepting' = accepting
  BY DEF SessionInv, PipelineStep, requests
<1>3. operations' \in Nat /\ asking' \subseteq Asked /\ (status = "deleted" => status' = "deleted")
  BY <1>2, CallsCounted, DeletedStays DEF SessionForm, PipelineStep, Next
<1>4. \A s \in Sessions : sessions'[s] = Cascaded(sessions[s])
  BY DEF PipelineStep
<1>5. NoSession \in Session /\ NoSession.status = "absent" /\ NoSession.queued = FALSE
  BY DEF NoSession, Session, SessionStatuses, Results
<1>6. ASSUME NEW x \in Session
      PROVE  /\ Cascaded(x) \in Session
             /\ status' = "deleted" => Cascaded(x).status = "absent" /\ Cascaded(x).queued = FALSE
             /\ status' # "deleted" => Cascaded(x).status = x.status /\ Cascaded(x).queued = x.queued
  <2>1. CASE status' = "deleted"
    BY <1>5, <2>1 DEF Cascaded
  <2>2. CASE status' # "deleted"
    <3> DEFINE kept == [p \in Pages |-> IF pageRows'[p].full + pageRows'[p].empty = 0
                                        THEN "none" ELSE x.results[p]]
    <3>1. kept \in [Pages -> Results]
      BY DEF Session, Results
    <3>2. Cascaded(x) = [x EXCEPT !.results = kept]
      BY <2>2 DEF Cascaded
    <3> HIDE DEF kept
    <3> QED
      BY <2>2, <3>1, <3>2 DEF Session
  <2> QED
    BY <2>1, <2>2
<1>7. ASSUME NEW s \in Sessions
      PROVE  /\ sessions'[s] \in Session
             /\ status' = "deleted" => sessions'[s].status = "absent" /\ sessions'[s].queued = FALSE
             /\ status' # "deleted" => /\ sessions'[s].status = sessions[s].status
                                       /\ sessions'[s].queued = sessions[s].queued
  <2>1. PICK x \in Session : x = sessions[s]
    BY <1>2 DEF SessionForm
  <2>2. sessions'[s] = Cascaded(x)
    BY <1>4, <2>1
  <2> QED
    BY <1>6, <2>1, <2>2
<1>8. sessions' \in [Sessions -> Session]
  BY <1>7 DEF PipelineStep
<1>9. IsFiniteSet(Accepted)'
  BY <1>2, <1>7, AcceptedFinite DEF SessionForm
<1>10. ASSUME NEW s \in Sessions PROVE OneRun(s)' /\ SessionFits(s)'
  <2>1. RunsOn(s) /\ (BeingAccepted(s)' => BeingAccepted(s))
    BY <1>1, <1>2 DEF RunOn, BeingAccepted
  <2>2. CASE status' = "deleted"
    BY <1>3, <1>7, <2>1, <2>2, FitsOn DEF RunsOn
  <2>3. CASE status' # "deleted"
    BY <1>3, <1>7, <2>1, <2>3, SameFits DEF RunsOn
  <2> QED
    BY <2>2, <2>3
<1>11. SessionForm'
  BY <1>1, <1>2, <1>3, <1>8, <1>9 DEF SessionForm, RunOn
<1>12. status' = "deleted" => \A s \in Sessions : ~Live(s)'
  BY <1>7 DEF Live
<1>13. AcceptedKept
  BY <1>7 DEF AcceptedKept
<1> QED
  BY <1>10, <1>11, <1>12, <1>13 DEF SessionInv

\* A session is started, and its job is queued.
LEMMA StartKeeps ==
    ASSUME SessionInv, NEW s \in Sessions,
           StartEnqueues(s) \/ \E pages \in SUBSET Pages \ {{}} : Start(s, pages)
    PROVE  SessionInv' /\ AcceptedKept
<1>1. SessionForm /\ accepting' = accepting /\ UNCHANGED <<docVars, tasks, deleting, setting>>
  BY DEF SessionInv, Start, StartEnqueues, vars, requests
<1>2. status' = status /\ operations' = operations /\ asking' = asking
  BY <1>1 DEF docVars, setting
<1>3. CASE \E pages \in SUBSET Pages \ {{}} : Start(s, pages)
  <2>1. PICK pages \in SUBSET Pages \ {{}} : Start(s, pages)
    BY <1>3
  <2>2. /\ status # "deleted" /\ ~Live(s) /\ UNCHANGED <<jobs, tasks>>
        /\ sessions' = [sessions EXCEPT ![s] =
              [NoSession EXCEPT !.status = "pending", !.queued = TRUE, !.pages = pages]]
    BY <2>1 DEF Start, vars
  <2>3. PICK row : row = [NoSession EXCEPT !.status = "pending", !.queued = TRUE, !.pages = pages]
    OBVIOUS
  <2>4. row \in Session /\ row.status = "pending" /\ row.queued = TRUE
    BY <2>3 DEF NoSession, Session, SessionStatuses, Results
  <2>5. sessions' = [sessions EXCEPT ![s] = row]
    BY <2>2, <2>3
  <2>6. /\ sessions' \in [Sessions -> Session] /\ sessions'[s] = row
        /\ \A r \in Sessions : r # s => sessions'[r] = sessions[r]
    BY <1>1, <2>4, <2>5 DEF SessionForm
  <2>7. RunOn
    BY <2>2, SameRuns
  <2>8. IsFiniteSet(Accepted)'
    BY <1>1, <2>4, <2>6, AcceptedFinite DEF SessionForm
  <2>9. SessionForm'
    BY <1>1, <1>2, <2>2, <2>6, <2>7, <2>8 DEF SessionForm, RunOn
  <2>10. ASSUME NEW r \in Sessions PROVE OneRun(r)' /\ SessionFits(r)'
    <3>1. RunsOn(r) /\ (BeingAccepted(r)' => BeingAccepted(r))
      BY <1>1, <2>7 DEF RunOn, BeingAccepted
    <3>2. CASE r = s
      <4>1. Idle(s) /\ ~BeingAccepted(s)
        BY <2>2 DEF SessionInv, SessionFits
      <4>2. Idle(s)' /\ ~BeingRead(s)' /\ ~BeingAccepted(s)'
        BY <1>1, <2>2, <4>1 DEF Idle, BeingRead, BeingAccepted
      <4> QED
        BY <2>4, <2>6, <3>1, <3>2, <4>2 DEF SessionFits, Live, RunsOn
    <3>3. CASE r # s
      BY <1>2, <2>6, <3>1, <3>3, SameFits DEF RunsOn
    <3> QED
      BY <3>2, <3>3
  <2>11. AcceptedKept
    BY <2>2, <2>6 DEF AcceptedKept, Live
  <2> QED
    BY <1>2, <2>2, <2>9, <2>10, <2>11 DEF SessionInv
<1>4. CASE StartEnqueues(s)
  <2>1. /\ sessions[s].queued /\ jobs' = Insert(jobs, SessionKey(s)) /\ tasks' = tasks
        /\ sessions' = [sessions EXCEPT ![s].queued = FALSE]
    BY <1>4 DEF StartEnqueues
  <2>2. /\ RowsForm(jobs') /\ \A j \in JobIds : j # SessionKey(s) => jobs'[j] = jobs[j]
    BY <1>1, <2>1, RowsInserted, SessionKeyParts DEF SessionForm
  <2>3. PICK row \in Session : row = [sessions[s] EXCEPT !.queued = FALSE]
    BY <1>1 DEF SessionForm, Session
  <2>4. row.status = sessions[s].status /\ row.queued = FALSE
    BY <1>1, <2>3 DEF SessionForm, Session
  <2>5. sessions' = [sessions EXCEPT ![s] = row]
    BY <2>1, <2>3
  <2>6. /\ sessions' \in [Sessions -> Session] /\ sessions'[s] = row
        /\ \A r \in Sessions : r # s => sessions'[r] = sessions[r]
    BY <1>1, <2>5 DEF SessionForm
  <2>7. \A r \in Sessions : sessions'[r].status = sessions[r].status
    BY <2>4, <2>6
  <2>8. IsFiniteSet(Accepted)'
    BY <1>1, <2>7, AcceptedFinite DEF SessionForm
  <2>9. SessionForm'
    BY <1>1, <1>2, <2>1, <2>2, <2>6, <2>8 DEF SessionForm
  <2>10. ASSUME NEW r \in Sessions PROVE OneRun(r)' /\ SessionFits(r)'
    <3>1. OneRun(r) /\ SessionFits(r) /\ Live(r)' = Live(r) /\ BeingAccepted(r)' = BeingAccepted(r)
      BY <1>1, <2>7 DEF SessionInv, Live, BeingAccepted
    <3>2. CASE r = s
      <4>1. Idle(s) /\ Live(s)
        BY <2>1, <3>1, <3>2 DEF SessionFits
      <4>2. OneRun(s)' /\ ~BeingRead(s)'
        BY <2>1, <4>1 DEF Idle, OneRun, BeingRead
      <4> QED
        BY <2>4, <2>6, <2>7, <3>1, <3>2, <4>1, <4>2 DEF SessionFits
    <3>3. CASE r # s
      <4>1. SessionKey(r) # SessionKey(s) /\ SessionKey(r) \in JobIds
        BY <3>3, SessionKeyParts
      <4>2. jobs'[SessionKey(r)] = jobs[SessionKey(r)]
        BY <2>2, <4>1
      <4>3. RunsOn(r)
        BY <2>1, <3>1, <4>2 DEF RunsOn, OneRun, RowOfTask, HasRow
      <4> QED
        BY <1>2, <2>6, <3>1, <3>3, <4>3, SameFits DEF RunsOn
    <3> QED
      BY <3>2, <3>3
  <2>11. AcceptedKept
    BY <2>7 DEF AcceptedKept
  <2> QED
    BY <1>2, <2>7, <2>9, <2>10, <2>11 DEF SessionInv, Live
<1> QED
  BY <1>3, <1>4

\* A task of a session that reads sets the status of its session: to running when it takes
\* the session up, and at its end or when its input is not there, when it goes.
LEMMA EndKeeps ==
    ASSUME SessionInv, NEW t \in tasks, Reads(t), NEW st \in SessionStatuses \ {"absent", "accepted"},
           NEW pc \in {"input", "finish", "retry"}, pc = "input" => st = "running",
           WithStatus(SessionOf(t), st), NEW todo, tasks' = Moved(t, pc, todo),
           UNCHANGED <<docVars, jobs, deleting, setting, requests>>
    PROVE  SessionInv' /\ AcceptedKept
<1>1. /\ SessionForm /\ TaskForm(t) /\ status' = status
      /\ UNCHANGED <<operations, asking, accepting>>
  BY DEF SessionInv, SessionForm, docVars, setting, requests
<1>2. OfSession(t) /\ SessionOf(t) \in Sessions /\ t.job = SessionKey(SessionOf(t))
  BY <1>1, FormParts
<1>3. PICK s \in Sessions : s = SessionOf(t)
  BY <1>2
<1>4. PcFor(t, pc)
  BY <1>2 DEF PcFor, SessionPcs
<1>5. RunOn /\ \A u \in tasks' : (u.job = t.job /\ u.pc = pc) \/ u \in tasks \ {t}
  BY <1>4, MovedRun
<1>6. BeingRead(s) /\ ~BeingAccepted(s) /\ ~sessions[s].queued
      /\ sessions[s].status \in {"pending", "running", "rejected", "absent"} /\ OneRun(s)
  BY <1>2, <1>3 DEF SessionInv, SessionFits, BeingRead, Idle
<1>7. BeingRead(s)' => st = "running"
  BY <1>2, <1>3, <1>5, <1>6 DEF BeingRead, OneRun, Reads
<1>8. /\ sessions' \in [Sessions -> Session]
      /\ sessions'[s].queued = sessions[s].queued
      /\ sessions'[s].status = IF Live(s) THEN st ELSE sessions[s].status
      /\ \A r \in Sessions : r # s => sessions'[r] = sessions[r]
  <2>1. CASE Live(s)
    <3>1. sessions \in [Sessions -> Session] /\ st \in SessionStatuses
      BY <1>1 DEF SessionForm
    <3>2. WithStatus(s, st)
      BY <1>3
    <3>3. sessions' = [sessions EXCEPT ![s].status = st]
      BY <2>1, <3>2 DEF WithStatus
    <3>4. /\ sessions' \in [Sessions -> Session]
          /\ sessions'[s].status = st /\ sessions'[s].queued = sessions[s].queued
          /\ \A r \in Sessions : r # s => sessions'[r] = sessions[r]
      BY <3>1, <3>3, StatusSet
    <3> QED
      BY <2>1, <3>4
  <2>2. CASE ~Live(s)
    BY <1>1, <1>3, <2>2 DEF WithStatus, SessionForm
  <2> QED
    BY <2>1, <2>2
<1>9. IsFiniteSet(Accepted)'
  BY <1>1, <1>8, AcceptedFinite DEF SessionForm
<1>10. SessionForm'
  BY <1>1, <1>5, <1>8, <1>9 DEF SessionForm, RunOn
<1>11. \A r \in Sessions : Live(r)' = Live(r)
  BY <1>8 DEF Live
<1>12. ASSUME NEW r \in Sessions PROVE OneRun(r)' /\ SessionFits(r)'
  <2>1. RunsOn(r) /\ BeingAccepted(r)' = BeingAccepted(r)
    <3>1. RunsOn(r)
      BY <1>5 DEF RunOn
    <3>2. BeingAccepted(r)' = BeingAccepted(r)
      BY <1>1 DEF BeingAccepted
    <3> QED
      BY <3>1, <3>2
  <2>2. CASE r = s
    <3>1. BeingRead(s)' => sessions'[s].status \in {"pending", "running", "rejected", "absent"}
      BY <1>6, <1>7, <1>8
    <3>2. RunsOn(s) /\ BeingAccepted(s)' = BeingAccepted(s) /\ Live(s)' = Live(s)
      BY <1>11, <2>1, <2>2
    <3>3. SessionFits(s)'
      BY <1>1, <1>6, <1>8, <3>1, <3>2, FitsOn
    <3> QED
      BY <2>1, <2>2, <3>3 DEF RunsOn
  <2>3. CASE r # s
    BY <1>1, <1>8, <2>1, <2>3, SameFits DEF RunsOn
  <2> QED
    BY <2>2, <2>3
<1>13. AcceptedKept
  BY <1>6, <1>8 DEF AcceptedKept
<1> QED
  BY <1>1, <1>10, <1>11, <1>12, <1>13 DEF SessionInv

\* A run finds its session to be taken up, and then nobody else runs or accepts it.
LEMMA LoadKeeps ==
    ASSUME SessionInv, NEW t \in tasks, OfSession(t), NEW pages,
           sessions[SessionOf(t)].status \in {"pending", "running"},
           tasks' = Moved(t, "claim", pages),
           UNCHANGED <<docVars, jobs, deleting, setting, sessionVars>>
    PROVE  SessionInv' /\ AcceptedKept
<1>1. /\ SessionForm /\ TaskForm(t) /\ status' = status
      /\ UNCHANGED <<operations, asking, accepting, sessions>>
  BY DEF SessionInv, SessionForm, docVars, setting, sessionVars, requests
<1>2. SessionOf(t) \in Sessions /\ t.job = SessionKey(SessionOf(t))
  BY <1>1, FormParts
<1>3. PICK s \in Sessions : s = SessionOf(t)
  BY <1>2
<1>4. PcFor(t, "claim")
  BY DEF PcFor, SessionPcs
<1>5. /\ \A u \in tasks' : TaskForm(u)
      /\ \A r \in Sessions : OneRun(r)'
      /\ \A u \in tasks' : (u.job = t.job /\ u.pc = "claim") \/ u \in tasks \ {t}
  BY <1>4, MovedRun
<1>6. sessions[s].status \in {"pending", "running"} /\ ~BeingAccepted(s) /\ ~sessions[s].queued
  BY <1>2, <1>3 DEF SessionInv, SessionFits, Idle
<1>10. SessionForm'
  BY <1>1, <1>5 DEF SessionForm, Accepted
<1>12. ASSUME NEW r \in Sessions PROVE OneRun(r)' /\ SessionFits(r)'
  <2>1. OneRun(r)' /\ BeingAccepted(r)' = BeingAccepted(r) /\ Live(r)' = Live(r)
    BY <1>1, <1>5 DEF BeingAccepted, Live
  <2>2. CASE r = s
    BY <1>1, <1>6, <2>1, <2>2 DEF SessionFits, Live
  <2>3. CASE r # s
    <3>1. SessionKey(r) # t.job
      BY <1>2, <1>3, <2>3, SessionKeyParts
    <3>2. RunsOn(r)
      BY <1>5, <2>1, <3>1 DEF RunsOn
    <3> QED
      BY <1>1, <2>1, <2>3, <3>2, SameFits
  <2> QED
    BY <2>2, <2>3
<1> QED
  BY <1>1, <1>10, <1>12 DEF SessionInv, AcceptedKept, Live

\* A step that leaves every session's status as it is.
LEMMA SameKeeps ==
    ASSUME SessionInv, RunOn, sessions' \in [Sessions -> Session],
           \A s \in Sessions : /\ sessions'[s].status = sessions[s].status
                               /\ sessions'[s].queued = sessions[s].queued,
           accepting' \subseteq accepting, UNCHANGED docVars, UNCHANGED <<operations, asking>>
    PROVE  SessionInv' /\ AcceptedKept
<1>1. SessionForm /\ status' = status
  BY DEF SessionInv, docVars
<1>2. IsFiniteSet(Accepted)'
  BY <1>1, AcceptedFinite DEF SessionForm
<1>3. SessionForm'
  BY <1>1, <1>2 DEF SessionForm, RunOn
<1>4. ASSUME NEW s \in Sessions PROVE OneRun(s)' /\ SessionFits(s)' /\ Live(s)' = Live(s)
  <2>1. RunsOn(s) /\ (BeingAccepted(s)' => BeingAccepted(s))
    BY DEF RunOn, BeingAccepted
  <2> QED
    BY <1>1, <2>1, SameFits DEF RunsOn, Live
<1> QED
  BY <1>1, <1>3, <1>4 DEF SessionInv, AcceptedKept

\* The steps of a session's run.
LEMMA RunKeeps ==
    ASSUME SessionInv, NEW t \in tasks, SessionStep(t) \/ SessionAborts(t)
    PROVE  SessionInv' /\ AcceptedKept
<1>1. SessionForm /\ TaskForm(t)
  BY DEF SessionInv, SessionForm
<1>2. ASSUME NEW pc, NEW todo, tasks' = Moved(t, pc, todo), OfSession(t), pc \in SessionPcs,
             pc \in {"claim", "input", "read", "readok"} => Reads(t),
             UNCHANGED <<docVars, jobs, accepting>>, UNCHANGED <<operations, asking>>,
             sessions' \in [Sessions -> Session],
             \A s \in Sessions : /\ sessions'[s].status = sessions[s].status
                                 /\ sessions'[s].queued = sessions[s].queued
      PROVE  SessionInv' /\ AcceptedKept
  <2>1. PcFor(t, pc)
    BY <1>2 DEF PcFor
  <2>2. RunOn
    BY <1>2, <2>1, MovedRun
  <2> QED
    BY <1>2, <2>2, SameKeeps
<1>3. CASE SessionLoad(t)
  <2>1. /\ OfSession(t) /\ UNCHANGED <<docVars, jobs, deleting, setting, sessionVars>>
        /\ \/ \E pc \in {"retry", "finish"} : tasks' = Moved(t, pc, {})
           \/ /\ sessions[SessionOf(t)].status \in {"pending", "running"}
              /\ tasks' = Moved(t, "claim", sessions[SessionOf(t)].pages)
    BY <1>3 DEF SessionLoad, LoadIf, Goto
  <2>2. CASE \E pc \in {"retry", "finish"} : tasks' = Moved(t, pc, {})
    <3>1. UNCHANGED <<operations, asking, accepting, sessions>>
      BY <2>1 DEF setting, sessionVars, requests
    <3> QED
      BY <1>1, <1>2, <2>1, <2>2, <3>1 DEF SessionForm, SessionPcs
  <2>3. CASE ~\E pc \in {"retry", "finish"} : tasks' = Moved(t, pc, {})
    BY <2>1, <2>3, LoadKeeps
  <2> QED
    BY <2>2, <2>3
<1>10. CASE SessionClaim(t)
  <2>1. Reads(t) /\ "running" \in SessionStatuses \ {"absent", "accepted"}
    BY <1>10 DEF SessionClaim, Reads, SessionStatuses
  <2> QED
    BY <1>10, <2>1, EndKeeps DEF SessionClaim
<1>4. CASE SessionInputFails(t)
  <2>1. Reads(t) /\ "failed" \in SessionStatuses \ {"absent", "accepted"}
    BY <1>4 DEF SessionInputFails, Reads, SessionStatuses
  <2> QED
    BY <1>4, <2>1, EndKeeps DEF SessionInputFails, Goto
<1>5. CASE SessionEnd(t)
  <2>1. PICK st \in SessionStatuses \ {"absent", "accepted"} : WithStatus(SessionOf(t), st)
    BY <1>5 DEF SessionEnd, SessionStatuses
  <2> QED
    BY <1>5, <2>1, EndKeeps DEF SessionEnd, Reading, Reads, Goto
<1>6. Reading(t) \/ t.pc = "input" => OfSession(t) /\ Reads(t) /\ SessionOf(t) \in Sessions
  BY <1>1, FormParts DEF Reading, Reads
<1>7. CASE SessionLocate(t)
  <2>1. Reads(t) /\ OfSession(t) /\ tasks' = Moved(t, "read", t.todo)
        /\ UNCHANGED <<docVars, jobs, accepting, operations, asking, sessions>>
    BY <1>6, <1>7 DEF SessionLocate, sessionVars, requests, setting
  <2> QED
    BY <1>1, <1>2, <2>1 DEF SessionForm, SessionPcs
<1>8. CASE SessionAborts(t)
  <2>1. OfSession(t) /\ tasks' = Moved(t, "retry", {})
        /\ UNCHANGED <<docVars, jobs, accepting, operations, asking, sessions>>
    BY <1>6, <1>8 DEF SessionAborts, sessionVars, requests, Fault, Goto
  <2> QED
    BY <1>1, <1>2, <2>1 DEF SessionForm, SessionPcs
<1>9. CASE SessionPage(t)
  <2>1. Reading(t) /\ OfSession(t) /\ Reads(t) /\ SessionOf(t) \in Sessions
        /\ UNCHANGED <<docVars, jobs, accepting, operations, asking>>
    BY <1>6, <1>9 DEF SessionPage, setting, requests
  <2> DEFINE p == Min(t.todo)
  <2> HIDE DEF p
  <2>0. PICK s \in Sessions : s = SessionOf(t)
    BY <2>1
  <2>2. PICK r \in Results :
           /\ sessions' = IF r = "none" THEN sessions ELSE [sessions EXCEPT ![s].results[p] = r]
           /\ tasks' = Moved(t, IF r \in {"text", "blank"} THEN "readok" ELSE t.pc, t.todo \ {p})
    BY <1>9, <2>0 DEF SessionPage, ReadResults, Results, p
  <2>3. PICK pc : pc = IF r \in {"text", "blank"} THEN "readok" ELSE t.pc
    OBVIOUS
  <2>4. pc \in SessionPcs /\ tasks' = Moved(t, pc, t.todo \ {p})
    BY <2>1, <2>2, <2>3 DEF Reading, SessionPcs
  <2>5. sessions' \in [Sessions -> Session]
        /\ \A q \in Sessions : /\ sessions'[q].status = sessions[q].status
                               /\ sessions'[q].queued = sessions[q].queued
    <3>1. CASE r = "none"
      BY <1>1, <2>2, <3>1 DEF SessionForm
    <3>2. CASE r # "none"
      <4>1. PICK results \in [Pages -> Results] : results = [sessions[s].results EXCEPT ![p] = r]
        BY <1>1 DEF SessionForm, Session
      <4>2. PICK row \in Session : row = [sessions[s] EXCEPT !.results = results]
        BY <1>1 DEF SessionForm, Session
      <4>3. row.status = sessions[s].status /\ row.queued = sessions[s].queued
        BY <1>1, <4>2 DEF SessionForm, Session
      <4>4. sessions' = [sessions EXCEPT ![s] = row]
        BY <2>2, <3>2, <4>1, <4>2
      <4> QED
        BY <1>1, <4>3, <4>4 DEF SessionForm
    <3> QED
      BY <3>1, <3>2
  <2> QED
    BY <1>2, <2>1, <2>4, <2>5
<1> QED
  BY <1>3, <1>4, <1>5, <1>7, <1>8, <1>9, <1>10 DEF SessionStep

\* What the operator does to a session: accepting, which takes the jobs away, ...
LEMMA AcceptKeeps ==
    ASSUME SessionInv, NEW a \in accepting, Accept(a)
    PROVE  SessionInv' /\ AcceptedKept
<1>1. SessionForm /\ a.session \in Sessions
  BY DEF SessionInv, SessionForm
<1>2. PICK s \in Sessions : s = a.session
  BY <1>1
<1>3. /\ Live(s) /\ status' = "ocr_done" /\ UNCHANGED <<operations, asking>>
      /\ sessions' = [sessions EXCEPT ![s].status = "accepted"]
  BY <1>2 DEF Accept, setting
<1>4. WipeJobs(MaxOperations + 1 + Cardinality(Accepted))
  BY DEF Accept
<1>5. PICK late \in BOOLEAN : accepting' = {[b EXCEPT !.late = late] : b \in accepting \ {a}}
  BY DEF Accept
<1>6. /\ accepting' \subseteq [session : Sessions, late : BOOLEAN, spans : [Pages -> Results]]
      /\ \A r \in Sessions : BeingAccepted(r)' => BeingAccepted(r)
  <2>1. ASSUME NEW b \in accepting
        PROVE  /\ [b EXCEPT !.late = late] \in [session : Sessions, late : BOOLEAN, spans : [Pages -> Results]]
               /\ [b EXCEPT !.late = late].session = b.session
    BY <1>1 DEF SessionForm
  <2> QED
    BY <1>5, <2>1 DEF BeingAccepted
<1>7. RunOn
  <2>1. PICK n : n = MaxOperations + 1 + Cardinality(Accepted)
    OBVIOUS
  <2>2. n # 0
    <3>1. Cardinality(Accepted) \in Nat /\ MaxOperations \in Nat
      BY <1>1, FS_CardinalityType, BoundsAssumption DEF SessionForm
    <3> QED
      BY <2>1, <3>1
  <2>3. tasks' = {OrphanAt(t, n) : t \in tasks} /\ jobs' = Insert(EmptyTable, StageKey("layout"))
    BY <1>4, <2>1 DEF WipeJobs, OrphanAt
  <2>4. StageKey("layout") \in DedupKeys
    BY StageKeys DEF PipelineKinds
  <2> QED
    BY <2>2, <2>3, <2>4, WipedRun
<1>8. sessions \in [Sessions -> Session] /\ "accepted" \in SessionStatuses
  BY <1>1 DEF SessionForm, SessionStatuses
<1>9. /\ sessions' \in [Sessions -> Session]
      /\ sessions'[s].status = "accepted" /\ sessions'[s].queued = sessions[s].queued
      /\ \A r \in Sessions : r # s => sessions'[r] = sessions[r]
  BY <1>3, <1>8, StatusSet
<1>10. IsFiniteSet(Accepted)'
  BY <1>1, <1>9, AcceptedFinite DEF SessionForm
<1>11. SessionForm'
  BY <1>1, <1>3, <1>6, <1>7, <1>9, <1>10 DEF SessionForm, RunOn
<1>12. status # "deleted"
  BY <1>3 DEF SessionInv
<1>13. ASSUME NEW r \in Sessions PROVE OneRun(r)' /\ SessionFits(r)'
  <2>1. RunsOn(r) /\ (BeingAccepted(r)' => BeingAccepted(r))
    BY <1>6, <1>7 DEF RunOn
  <2>2. CASE r = s
    <3>1. BeingAccepted(s) /\ SessionFits(s)
      BY <1>2 DEF SessionInv, BeingAccepted
    <3>2. ~BeingRead(s)'
      BY <2>1, <2>2, <3>1 DEF SessionFits, RunsOn, BeingRead
    <3>3. Live(s)'
      BY <1>9 DEF Live
    <3> QED
      BY <1>9, <1>12, <2>1, <2>2, <3>2, <3>3, FitsOn DEF RunsOn
  <2>3. CASE r # s
    BY <1>9, <1>12, <2>1, <2>3, SameFits DEF RunsOn
  <2> QED
    BY <2>2, <2>3
<1>14. AcceptedKept
  BY <1>9 DEF AcceptedKept
<1> QED
  BY <1>3, <1>11, <1>13, <1>14 DEF SessionInv

\* ... asking for it, giving up, and rejecting.
LEMMA AskKeeps ==
    ASSUME SessionInv, NEW s \in Sessions, NEW pages \in SUBSET Pages, AcceptChecks(s, pages)
    PROVE  SessionInv' /\ AcceptedKept
<1>1. SessionForm /\ UNCHANGED <<docVars, jobs, tasks, setting, sessions>> /\ sessions[s].status = "ready"
  BY DEF SessionInv, AcceptChecks, vars
<1>2. status' = status /\ operations' = operations /\ asking' = asking
  BY <1>1 DEF docVars, setting
<1>3. PICK new : /\ new \in [session : Sessions, late : BOOLEAN, spans : [Pages -> Results]]
                 /\ new.session = s /\ accepting' = accepting \cup {new}
  <2> DEFINE ok == {p \in pages : sessions[s].results[p] \in {"text", "blank"}}
             spans == [p \in Pages |-> IF p \in ok THEN sessions[s].results[p] ELSE "none"]
  <2>1. spans \in [Pages -> Results]
    BY <1>1 DEF SessionForm, Session, Results
  <2>2. accepting' = accepting \cup {[session |-> s, late |-> FALSE, spans |-> spans]}
    BY DEF AcceptChecks
  <2> HIDE DEF spans
  <2> QED
    BY <2>1, <2>2
<1>4. RunOn
  BY <1>1, SameRuns
<1>5. SessionForm'
  <2>1. Accepted' = Accepted
    BY <1>1 DEF Accepted
  <2> QED
    BY <1>1, <1>2, <1>3, <1>4, <2>1 DEF SessionForm, RunOn
<1>6. ASSUME NEW r \in Sessions PROVE OneRun(r)' /\ SessionFits(r)'
  <2>1. RunsOn(r)
    BY <1>4 DEF RunOn
  <2>2. CASE r = s
    <3>1. ~BeingRead(s) /\ Live(s) /\ SessionFits(s) /\ BeingRead(s)' = BeingRead(s) /\ Idle(s)' = Idle(s)
      BY <1>1 DEF SessionInv, SessionFits, Live, BeingRead, Idle
    <3> QED
      BY <1>1, <2>1, <2>2, <3>1 DEF SessionFits, Live, RunsOn
  <2>3. CASE r # s
    <3>1. BeingAccepted(r)' => BeingAccepted(r)
      BY <1>3, <2>3 DEF BeingAccepted
    <3> QED
      BY <1>1, <1>2, <2>1, <3>1, SameFits DEF RunsOn
  <2> QED
    BY <2>2, <2>3
<1> QED
  BY <1>1, <1>2, <1>5, <1>6 DEF SessionInv, AcceptedKept, Live

\* A reject ends a live session, whatever its status is by now, and changes nothing else.
LEMMA RejectKeeps ==
    ASSUME SessionInv, NEW s \in Sessions, RejectWrites(s), Live(s)
    PROVE  SessionInv' /\ AcceptedKept
<1>1. /\ SessionForm /\ UNCHANGED <<docVars, jobs, tasks, setting, accepting>>
      /\ s \in rejecting
      /\ sessions' = [sessions EXCEPT ![s].status = "rejected"]
  BY DEF SessionInv, RejectWrites, WithStatus, vars
<1>2. status' = status /\ operations' = operations /\ asking' = asking
  BY <1>1 DEF docVars, setting
<1>3. sessions \in [Sessions -> Session] /\ "rejected" \in SessionStatuses
  BY <1>1 DEF SessionForm, SessionStatuses
<1>4. /\ sessions' \in [Sessions -> Session]
      /\ sessions'[s].status = "rejected" /\ sessions'[s].queued = sessions[s].queued
      /\ \A r \in Sessions : r # s => sessions'[r] = sessions[r]
  BY <1>1, <1>3, StatusSet
<1>5. RunOn
  BY <1>1, SameRuns
<1>6. IsFiniteSet(Accepted)'
  BY <1>1, <1>4, AcceptedFinite DEF SessionForm
<1>7. SessionForm'
  BY <1>1, <1>2, <1>4, <1>5, <1>6 DEF SessionForm, RunOn
<1>8. \A r \in Sessions : Live(r)' = Live(r) /\ BeingAccepted(r)' = BeingAccepted(r)
  BY <1>1, <1>4 DEF Live, BeingAccepted
<1>9. ASSUME NEW r \in Sessions PROVE OneRun(r)' /\ SessionFits(r)'
  <2>1. RunsOn(r)
    BY <1>5 DEF RunOn
  <2>2. CASE r = s
    <3>1. RunsOn(s) /\ Live(s)' = Live(s) /\ BeingAccepted(s)' = BeingAccepted(s)
      BY <1>8, <2>1, <2>2
    <3>2. SessionFits(s)'
      BY <1>2, <1>4, <3>1, FitsOn
    <3> QED
      BY <2>1, <2>2, <3>2 DEF RunsOn
  <2>3. CASE r # s
    BY <1>2, <1>4, <1>8, <2>1, <2>3, SameFits DEF RunsOn
  <2> QED
    BY <2>2, <2>3
<1>10. AcceptedKept
  BY <1>1, <1>4 DEF AcceptedKept
<1> QED
  BY <1>2, <1>7, <1>8, <1>9, <1>10 DEF SessionInv

\* Every step keeps the invariant, and the accepted sessions.
LEMMA SessionStepKeeps ==
    "lapse" \notin Faults /\ SessionInv /\ [SessionNext]_allVars => SessionInv' /\ AcceptedKept
<1> SUFFICES ASSUME "lapse" \notin Faults, SessionInv, [SessionNext]_allVars
             PROVE  SessionInv' /\ AcceptedKept
  OBVIOUS
<1>1. sessions \in [Sessions -> Session]
  BY DEF SessionInv, SessionForm
<1>2. ASSUME UNCHANGED vars, UNCHANGED sessions, accepting' \subseteq accepting
      PROVE  SessionInv' /\ AcceptedKept
  <2>1. UNCHANGED <<docVars, jobs, tasks>> /\ UNCHANGED <<operations, asking>>
    BY <1>2 DEF vars, setting
  <2> QED
    BY <1>1, <1>2, <2>1, SameRuns, SameKeeps
<1>3. CASE UNCHANGED allVars
  BY <1>2, <1>3 DEF allVars, sessionVars, requests
<1>4. CASE SessionRequest
  <2>1. ASSUME NEW a \in accepting, AcceptDies(a) PROVE SessionInv' /\ AcceptedKept
    BY <1>2, <2>1 DEF AcceptDies
  <2>2. ASSUME NEW s \in Sessions, RejectChecks(s) \/ RejectDies(s)
        PROVE  SessionInv' /\ AcceptedKept
    BY <1>2, <2>2 DEF RejectChecks, RejectDies
  <2>3. ASSUME NEW s \in Sessions, RejectWrites(s), ~Live(s) PROVE SessionInv' /\ AcceptedKept
    BY <1>2, <2>3 DEF RejectWrites, WithStatus
  <2> QED
    BY <1>4, <2>1, <2>2, <2>3, StartKeeps, AcceptKeeps, AskKeeps, RejectKeeps DEF SessionRequest
<1>5. CASE \E t \in tasks : SessionStep(t) \/ SessionAborts(t)
  BY <1>5, RunKeeps
<1>6. CASE PipelineStep
  BY <1>6, PipelineKeeps
<1> QED
  BY <1>3, <1>4, <1>5, <1>6 DEF SessionNext

\* No session was started yet.
LEMMA SessionInitKeeps == SessionInit => SessionInv
<1> SUFFICES ASSUME SessionInit PROVE SessionInv
  OBVIOUS
<1>1. NoSession \in Session /\ NoSession.status = "absent" /\ NoSession.queued = FALSE
  BY DEF NoSession, Session, SessionStatuses, Results
<1>2. \A s \in Sessions : sessions[s] = NoSession
  BY DEF SessionInit
<1>3. sessions \in [Sessions -> Session] /\ Accepted = {}
  BY <1>1, <1>2 DEF SessionInit, Accepted
<1>4. ASSUME NEW j \in JobIds
      PROVE  jobs[j] \in Row /\ (Exists(jobs[j]) => j \in DedupKeys)
  <2>1. CASE \E k \in PipelineKinds : j = StageKey(k)
    <3>1. j \in DedupKeys /\ j[1] \in Kinds /\ j \in Keys
      BY <2>1, StageKeys, KeyParts
    <3>2. PICK row : row = NewRow(j[1], Doc, j)
      OBVIOUS
    <3>3. row \in Row
      BY <3>1, <3>2, DocAssumption DEF NewRow, Row, Statuses
    <3>4. jobs[j] = [NewRow(j[1], Doc, j) EXCEPT !.status = "completed", !.attempts = 1]
      BY <2>1 DEF SessionInit
    <3>5. jobs[j] = [row EXCEPT !.status = "completed", !.attempts = 1]
      BY <3>2, <3>4
    <3>6. [row EXCEPT !.status = "completed"] \in Row
      BY <3>3 DEF Row, Statuses
    <3>7. \A r \in Row : [r EXCEPT !.attempts = 1] \in Row
      BY DEF Row
    <3> QED
      BY <3>1, <3>5, <3>6, <3>7
  <2>2. CASE ~\E k \in PipelineKinds : j = StageKey(k)
    BY <2>2, UnusedIsRow DEF SessionInit, Unused, Exists
  <2> QED
    BY <2>1, <2>2
<1>5. RowsForm(jobs)
  BY <1>4 DEF SessionInit, RowsForm, Table
<1>6. SessionForm
  BY <1>3, <1>5, FS_EmptySet DEF SessionInit, SessionForm
<1>7. \A s \in Sessions : OneRun(s) /\ SessionFits(s)
  <2>1. ASSUME NEW s \in Sessions PROVE ~Exists(jobs[SessionKey(s)])
    BY <1>4, SessionKeyParts
  <2> QED
    BY <1>1, <1>2, <2>1 DEF SessionInit, OneRun, SessionFits, BeingRead, BeingAccepted, Idle
<1> QED
  BY <1>6, <1>7 DEF SessionInit, SessionInv

\* A session that was accepted stays accepted, whatever operations are called beside it
\* and whatever crashes or fails, as long as no handler outlives its lease, unless a
\* reject that had read its status before overwrites it: its run is the only one, and has
\* ended before anybody can accept, and no later one takes the session up.
THEOREM AcceptedStays == "lapse" \notin Faults => (SessionSpec => AcceptedStaysAccepted)
<1> SUFFICES ASSUME "lapse" \notin Faults PROVE SessionSpec => AcceptedStaysAccepted
  OBVIOUS
<1>1. SessionInv /\ [SessionNext]_allVars => SessionInv'
  BY SessionStepKeeps
<1>2. SessionInv /\ [SessionNext]_allVars =>
         [\A s \in Sessions : sessions[s].status = "accepted" =>
             \/ sessions'[s].status \in {"accepted", "absent"}
             \/ s \in rejecting /\ sessions'[s].status = "rejected"]_allVars
  BY SessionStepKeeps DEF AcceptedKept
<1> QED
  BY <1>1, <1>2, SessionInitKeeps, PTL DEF SessionSpec, AcceptedStaysAccepted

-----------------------------------------------------------------------------
(* The text of a document whose session was accepted *)

\* The faults and operations that leave the text of a document to its sessions, one
\* request at a time: workers die, statements fail and users delete the document.
OneAcceptAtATime == "lapse" \notin Faults /\ Operations \subseteq {"delete"} /\ MaxAccepts = 1

\* At most one session of the document was accepted, ...
AcceptedOnce == \A r, s \in Accepted : r = s

\* ... which its status says if no reject overwrites an accept (AcceptedIsFinal).
AcceptsHeld ==
    \A s \in Sessions : sessions[s].status = "accepted" => sessions'[s].status \in {"accepted", "absent"}

\* Where a task is that touches neither blocks nor chunks nor the status.
RestPcs == {"start", "finish", "retry", "giveup", "claim", "input", "read", "readok"}

\* The stage is not open: no job of it can be claimed, and no task runs it.
Shut(kind) ==
    /\ \A j \in JobIds : j[1] = kind => ~IsOpen(jobs[j])
    /\ \A t \in tasks : KindOf(t) # kind

\* One row for a page at most, with its text or without.
PagesOnce ==
    /\ pageRows \in [Pages -> [full : Nat, empty : Nat]]
    /\ \A p \in Pages : pageRows[p].full + pageRows[p].empty <= 1

ChunkForm(c) ==
    /\ c = [id |-> [run |-> c.id.run, page |-> c.id.page], copies |-> c.copies,
            embedded |-> c.embedded]
    /\ c.id.page \in Pages /\ c.embedded \in BOOLEAN

\* The text that blocks are made of.
Written == [p \in Pages |-> IF p \in Readable THEN pageRows[p].full ELSE 0]

\* The chunks are the text of the pages, once.
ChunksMatch ==
    /\ \A c \in chunks : ChunkForm(c) /\ c.copies = 1 /\ c.id.page \in Readable
    /\ \A c, d \in chunks : c.id.page = d.id.page => c = d
    /\ \A p \in Readable : \E c \in chunks : c.id.page = p

\* What a task that works on the document has read is what the rows still hold.
Works(t) ==
    \/ t.pc \in RestPcs
    \/ KindOf(t) = "layout" /\ t.pc = "work" /\ status = "layout_running" /\ t.todo = SpansLoaded
    \/ KindOf(t) = "chunking" /\ t.pc = "work" /\ status = "chunking_running"
         /\ t.todo = BlocksLoaded
    \/ KindOf(t) = "embedding" /\ t.pc = "batches"
         /\ status \in {"embedding_running", "failed", "ready"} /\ ChunksMatch
         /\ Unembedded \subseteq t.todo

\* What the status says of the rows.
StatusHolds ==
    \/ status = "ocr_done" /\ blocks = NoBlocks /\ chunks = {}
    \/ status = "layout_running" /\ blocks = NoBlocks /\ chunks = {}
    \/ status \in {"layout_done", "chunking_running"} /\ chunks = {}
         /\ blocks = Written
    \/ status \in {"chunking_done", "embedding_running"} /\ ChunksMatch
    \/ status = "ready" /\ ChunksMatch /\ \A c \in chunks : c.embedded
    \/ status = "failed"

\* Each stage has read the rows that are there, and what it writes is what the status says.
TextWorks ==
    /\ PagesOnce /\ StatusHolds /\ OneWorks
    /\ \A t \in tasks : Works(t)

\* Nobody reads the pages again, and until a session is accepted no stage is open.
TextOnce ==
    /\ TextWorks
    /\ Shut("ocr")
    /\ Accepted = {} => status = "ready" /\ \A k \in PipelineKinds : Shut(k)

\* A request is alone, and accepts a session for the first time.
AcceptsOnce ==
    /\ \A a, b \in accepting : a = b
    /\ \A a \in accepting : ~a.late /\ sessions[a.session].status # "accepted"

TextInv ==
    /\ SessionInv /\ AcceptsOnce
    /\ status # "absent" /\ asking = {}
    /\ DocExists /\ AcceptedOnce => TextOnce

-----------------------------------------------------------------------------
(* Stages that nobody opens *)

\* Every job of a task has its kind; no job of a kind opens.
NoneOpens(kind) ==
    /\ \A j \in JobIds : j[1] = kind => (IsOpen(jobs'[j]) => IsOpen(jobs[j]))
    /\ \A u \in tasks' : KindOf(u) = kind =>
          (\E t \in tasks : t.job = u.job) \/ (u.job \in JobIds /\ IsOpen(jobs[u.job]))

\* A stage that is shut stays so if none opens.
LEMMA StaysShut ==
    ASSUME NEW kind, Shut(kind), NoneOpens(kind)
    PROVE  Shut(kind)'
BY DEF Shut, NoneOpens, KindOf

\* A statement on one row, and an enqueue, leave the other rows alone.
LEMMA OtherRows ==
    ASSUME NEW T, JobIds \subseteq DOMAIN T, NEW j \in JobIds, NEW key
    PROVE  /\ JobIds \subseteq DOMAIN Insert(T, key)
           /\ j # key => Insert(T, key)[j] = T[j]
BY DEF Insert

\* The statement of a task, and those of other kinds.
LEMMA OtherKinds ==
    ASSUME SessionInv, NEW t, NEW row, NEW j \in JobIds, j[1] # KindOf(t)
    PROVE  JobIds \subseteq DOMAIN SetRow(t, row) /\ SetRow(t, row)[j] = jobs[j]
<1>1. DOMAIN jobs = JobIds
  BY DEF SessionInv, SessionForm, RowsForm, Table
<1> QED
  BY <1>1 DEF SetRow, KindOf

\* A moved task has the job of the task it was.
LEMMA MovedJobs ==
    ASSUME SessionInv, NEW t \in tasks, NEW pc, NEW todo, NEW u \in Moved(t, pc, todo)
    PROVE  u \in tasks \ {t} \/ (u.job = t.job /\ u.pc = pc /\ u.todo = todo)
<1>1. TaskForm(t)
  BY DEF SessionInv, SessionForm
<1>2. t = [job |-> t.job, n |-> t.n, orphan |-> t.orphan, worker |-> t.worker,
           pc |-> t.pc, todo |-> t.todo]
  BY <1>1 DEF TaskForm
<1>3. PICK r : r = [t EXCEPT !.pc = pc]
  OBVIOUS
<1>4. r = [job |-> t.job, n |-> t.n, orphan |-> t.orphan, worker |-> t.worker,
           pc |-> pc, todo |-> t.todo]
  BY <1>2, <1>3
<1>5. PICK v : v = [r EXCEPT !.todo = todo]
  OBVIOUS
<1>6. v.job = t.job /\ v.pc = pc /\ v.todo = todo
  BY <1>4, <1>5
<1>7. v = [t EXCEPT !.pc = pc, !.todo = todo]
  BY <1>3, <1>5
<1>8. u \in tasks \ {t} \/ u = v
  BY <1>7 DEF Moved
<1> QED
  BY <1>6, <1>8

\* A handler's statements are about its own job and the next stage.
LEMMA HandlerOpens ==
    ASSUME SessionInv, NEW kind, Shut(kind), NEW t \in tasks,
           KindOf(t) \in DOMAIN NextKind => NextKind[KindOf(t)] # kind,
           HandlerStep(t) \/ Heartbeat(t) \/ StageAborts(t)
    PROVE  NoneOpens(kind)
<1>1. KindOf(t) # kind
  BY DEF Shut
<1>2. ASSUME NEW row, jobs' = SetRow(t, row), tasks' \subseteq tasks
      PROVE  NoneOpens(kind)
  BY <1>1, <1>2, OtherKinds DEF NoneOpens
<1>3. ASSUME UNCHANGED jobs, NEW pc, NEW todo, tasks' = Moved(t, pc, todo)
      PROVE  NoneOpens(kind)
  BY <1>3, MovedJobs DEF NoneOpens
<1>4. CASE OcrStep(t) \/ StageStep(t) \/ StageAborts(t)
  BY <1>2, <1>3, <1>4, HandlerMoves
<1>5. CASE Raise(t)
  <2>1. PICK row : row = FailedRow(jobs[t.job], t.pc = "retry")
    OBVIOUS
  <2> QED
    BY <1>2, <1>5, <2>1 DEF Raise
<1>6. CASE Heartbeat(t)
  BY <1>2, <1>6 DEF Heartbeat
<1>7. CASE Finish(t)
  <2>1. PICK T : T = Completed(t)
    OBVIOUS
  <2>2. \A j \in JobIds : j[1] = kind => JobIds \subseteq DOMAIN T /\ T[j] = jobs[j]
    BY <1>1, <2>1, OtherKinds DEF Completed
  <2>3. CASE KindOf(t) \notin DOMAIN NextKind
    BY <1>7, <2>1, <2>2, <2>3 DEF Finish, NoneOpens
  <2>4. CASE KindOf(t) \in DOMAIN NextKind
    <3>1. PICK key : key = StageKey(NextKind[KindOf(t)])
      OBVIOUS
    <3>2. key[1] # kind
      BY <2>4, <3>1 DEF StageKey
    <3>3. jobs' = Insert(T, key) /\ tasks' = tasks \ {t}
      BY <1>7, <2>1, <2>4, <3>1 DEF Finish
    <3>4. \A j \in JobIds : j[1] = kind => jobs'[j] = jobs[j]
      BY <2>2, <3>2, <3>3, OtherRows
    <3> QED
      BY <3>3, <3>4 DEF NoneOpens
  <2> QED
    BY <2>3, <2>4
<1> QED
  BY <1>4, <1>5, <1>6, <1>7 DEF HandlerStep

\* A claim takes a job that was open.
LEMMA ClaimOpens ==
    ASSUME SessionInv, NEW kind, Shut(kind), NEW w \in Workers, NEW j \in JobIds, Claim(w, j)
    PROVE  NoneOpens(kind)
<1>1. DOMAIN jobs = JobIds
  BY DEF SessionInv, SessionForm, RowsForm, Table
<1>2. IsOpen(jobs[j]) /\ j[1] # kind
  BY DEF Claim, Claimable, IsOpen, OpenStatuses, Shut
<1>3. PICK row : row = ClaimedRow(jobs[j], w)
  OBVIOUS
<1>4. jobs' = [jobs EXCEPT ![j] = row]
  BY <1>3 DEF Claim
<1>5. PICK new : new = [job |-> j, n |-> jobs[j].attempts + 1, orphan |-> 0, worker |-> w,
                        pc |-> "start", todo |-> {}]
  OBVIOUS
<1>6. tasks' = tasks \cup {new} /\ new.job = j
  BY <1>5 DEF Claim
<1> QED
  BY <1>1, <1>2, <1>4, <1>6 DEF NoneOpens

\* The kind of file stays what it is.
LEMMA FormStays == SessionInv /\ SessionNext => form' = form
<1> SUFFICES ASSUME SessionInv, SessionNext PROVE form' = form
  OBVIOUS
<1>1. UNCHANGED setting => form' = form
  BY DEF setting
<1>2. UNCHANGED vars => form' = form
  BY <1>1 DEF vars
<1>3. CASE SessionRequest
  BY <1>1, <1>2, <1>3 DEF SessionRequest, Start, StartEnqueues, AcceptChecks, Accept, AcceptDies,
     RejectChecks, RejectWrites, RejectDies
<1>4. ASSUME NEW t \in tasks, SessionStep(t) \/ SessionAborts(t) PROVE form' = form
  BY <1>1, <1>4 DEF SessionStep, SessionLoad, LoadIf, SessionClaim, SessionInputFails,
     SessionLocate, SessionPage, SessionEnd, SessionAborts, Fault
<1>5. CASE PipelineStep
  BY <1>5, FormKept DEF PipelineStep, Next
<1> QED
  BY <1>3, <1>4, <1>5 DEF SessionNext

\* The documents and the rows are as they were, and no task takes work up.
Calm ==
    /\ UNCHANGED docVars /\ UNCHANGED form
    /\ \A u \in tasks' : u \in tasks \/ u.pc \in RestPcs

\* A moved task, as a task of its own.
LEMMA MovedIs ==
    ASSUME SessionInv, NEW t \in tasks, NEW pc, NEW todo
    PROVE  \E u : /\ Moved(t, pc, todo) = (tasks \ {t}) \cup {u}
                  /\ u.job = t.job /\ u.pc = pc /\ u.todo = todo
<1>1. TaskForm(t)
  BY DEF SessionInv, SessionForm
<1>2. t = [job |-> t.job, n |-> t.n, orphan |-> t.orphan, worker |-> t.worker,
           pc |-> t.pc, todo |-> t.todo]
  BY <1>1 DEF TaskForm
<1>3. PICK r : r = [t EXCEPT !.pc = pc]
  OBVIOUS
<1>4. r = [job |-> t.job, n |-> t.n, orphan |-> t.orphan, worker |-> t.worker,
           pc |-> pc, todo |-> t.todo]
  BY <1>2, <1>3
<1>5. PICK u : u = [r EXCEPT !.todo = todo]
  OBVIOUS
<1>6. u.job = t.job /\ u.pc = pc /\ u.todo = todo
  BY <1>4, <1>5
<1>7. u = [t EXCEPT !.pc = pc, !.todo = todo]
  BY <1>3, <1>5
<1>8. Moved(t, pc, todo) = (tasks \ {t}) \cup {u}
  BY <1>7 DEF Moved
<1> QED
  BY <1>6, <1>8

\* A task that moves to where it touches nothing.
LEMMA MovedCalm ==
    ASSUME SessionInv, NEW t \in tasks, NEW pc \in RestPcs, NEW todo,
           tasks' = Moved(t, pc, todo), UNCHANGED docVars, UNCHANGED form
    PROVE  Calm
BY MovedIs DEF Calm

\* What does not change with the rows.
LEMMA SameRows ==
    ASSUME UNCHANGED <<form, pageRows>>
    PROVE  /\ PagesOnce' <=> PagesOnce
           /\ Readable' = Readable /\ Written' = Written /\ SpansLoaded' = SpansLoaded
           /\ UNCHANGED blocks => BlocksLoaded' = BlocksLoaded
           /\ UNCHANGED chunks => (ChunksMatch' <=> ChunksMatch) /\ Unembedded' = Unembedded
<1>1. Readable' = Readable
  BY DEF Readable
<1> QED
  BY <1>1 DEF Written, PagesOnce, SpansLoaded, BlocksLoaded, ChunksMatch, ChunkForm, Unembedded

\* What a calm step keeps.
LEMMA CalmWorks ==
    ASSUME TextWorks, Calm
    PROVE  TextWorks'
<1>1. /\ status' = status /\ pageRows' = pageRows /\ blocks' = blocks /\ chunks' = chunks
      /\ \A u \in tasks' : u \in tasks \/ u.pc \in RestPcs
  BY DEF Calm, docVars
<1>3. /\ PagesOnce' /\ (ChunksMatch' <=> ChunksMatch) /\ Written' = Written
      /\ SpansLoaded' = SpansLoaded /\ BlocksLoaded' = BlocksLoaded /\ Unembedded' = Unembedded
  BY <1>1, SameRows DEF TextWorks, Calm
<1>2. StatusHolds'
  BY <1>1, <1>3 DEF TextWorks, StatusHolds
<1>4. OneWorks'
  BY <1>1 DEF TextWorks, OneWorks, RestPcs
<1>5. ASSUME NEW u \in tasks' PROVE Works(u)'
  <2>1. CASE u.pc \in RestPcs
    BY <2>1 DEF Works
  <2>2. CASE u \in tasks
    <3>1. Works(u)
      BY <2>2 DEF TextWorks
    <3> QED
      BY <1>1, <1>3, <3>1 DEF Works, KindOf
  <2> QED
    BY <1>1, <2>1, <2>2
<1> QED
  BY <1>2, <1>3, <1>4, <1>5 DEF TextWorks

\* The steps of a session's run move its task, and leave the document and the jobs alone.
LEMMA RunMoves ==
    ASSUME SessionInv, NEW t \in tasks, SessionStep(t) \/ SessionAborts(t)
    PROVE  /\ UNCHANGED <<docVars, jobs, accepting, asking>>
           /\ \E pc \in RestPcs : \E todo : tasks' = Moved(t, pc, todo)
<1> USE DEF RestPcs, requests, setting
<1>1. CASE SessionLoad(t)
  BY <1>1 DEF SessionLoad, LoadIf, Goto, sessionVars
<1>7. CASE SessionClaim(t)
  BY <1>7 DEF SessionClaim
<1>2. CASE SessionInputFails(t)
  BY <1>2 DEF SessionInputFails, Goto
<1>3. CASE SessionLocate(t)
  BY <1>3 DEF SessionLocate, sessionVars
<1>4. CASE SessionPage(t)
  BY <1>4 DEF SessionPage, Reading
<1>5. CASE SessionEnd(t)
  BY <1>5 DEF SessionEnd, Goto
<1>6. CASE SessionAborts(t)
  BY <1>6 DEF SessionAborts, Goto, sessionVars, Fault
<1> QED
  BY <1>1, <1>2, <1>3, <1>4, <1>5, <1>6, <1>7 DEF SessionStep

\* Once no page is to be read, no task is in the OCR handler.
LEMMA NoOcr ==
    ASSUME NEW t, Works(t), KindOf(t) # "ocr"
    PROVE  ~OcrStep(t)
<1>1. t.pc \notin {"pending", "locate", "count", "pages", "page"}
  BY DEF Works, RestPcs
<1> QED
  BY <1>1 DEF OcrStep, OcrLoad, OcrPending, OcrLocate, OcrCount, OcrInputFails, OcrNextPage,
     OcrCancelled, OcrPage, OcrLoopFails, OcrDone, OcrText

\* Users ask for nothing but a deletion, ...
LEMMA NoAskers ==
    ASSUME OneAcceptAtATime, asking = {}, HttpStep
    PROVE  Upload \/ RequestDelete \/ DeleteRows \/ DeleteTimesOut
<1>1. ~Reupload /\ ~RetryChecks /\ \A p \in Pages : ~ReextractChecks(p)
  BY DEF OneAcceptAtATime, Reupload, RetryChecks, ReextractChecks, Call
<1> QED
  BY <1>1 DEF HttpStep

\* ... so that no request comes to write later.
LEMMA NobodyWrites ==
    ASSUME OneAcceptAtATime, asking = {}, SessionInv, SessionNext
    PROVE  asking' = {}
<1>1. UNCHANGED setting => asking' = {}
  BY DEF setting
<1>2. UNCHANGED vars => asking' = {}
  BY <1>1 DEF vars
<1>3. CASE SessionRequest
  BY <1>1, <1>2, <1>3 DEF SessionRequest, Start, StartEnqueues, AcceptChecks, Accept, AcceptDies,
     RejectChecks, RejectWrites, RejectDies
<1>4. ASSUME NEW t \in tasks, SessionStep(t) \/ SessionAborts(t) PROVE asking' = {}
  BY <1>4, RunMoves
<1>5. CASE HttpStep
  BY <1>1, <1>5, NoAskers DEF Upload, RequestDelete, DeleteRows, DeleteTimesOut
<1>6. CASE WorkerStep
  BY <1>1, <1>6, HandlerSetting DEF WorkerStep, Claim, Heartbeat, StageAborts, Crash, Fault
<1>7. CASE TimeStep
  BY <1>1, <1>7 DEF TimeStep, Reconcile, LeaseExpires, LeaseLapses, Fault
<1> QED
  BY <1>3, <1>4, <1>5, <1>6, <1>7 DEF SessionNext, PipelineStep

\* What users may do to a document that stays.
LEMMA OnlyRequests ==
    ASSUME OneAcceptAtATime, status # "absent", asking = {}, HttpStep, DocExists'
    PROVE  RequestDelete \/ DeleteTimesOut
<1>2. ~Upload /\ ~DeleteRows
  BY DEF Upload, DeleteRows, DocExists
<1> QED
  BY <1>2, NoAskers

\* No job and no task of the kind is new.
LEMMA SameOpens ==
    ASSUME NEW kind, tasks' \subseteq tasks,
           \A j \in JobIds : j[1] = kind => (IsOpen(jobs'[j]) => IsOpen(jobs[j]))
    PROVE  NoneOpens(kind)
BY DEF NoneOpens

\* The steps of a session, whose task stays a task of its job.
LEMMA RunOpens ==
    ASSUME SessionInv, NEW t \in tasks, NEW kind, SessionStep(t) \/ SessionAborts(t)
    PROVE  NoneOpens(kind)
<1>1. PICK pc, todo : UNCHANGED jobs /\ tasks' = Moved(t, pc, todo)
  BY RunMoves
<1>2. \A u \in tasks' : \E v \in tasks : v.job = u.job
  BY <1>1, MovedJobs
<1> QED
  BY <1>1, <1>2 DEF NoneOpens

\* A session's job is no job of the pipeline.
LEMMA StartOpens ==
    ASSUME SessionInv, NEW s \in Sessions, NEW kind \in PipelineKinds, StartEnqueues(s)
    PROVE  NoneOpens(kind)
<1>1. DOMAIN jobs = JobIds
  BY DEF SessionInv, SessionForm, RowsForm, Table
<1>2. kind # "page_reextract"
  BY DEF PipelineKinds
<1>3. PICK key : key = SessionKey(s)
  OBVIOUS
<1>4. key[1] # kind /\ jobs' = Insert(jobs, key) /\ tasks' = tasks
  BY <1>2, <1>3, SessionKeyParts DEF StartEnqueues
<1>5. \A j \in JobIds : j[1] = kind => jobs'[j] = jobs[j]
  BY <1>1, <1>4, OtherRows
<1> QED
  BY <1>4, <1>5, SameOpens

\* Time takes leases and opens the stage that the status asks for.
LEMMA TimeOpens ==
    ASSUME SessionInv, "lapse" \notin Faults, NEW kind,
           status \in DOMAIN NextStage => NextStage[status] # kind,
           TimeStep
    PROVE  NoneOpens(kind)
<1>1. DOMAIN jobs = JobIds /\ \A j \in JobIds : jobs[j] \in Row
  BY DEF SessionInv, SessionForm, RowsForm, Table
<1>2. ASSUME NEW j \in JobIds, LeaseExpires(j) PROVE NoneOpens(kind)
  <2>1. tasks' = tasks /\ jobs' = [jobs EXCEPT ![j].fresh = FALSE]
    BY <1>2 DEF LeaseExpires, Late
  <2>2. PICK row : row = [jobs[j] EXCEPT !.fresh = FALSE]
    OBVIOUS
  <2>3. row.status = jobs[j].status
    BY <1>1, <2>2 DEF Row
  <2>4. jobs' = [jobs EXCEPT ![j] = row]
    BY <2>1, <2>2
  <2>5. \A i \in JobIds : jobs'[i].status = jobs[i].status
    BY <1>1, <2>3, <2>4
  <2> QED
    BY <2>1, <2>5, SameOpens DEF IsOpen
<1>3. \A j \in JobIds : ~LeaseLapses(j)
  BY DEF LeaseLapses, Fault
<1>4. CASE Reconcile
  <2>1. DOMAIN AfterReclaim = JobIds /\ \A j \in JobIds : AfterReclaim[j] = ReclaimedRow(jobs[j])
    BY DEF AfterReclaim
  <2>2. \A j \in JobIds : IsOpen(AfterReclaim[j]) => IsOpen(jobs[j])
    BY <1>1, <2>1 DEF ReclaimedRow, Stuck, IsOpen, OpenStatuses, Row
  <2>3. PICK T : T = AfterReclaim
    OBVIOUS
  <2>4. tasks' = tasks /\ jobs' = IF Partial(T) THEN Insert(T, ReconcileKey(NextStage[status])) ELSE T
    BY <1>4, <2>3 DEF Reconcile
  <2>5. CASE ~Partial(T)
    BY <2>2, <2>3, <2>4, <2>5, SameOpens
  <2>6. CASE Partial(T)
    <3>1. PICK key : key = ReconcileKey(NextStage[status])
      OBVIOUS
    <3>2. key[1] # kind
      BY <2>6, <3>1 DEF Partial, ReconcileKey
    <3>3. jobs' = Insert(T, key)
      BY <2>4, <2>6, <3>1
    <3>4. \A j \in JobIds : j[1] = kind => jobs'[j] = T[j]
      BY <2>1, <2>3, <3>2, <3>3, OtherRows
    <3> QED
      BY <2>2, <2>3, <2>4, <3>4, SameOpens
  <2> QED
    BY <2>5, <2>6
<1> QED
  BY <1>2, <1>3, <1>4 DEF TimeStep

\* A deletion that was asked for flags the open jobs.
LEMMA RequestOpens ==
    ASSUME SessionInv, NEW kind, RequestDelete \/ DeleteTimesOut
    PROVE  NoneOpens(kind)
<1>1. \A j \in JobIds : jobs[j] \in Row
  BY DEF SessionInv, SessionForm, RowsForm, Table
<1>2. CASE RequestDelete
  <2>1. tasks' = tasks /\ jobs' = CancelRequestedForDocument(jobs, Doc)
    BY <1>2 DEF RequestDelete
  <2>2. \A j \in JobIds : jobs'[j] \in {jobs[j], FlaggedRow(jobs[j])}
    BY <2>1 DEF CancelRequestedForDocument
  <2>3. \A j \in JobIds : jobs'[j].status = jobs[j].status
    BY <1>1, <2>2 DEF FlaggedRow, Row
  <2> QED
    BY <2>1, <2>3, SameOpens DEF IsOpen
<1>3. CASE DeleteTimesOut
  BY <1>3, SameOpens DEF DeleteTimesOut
<1> QED
  BY <1>2, <1>3

\* A stage that is shut, that the status does not ask for and that follows no task stays
\* shut, but for an accept.
LEMMA StepShut ==
    ASSUME OneAcceptAtATime, SessionInv, status # "absent", asking = {}, DocExists', SessionNext,
           \A a \in accepting : ~Accept(a),
           NEW kind \in PipelineKinds, Shut(kind),
           status \in DOMAIN NextStage => NextStage[status] # kind,
           \A t \in tasks : KindOf(t) \in DOMAIN NextKind => NextKind[KindOf(t)] # kind
    PROVE  Shut(kind)'
<1> SUFFICES NoneOpens(kind)
  BY StaysShut
<1>0. "lapse" \notin Faults
  BY DEF OneAcceptAtATime
<1>1. ASSUME UNCHANGED <<jobs, tasks>> PROVE NoneOpens(kind)
  BY <1>1, SameOpens
<1>2. CASE SessionRequest
  <2>1. \A s \in Sessions, pages \in SUBSET Pages :
           Start(s, pages) \/ AcceptChecks(s, pages) \/ RejectChecks(s) \/ RejectWrites(s)
              \/ RejectDies(s) => UNCHANGED <<jobs, tasks>>
    BY DEF Start, AcceptChecks, RejectChecks, RejectWrites, RejectDies, vars
  <2>2. \A a \in accepting : AcceptDies(a) => UNCHANGED <<jobs, tasks>>
    BY DEF AcceptDies, vars
  <2> QED
    BY <1>1, <1>2, <2>1, <2>2, StartOpens DEF SessionRequest
<1>3. CASE \E t \in tasks : SessionStep(t) \/ SessionAborts(t)
  BY <1>3, RunOpens
<1>4. CASE PipelineStep
  <2>1. CASE HttpStep
    BY <2>1, OnlyRequests, RequestOpens
  <2>2. CASE TimeStep
    BY <1>0, <2>2, TimeOpens
  <2>3. CASE WorkerStep
    <3>1. ASSUME NEW w \in Workers, Crash(w) PROVE NoneOpens(kind)
      BY <3>1, SameOpens DEF Crash
    <3> QED
      BY <2>3, <3>1, HandlerOpens, ClaimOpens DEF WorkerStep
  <2> QED
    BY <1>4, <2>1, <2>2, <2>3 DEF PipelineStep
<1> QED
  BY <1>2, <1>3, <1>4 DEF SessionNext

-----------------------------------------------------------------------------
(* Sessions, one accept at a time *)

\* What a step makes of a session: it goes with its document only, and is accepted by its
\* own request only.
LEMMA SessionsMove ==
    ASSUME SessionInv, SessionNext, status' # "deleted", NEW s \in Sessions
    PROVE  /\ sessions'[s].status = "absent" => sessions[s].status = "absent"
           /\ sessions'[s].status = "accepted" =>
                 \/ sessions[s].status = "accepted"
                 \/ \E a \in accepting : Accept(a) /\ a.session = s
<1> DEFINE Goal == /\ sessions'[s].status = "absent" => sessions[s].status = "absent"
                   /\ sessions'[s].status = "accepted" =>
                         \/ sessions[s].status = "accepted"
                         \/ \E a \in accepting : Accept(a) /\ a.session = s
<1> SUFFICES Goal
  OBVIOUS
<1>1. sessions \in [Sessions -> Session]
  BY DEF SessionInv, SessionForm
<1>2. ASSUME sessions'[s].status = sessions[s].status PROVE Goal
  BY <1>2
<1>3. ASSUME NEW r \in Sessions, NEW st \in SessionStatuses \ {"absent", "accepted"},
             sessions' = [sessions EXCEPT ![r].status = st]
      PROVE  Goal
  <2>1. /\ sessions'[r].status = st
        /\ \A q \in Sessions : q # r => sessions'[q] = sessions[q]
    BY <1>1, <1>3, StatusSet
  <2> QED
    BY <2>1
<1>4. ASSUME NEW r \in Sessions, NEW pages \in SUBSET Pages, Start(r, pages) PROVE Goal
  <2>1. PICK row : row = [NoSession EXCEPT !.status = "pending", !.queued = TRUE, !.pages = pages]
    OBVIOUS
  <2>2. row.status = "pending"
    BY <2>1 DEF NoSession
  <2>3. sessions' = [sessions EXCEPT ![r] = row]
    BY <1>4, <2>1 DEF Start
  <2> QED
    BY <1>1, <2>2, <2>3
<1>5. ASSUME NEW r \in Sessions, StartEnqueues(r) PROVE Goal
  <2>1. PICK row : row = [sessions[r] EXCEPT !.queued = FALSE]
    OBVIOUS
  <2>2. row.status = sessions[r].status
    BY <1>1, <2>1 DEF Session
  <2>3. sessions' = [sessions EXCEPT ![r] = row]
    BY <1>5, <2>1 DEF StartEnqueues
  <2> QED
    BY <1>1, <1>2, <2>2, <2>3
<1>6. ASSUME NEW r \in Sessions, RejectWrites(r) PROVE Goal
  <2>1. CASE Live(r)
    BY <1>3, <1>6, <2>1 DEF RejectWrites, WithStatus, SessionStatuses
  <2>2. CASE ~Live(r)
    BY <1>2, <1>6, <2>2 DEF RejectWrites, WithStatus
  <2> QED
    BY <2>1, <2>2
<1>7. ASSUME NEW a \in accepting, Accept(a) PROVE Goal
  <2>1. a.session \in Sessions /\ "accepted" \in SessionStatuses
    BY DEF SessionInv, SessionForm, SessionStatuses
  <2>2. PICK r \in Sessions : r = a.session
    BY <2>1
  <2>3. sessions' = [sessions EXCEPT ![r].status = "accepted"]
    BY <1>7, <2>2 DEF Accept
  <2>4. /\ sessions'[r].status = "accepted"
        /\ \A q \in Sessions : q # r => sessions'[q] = sessions[q]
    BY <1>1, <2>1, <2>3, StatusSet
  <2> QED
    BY <1>7, <2>2, <2>4
<1>8. CASE SessionRequest
  <2>1. \A r \in Sessions, pages \in SUBSET Pages :
           AcceptChecks(r, pages) \/ RejectChecks(r) \/ RejectDies(r) => sessions' = sessions
    BY DEF AcceptChecks, RejectChecks, RejectDies
  <2>2. \A a \in accepting : AcceptDies(a) => sessions' = sessions
    BY DEF AcceptDies
  <2>3. sessions' = sessions => Goal
    BY <1>2
  <2> HIDE DEF Goal
  <2> QED
    BY <1>4, <1>5, <1>6, <1>7, <1>8, <2>1, <2>2, <2>3 DEF SessionRequest
<1>9. ASSUME NEW t \in tasks, SessionStep(t) \/ SessionAborts(t) PROVE Goal
  <2>1. TaskForm(t)
    BY DEF SessionInv, SessionForm
  <2>2. OfSession(t) \/ Reads(t) => SessionOf(t) \in Sessions
    BY <2>1, FormParts
  <2>3. sessions' = sessions => Goal
    BY <1>2
  <2>4. ASSUME NEW st \in SessionStatuses \ {"absent", "accepted"}, Reads(t),
               WithStatus(SessionOf(t), st)
        PROVE  Goal
    BY <1>3, <2>2, <2>3, <2>4 DEF WithStatus
  <2>5. CASE SessionClaim(t)
    BY <2>4, <2>5 DEF SessionClaim, Reads, SessionStatuses
  <2>6. CASE SessionInputFails(t)
    BY <2>4, <2>6 DEF SessionInputFails, Reads, SessionStatuses
  <2>7. CASE SessionEnd(t)
    <3>1. PICK st \in SessionStatuses \ {"absent", "accepted"} : WithStatus(SessionOf(t), st)
      BY <2>7 DEF SessionEnd, SessionStatuses
    <3> QED
      BY <2>4, <2>7, <3>1 DEF SessionEnd, Reading, Reads
  <2>8. CASE SessionLoad(t) \/ SessionLocate(t) \/ SessionAborts(t)
    BY <2>3, <2>8 DEF SessionLoad, LoadIf, SessionLocate, SessionAborts, sessionVars
  <2>9. CASE SessionPage(t)
    <3>1. SessionOf(t) \in Sessions
      BY <2>2, <2>9 DEF SessionPage, Reading, Reads
    <3>2. PICK r \in Sessions : r = SessionOf(t)
      BY <3>1
    <3>3. PICK p : p = Min(t.todo)
      OBVIOUS
    <3>4. PICK x : sessions' = IF x = "none" THEN sessions ELSE [sessions EXCEPT ![r].results[p] = x]
      BY <2>9, <3>2, <3>3 DEF SessionPage
    <3>5. CASE x = "none"
      BY <2>3, <3>4, <3>5
    <3>6. CASE x # "none"
      <4>1. PICK results : results = [sessions[r].results EXCEPT ![p] = x]
        OBVIOUS
      <4>2. PICK row : row = [sessions[r] EXCEPT !.results = results]
        OBVIOUS
      <4>3. row.status = sessions[r].status
        BY <1>1, <4>2 DEF Session
      <4>4. sessions' = [sessions EXCEPT ![r] = row]
        BY <3>4, <3>6, <4>1, <4>2
      <4>5. sessions'[s].status = sessions[s].status
        BY <1>1, <4>3, <4>4
      <4> QED
        BY <1>2, <4>5
    <3> QED
      BY <3>5, <3>6
  <2> HIDE DEF Goal
  <2> QED
    BY <1>9, <2>5, <2>6, <2>7, <2>8, <2>9 DEF SessionStep
<1>10. CASE PipelineStep
  <2>1. sessions'[s] = Cascaded(sessions[s])
    BY <1>10 DEF PipelineStep
  <2>2. PICK kept : kept = [p \in Pages |-> IF pageRows'[p].full + pageRows'[p].empty = 0
                                          THEN "none" ELSE sessions[s].results[p]]
    OBVIOUS
  <2>3. sessions'[s] = [sessions[s] EXCEPT !.results = kept]
    BY <2>1, <2>2 DEF Cascaded
  <2>4. sessions'[s].status = sessions[s].status
    BY <1>1, <2>3 DEF Session
  <2> QED
    BY <1>2, <2>4
<1> HIDE DEF Goal
<1> QED
  BY <1>8, <1>9, <1>10 DEF SessionNext

\* A request that is alone stays alone.
LEMMA AcceptsKeep ==
    ASSUME SessionInv, SessionInv', OneAcceptAtATime, AcceptsOnce, SessionNext
    PROVE  AcceptsOnce'
<1>1. CASE accepting' = {}
  BY <1>1 DEF AcceptsOnce
<1>2. CASE accepting' \subseteq accepting /\ \A a \in accepting : ~Accept(a)
  <2>1. ASSUME NEW a \in accepting' PROVE ~a.late /\ sessions'[a.session].status # "accepted"
    <3>1. a.session \in Sessions /\ sessions[a.session].status # "accepted" /\ ~a.late
      BY <1>2 DEF AcceptsOnce, SessionInv, SessionForm
    <3>2. CASE status' = "deleted"
      BY <3>1, <3>2 DEF SessionInv, Live
    <3>3. CASE status' # "deleted"
      BY <1>2, <3>1, <3>3, SessionsMove
    <3> QED
      BY <3>1, <3>2, <3>3
  <2> QED
    BY <1>2, <2>1 DEF AcceptsOnce
<1>3. ASSUME NEW a \in accepting, Accept(a) PROVE accepting' = {}
  <2>1. PICK late : accepting' = {[b EXCEPT !.late = late] : b \in accepting \ {a}}
    BY <1>3 DEF Accept
  <2>2. accepting \ {a} = {}
    BY DEF AcceptsOnce
  <2> QED
    BY <2>1, <2>2
<1>4. ASSUME NEW s \in Sessions, NEW pages \in SUBSET Pages, AcceptChecks(s, pages)
      PROVE  AcceptsOnce'
  <2>1. accepting = {}
    <3>1. Cardinality(accepting) < 1
      BY <1>4 DEF AcceptChecks, OneAcceptAtATime
    <3>2. ASSUME NEW a \in accepting PROVE FALSE
      <4>1. accepting = {a}
        BY DEF AcceptsOnce
      <4>2. Cardinality({a}) = 1
        BY FS_Singleton
      <4> QED
        BY <3>1, <4>1, <4>2
    <3> QED
      BY <3>2
  <2>2. PICK spans :
           accepting' = accepting \cup {[session |-> s, late |-> FALSE, spans |-> spans]}
    BY <1>4 DEF AcceptChecks
  <2>3. sessions'[s].status = "ready"
    BY <1>4 DEF AcceptChecks
  <2>4. accepting' = {[session |-> s, late |-> FALSE, spans |-> spans]}
    BY <2>1, <2>2
  <2> QED
    BY <2>3, <2>4 DEF AcceptsOnce
<1>5. CASE SessionRequest
  <2>1. ASSUME NEW a \in accepting, AcceptDies(a) PROVE AcceptsOnce'
    <3>1. accepting' = {}
      BY <2>1 DEF AcceptDies, AcceptsOnce
    <3> QED
      BY <1>1, <3>1
  <2>2. ASSUME NEW s \in Sessions,
               StartEnqueues(s) \/ RejectChecks(s) \/ RejectWrites(s) \/ RejectDies(s)
        PROVE  accepting' = accepting
    BY <2>2 DEF StartEnqueues, RejectChecks, RejectWrites, RejectDies, requests
  <2>3. ASSUME NEW s \in Sessions, NEW pages \in SUBSET Pages, Start(s, pages)
        PROVE  accepting' = accepting
    BY <2>3 DEF Start, requests
  <2> QED
    BY <1>1, <1>2, <1>3, <1>4, <1>5, <2>1, <2>2, <2>3 DEF SessionRequest
<1>6. CASE \E t \in tasks : SessionStep(t) \/ SessionAborts(t)
  <2>1. accepting' = accepting
    BY <1>6, RunMoves
  <2> QED
    BY <1>1, <1>2, <1>3, <2>1
<1>7. CASE PipelineStep
  <2>1. accepting' = accepting
    BY <1>7 DEF PipelineStep, requests
  <2> QED
    BY <1>1, <1>2, <1>3, <2>1
<1> QED
  BY <1>5, <1>6, <1>7 DEF SessionNext

-----------------------------------------------------------------------------
(* The stages after the accept *)

\* A page's spans are replaced, not added to.
LEMMA RowsStayOne ==
    ASSUME PagesOnce, NEW spans \in [Pages -> Results],
           pageRows' = [p \in Pages |-> RowReplaced(pageRows[p], spans[p], FALSE)]
    PROVE  PagesOnce'
<1>1. ASSUME NEW r \in [full : Nat, empty : Nat], r.full + r.empty <= 1, NEW result
      PROVE  /\ RowReplaced(r, result, FALSE) \in [full : Nat, empty : Nat]
             /\ RowReplaced(r, result, FALSE).full + RowReplaced(r, result, FALSE).empty <= 1
  <2>1. (r.full = 0 /\ r.empty = 0) \/ (r.full = 1 /\ r.empty = 0) \/ (r.full = 0 /\ r.empty = 1)
    BY <1>1
  <2>2. RowReplaced(r, result, FALSE) \in
           {r, [full |-> 1, empty |-> 0], [full |-> 0, empty |-> 1]}
    BY <2>1 DEF RowReplaced
  <2>3. PICK q : q = RowReplaced(r, result, FALSE)
    OBVIOUS
  <2>4. q = r \/ q = [full |-> 1, empty |-> 0] \/ q = [full |-> 0, empty |-> 1]
    BY <2>2, <2>3
  <2>5. q \in [full : Nat, empty : Nat] /\ q.full + q.empty <= 1
    BY <1>1, <2>4
  <2> QED
    BY <2>3, <2>5
<1>2. ASSUME NEW p \in Pages
      PROVE  /\ pageRows'[p] \in [full : Nat, empty : Nat]
             /\ pageRows'[p].full + pageRows'[p].empty <= 1
  BY <1>1 DEF PagesOnce
<1> QED
  BY <1>2 DEF PagesOnce

\* The first accept of a document: nobody is at work, and the text starts again.
LEMMA AcceptText ==
    ASSUME SessionInv, AcceptsOnce, TextOnce, NEW a \in accepting, Accept(a), AcceptedOnce'
    PROVE  TextOnce'
<1>1. /\ sessions \in [Sessions -> Session] /\ a.session \in Sessions
      /\ a.spans \in [Pages -> Results] /\ "accepted" \in SessionStatuses
  BY DEF SessionInv, SessionForm, SessionStatuses
<1>2. ~a.late /\ a.late \in BOOLEAN /\ sessions[a.session].status # "accepted"
  BY DEF AcceptsOnce, SessionInv, SessionForm
<1>3. PICK s \in Sessions : s = a.session
  BY <1>1
<1>4. sessions' = [sessions EXCEPT ![s].status = "accepted"]
  BY <1>3 DEF Accept
<1>5. /\ sessions'[s].status = "accepted"
      /\ \A q \in Sessions : q # s => sessions'[q] = sessions[q]
  BY <1>1, <1>4, StatusSet
<1>6. Accepted = {} /\ s \in Accepted'
  BY <1>2, <1>3, <1>5 DEF Accepted, AcceptedOnce
<1>7. \A k \in PipelineKinds : Shut(k)
  BY <1>6 DEF TextOnce
<1>8. \A t \in tasks : t.pc \in RestPcs
  BY <1>7 DEF Shut, TextOnce, TextWorks, Works, PipelineKinds
<1>9. PICK n : tasks' = {OrphanAt(t, n) : t \in tasks}
  BY DEF Accept, WipeJobs, OrphanAt
<1>10. \A t \in tasks : OrphanAt(t, n).job = t.job /\ OrphanAt(t, n).pc = t.pc
  <2>1. ASSUME NEW t \in tasks PROVE OrphanAt(t, n).job = t.job /\ OrphanAt(t, n).pc = t.pc
    <3>1. TaskForm(t)
      BY DEF SessionInv, SessionForm
    <3>2. PICK m : m = IF HasRow(t) THEN n ELSE t.orphan
      OBVIOUS
    <3>3. PICK u : u = OrphanAt(t, n)
      OBVIOUS
    <3>4. u = [t EXCEPT !.orphan = m]
      BY <3>2, <3>3 DEF OrphanAt
    <3>5. u = [job |-> t.job, n |-> t.n, orphan |-> m, worker |-> t.worker, pc |-> t.pc,
               todo |-> t.todo]
      BY <3>1, <3>4 DEF TaskForm
    <3>6. u.job = t.job /\ u.pc = t.pc
      BY <3>5
    <3> QED
      BY <3>3, <3>6
  <2> QED
    BY <2>1
<1>11. ASSUME NEW u \in tasks'
       PROVE  u.pc \in RestPcs /\ \E t \in tasks : u.job = t.job
  BY <1>8, <1>9, <1>10
<1>12. PagesOnce'
  <2>1. a.late = FALSE
    BY <1>2
  <2>2. pageRows' = [p \in Pages |-> RowReplaced(pageRows[p], a.spans[p], FALSE)]
    BY <2>1 DEF Accept
  <2> QED
    BY <1>1, <2>2, RowsStayOne DEF TextOnce, TextWorks
<1>13. StatusHolds'
  BY DEF Accept, StatusHolds
<1>14. TextWorks'
  BY <1>11, <1>12, <1>13 DEF TextWorks, OneWorks, Works, RestPcs
<1>15. Shut("ocr")'
  <2>1. DOMAIN EmptyTable = JobIds /\ \A j \in JobIds : ~IsOpen(EmptyTable[j])
    BY DEF EmptyTable, Unused, IsOpen, OpenStatuses
  <2>2. PICK key : key = StageKey("layout")
    OBVIOUS
  <2>3. key[1] # "ocr" /\ jobs' = Insert(EmptyTable, key)
    BY <2>2 DEF StageKey, Accept, WipeJobs
  <2>4. \A j \in JobIds : j[1] = "ocr" => jobs'[j] = EmptyTable[j]
    BY <2>1, <2>3, OtherRows
  <2>5. \A u \in tasks' : KindOf(u) # "ocr"
    BY <1>11 DEF TextOnce, Shut, KindOf
  <2> QED
    BY <2>1, <2>4, <2>5 DEF Shut
<1> QED
  BY <1>6, <1>14, <1>15 DEF TextOnce

\* What a stage loads is one record for a page.
LEMMA LoadsOnce ==
    ASSUME PagesOnce
    PROVE  SpansLoaded \in SUBSET Loaded /\ OnePerPage(SpansLoaded)
<1>1. \A p \in Pages : pageRows[p].full \in Nat
  BY DEF PagesOnce
<1> QED
  BY <1>1 DEF SpansLoaded, Loaded, OnePerPage

\* The stage of a task at work, and the status it has set.
LEMMA WorkingStage ==
    ASSUME TextWorks, NEW t \in tasks, t.pc \notin RestPcs
    PROVE  /\ t.pc \in {"work", "batches"}
           /\ t.pc = "work" => status \in {"layout_running", "chunking_running"}
           /\ t.pc = "batches" => status \in {"embedding_running", "failed", "ready"}
BY DEF TextWorks, Works

\* A task of the embedding stage goes on beside a step that keeps the chunks.
LEMMA BatchesOn ==
    ASSUME TextWorks, NEW t \in tasks, t.pc \in RestPcs \/ t.pc = "batches",
           UNCHANGED <<form, pageRows, chunks>>, status' \in {"embedding_running", "failed", "ready"}
    PROVE  Works(t)'
<1>1. Works(t)
  BY DEF TextWorks
<1>2. (ChunksMatch' <=> ChunksMatch) /\ Unembedded' = Unembedded
  BY SameRows
<1> QED
  BY <1>1, <1>2 DEF Works, RestPcs, KindOf

\* A stage fails: the document is failed, and the others go on.
LEMMA FailsText ==
    ASSUME SessionInv, TextWorks, DocExists, NEW t \in tasks, StageFails(t)
    PROVE  TextWorks'
<1>1. /\ t.pc \in {"work", "batches"} /\ status' = "failed"
      /\ UNCHANGED <<form, pageRows, blocks, chunks>> /\ tasks' = Moved(t, "retry", {})
  BY DEF StageFails, FailDocument, Orphaned, SetStatus, Goto, setting
<1>2. PICK u : tasks' = (tasks \ {t}) \cup {u} /\ u.pc = "retry"
  BY <1>1, MovedIs
<1>3. ASSUME NEW v \in tasks, v # t PROVE v.pc \in RestPcs \/ v.pc = "batches"
  <2>1. t.pc \notin RestPcs
    BY <1>1 DEF RestPcs
  <2>2. v.pc # "work"
    BY <1>1, <1>3, <2>1, WorkingStage DEF TextWorks, OneWorks, RestPcs
  <2> QED
    BY <2>2, WorkingStage
<1>4. \A v \in tasks' : Works(v)'
  <2>1. Works(u)'
    BY <1>2 DEF Works, RestPcs
  <2>2. \A v \in tasks : v # t => Works(v)'
    BY <1>1, <1>3, BatchesOn
  <2> QED
    BY <1>2, <2>1, <2>2
<1>5. OneWorks'
  BY <1>2, <1>3 DEF OneWorks, RestPcs
<1>6. PagesOnce' /\ StatusHolds'
  BY <1>1 DEF TextWorks, PagesOnce, StatusHolds
<1> QED
  BY <1>4, <1>5, <1>6 DEF TextWorks

\* A claim of layout or chunking, when no stage is at work.
LEMMA ClaimText ==
    ASSUME SessionInv, TextWorks, NEW t \in tasks, LayoutClaim(t) \/ ChunkingClaim(t)
    PROVE  TextWorks'
<1>0. form' = form
  BY DEF LayoutClaim, ChunkingClaim, StageClaims, setting
<1>1. ASSUME UNCHANGED docVars, Goto(t, "finish") PROVE TextWorks'
  BY <1>0, <1>1, MovedCalm, CalmWorks DEF Goto, RestPcs
<1>2. ASSUME status \in {"ocr_done", "layout_done"}, UNCHANGED <<pageRows, blocks, chunks>>,
             NEW todo, tasks' = Moved(t, "work", todo), StatusHolds',
             \/ KindOf(t) = "layout" /\ status' = "layout_running" /\ todo = SpansLoaded
             \/ KindOf(t) = "chunking" /\ status' = "chunking_running" /\ todo = BlocksLoaded
      PROVE  TextWorks'
  <2>1. PICK u : /\ tasks' = (tasks \ {t}) \cup {u}
                 /\ u.job = t.job /\ u.pc = "work" /\ u.todo = todo
    BY <1>2, MovedIs
  <2>2. \A v \in tasks : v.pc \in RestPcs
    BY <1>2, WorkingStage
  <2>3. SpansLoaded' = SpansLoaded /\ BlocksLoaded' = BlocksLoaded
    BY <1>0, <1>2, SameRows
  <2>4. Works(u)'
    BY <1>2, <2>1, <2>3 DEF Works, KindOf
  <2>5. \A v \in tasks' : Works(v)'
    BY <2>1, <2>2, <2>4 DEF Works
  <2>6. OneWorks'
    BY <2>1, <2>2 DEF OneWorks, RestPcs
  <2>7. PagesOnce'
    BY <1>2 DEF TextWorks, PagesOnce
  <2> QED
    BY <1>2, <2>5, <2>6, <2>7 DEF TextWorks
<1>3. CASE LayoutClaim(t)
  <2>1. CASE status = "ocr_done"
    <3>1. /\ KindOf(t) = "layout" /\ status' = "layout_running"
          /\ UNCHANGED <<pageRows, blocks, chunks>> /\ tasks' = Moved(t, "work", SpansLoaded)
      BY <1>3, <2>1 DEF LayoutClaim, StageClaims, SetStatus
    <3>2. StatusHolds'
      BY <1>0, <2>1, <3>1, SameRows DEF TextWorks, StatusHolds
    <3> QED
      BY <1>2, <2>1, <3>1, <3>2
  <2>2. CASE status # "ocr_done"
    BY <1>1, <1>3, <2>2 DEF LayoutClaim, StageClaims
  <2> QED
    BY <2>1, <2>2
<1>4. CASE ChunkingClaim(t)
  <2>1. CASE status = "layout_done"
    <3>1. /\ KindOf(t) = "chunking" /\ status' = "chunking_running"
          /\ UNCHANGED <<pageRows, blocks, chunks>> /\ tasks' = Moved(t, "work", BlocksLoaded)
      BY <1>4, <2>1 DEF ChunkingClaim, StageClaims, SetStatus
    <3>2. StatusHolds'
      BY <1>0, <2>1, <3>1, SameRows DEF TextWorks, StatusHolds
    <3> QED
      BY <1>2, <2>1, <3>1, <3>2
  <2>2. CASE status # "layout_done"
    BY <1>1, <1>4, <2>2 DEF ChunkingClaim, StageClaims
  <2> QED
    BY <2>1, <2>2
<1> QED
  BY <1>3, <1>4

\* Layout adds the blocks of the spans of each page to none.
LEMMA LayoutText ==
    ASSUME SessionInv, TextWorks, NEW t \in tasks, LayoutWork(t)
    PROVE  TextWorks'
<1>1. /\ KindOf(t) = "layout" /\ t.pc = "work" /\ t.pc \notin RestPcs
      /\ tasks' = Moved(t, "finish", {})
  BY DEF LayoutWork, Goto, RestPcs
<1>2. status = "layout_running" /\ t.todo = SpansLoaded
  BY <1>1 DEF TextWorks, Works
<1>3. blocks = NoBlocks /\ chunks = {}
  BY <1>2 DEF TextWorks, StatusHolds
<1>4. PICK u : tasks' = (tasks \ {t}) \cup {u} /\ u.pc = "finish"
  BY <1>1, MovedIs
<1>5. \A v \in tasks : v # t => v.pc \in RestPcs
  BY <1>1, <1>2, WorkingStage DEF TextWorks, OneWorks
<1>6. (\A v \in tasks' : Works(v)') /\ OneWorks'
  BY <1>4, <1>5 DEF Works, OneWorks, RestPcs
<1>7. PagesOnce' /\ UNCHANGED <<form, pageRows, chunks>>
  BY DEF LayoutWork, SetStatus, LayoutDone, TextWorks, PagesOnce, setting
<1>8. CASE SetStatus("failed")
  <2>1. StatusHolds'
    BY <1>8 DEF SetStatus, StatusHolds
  <2> QED
    BY <1>6, <1>7, <2>1 DEF TextWorks
<1>9. CASE LayoutDone(t.todo)
  <2> DEFINE sum(p) == SumSet({s.copies : s \in {l \in t.todo : l.page = p}})
  <2>1. /\ blocks' = IF form = "blank" THEN blocks ELSE [p \in Pages |-> blocks[p] + sum(p)]
        /\ status' = "layout_done"
    BY <1>9 DEF LayoutDone
  <2>2. SpansLoaded \in SUBSET Loaded /\ OnePerPage(SpansLoaded)
    BY LoadsOnce DEF TextWorks
  <2>3. ASSUME NEW p \in Pages PROVE sum(p) = pageRows[p].full
    <3>1. pageRows[p].full \in Nat
      BY DEF TextWorks, PagesOnce
    <3>2. CASE pageRows[p].full > 0
      <4>1. PICK l : l = [page |-> p, copies |-> pageRows[p].full]
        OBVIOUS
      <4>2. l \in SpansLoaded
        BY <3>2, <4>1 DEF SpansLoaded
      <4>3. l.page = p /\ l.copies = pageRows[p].full
        BY <4>1
      <4> QED
        BY <1>2, <2>2, <4>2, <4>3, CopiesOfPage
    <3>3. CASE pageRows[p].full = 0
      <4>1. {s.copies : s \in {l \in t.todo : l.page = p}} = {}
        BY <1>2, <3>3 DEF SpansLoaded
      <4>2. SumSet({}) = 0
        <5>1. 0 \in Nat
          OBVIOUS
        <5> QED
          BY <5>1, SumOfOne, Zenon
      <4>3. sum(p) = 0
        BY <4>1, <4>2, Zenon
      <4> QED
        BY <3>3, <4>3
    <3> QED
      BY <3>1, <3>2, <3>3
  <2> HIDE DEF sum
  <2>4. \A p \in Pages : blocks[p] = 0 /\ pageRows[p].full \in Nat
    BY <1>3 DEF NoBlocks, TextWorks, PagesOnce
  <2>5. blocks' = Written
    <3>1. CASE form = "blank"
      BY <1>3, <2>1, <3>1 DEF NoBlocks, Written, Readable
    <3>2. CASE form # "blank"
      <4>1. \A p \in Pages : blocks[p] + sum(p) = IF p \in Readable THEN pageRows[p].full ELSE 0
        BY <2>3, <2>4, <3>2 DEF Readable
      <4> QED
        BY <2>1, <3>2, <4>1 DEF Written
    <3> QED
      BY <3>1, <3>2
  <2>6. StatusHolds'
    BY <1>3, <1>7, <2>1, <2>5, SameRows DEF StatusHolds
  <2> QED
    BY <1>6, <1>7, <2>6 DEF TextWorks
<1> QED
  BY <1>8, <1>9 DEF LayoutWork

\* Chunking makes one chunk of the text of each page.
LEMMA ChunkingText ==
    ASSUME SessionInv, TextWorks, NEW t \in tasks, ChunkingWork(t)
    PROVE  TextWorks'
<1>1. /\ KindOf(t) = "chunking" /\ t.pc = "work" /\ t.pc \notin RestPcs
      /\ tasks' = Moved(t, "finish", {}) /\ status' = "chunking_done"
      /\ chunks' = chunks \cup NewChunks(t.todo) /\ UNCHANGED <<form, pageRows, blocks>>
  BY DEF ChunkingWork, Goto, RestPcs, setting
<1>2. status = "chunking_running" /\ t.todo = BlocksLoaded
  BY <1>1 DEF TextWorks, Works
<1>3. blocks = Written /\ chunks = {}
  BY <1>2 DEF TextWorks, StatusHolds
<1>4. PICK u : tasks' = (tasks \ {t}) \cup {u} /\ u.pc = "finish"
  BY <1>1, MovedIs
<1>5. \A v \in tasks : v # t => v.pc \in RestPcs
  BY <1>1, <1>2, WorkingStage DEF TextWorks, OneWorks
<1>6. (\A v \in tasks' : Works(v)') /\ OneWorks'
  BY <1>4, <1>5 DEF Works, OneWorks, RestPcs
<1>7. PagesOnce'
  BY <1>1 DEF TextWorks, PagesOnce
<1>8. PICK run :
         chunks' = {[id |-> [run |-> run, page |-> l.page], copies |-> l.copies, embedded |-> FALSE]
                       : l \in BlocksLoaded}
  BY <1>1, <1>2, <1>3 DEF NewChunks
<1>9. /\ \A p \in Pages : blocks[p] = IF p \in Readable THEN 1 ELSE 0
      /\ Readable' = Readable /\ Readable \subseteq Pages
  <2>1. \A p \in Pages : /\ pageRows[p].full \in Nat /\ pageRows[p].empty \in Nat
                         /\ pageRows[p].full + pageRows[p].empty <= 1
    BY DEF TextWorks, PagesOnce
  <2>2. \A p \in Readable : p \in Pages /\ pageRows[p].full = 1
    BY <2>1 DEF Readable
  <2>3. Readable' = Readable
    BY <1>1, SameRows
  <2> QED
    BY <1>3, <2>2, <2>3 DEF Written
<1>10. \A l \in BlocksLoaded : l.page \in Readable /\ l.copies = 1
  BY <1>9 DEF BlocksLoaded
<1>11. ASSUME NEW c \in chunks'
       PROVE  /\ c = [id |-> [run |-> run, page |-> c.id.page], copies |-> 1, embedded |-> FALSE]
              /\ c.id.page \in Readable
  BY <1>8, <1>10
<1>12. \A c \in chunks' : ChunkForm(c) /\ c.copies = 1 /\ c.id.page \in Readable'
  <2>1. ASSUME NEW c \in chunks'
        PROVE  c.id = [run |-> run, page |-> c.id.page] /\ c.copies = 1 /\ c.embedded = FALSE
    BY <1>11
  <2>2. ASSUME NEW c \in chunks' PROVE c.id.run = run
    <3>1. PICK page : page = c.id.page
      OBVIOUS
    <3>2. c.id = [run |-> run, page |-> page]
      BY <2>1, <3>1
    <3> QED
      BY <3>2
  <2>3. ASSUME NEW c \in chunks'
        PROVE  c = [id |-> [run |-> c.id.run, page |-> c.id.page], copies |-> c.copies,
                    embedded |-> c.embedded]
    BY <1>11, <2>1, <2>2
  <2> QED
    BY <1>9, <1>11, <2>1, <2>3 DEF ChunkForm
<1>13. \A c, d \in chunks' : c.id.page = d.id.page => c = d
  BY <1>11
<1>14. ASSUME NEW p \in Readable' PROVE \E c \in chunks' : c.id.page = p
  <2>1. PICK l : l = [page |-> p, copies |-> blocks[p]]
    OBVIOUS
  <2>2. l \in BlocksLoaded /\ l.page = p
    BY <1>9, <1>14, <2>1 DEF BlocksLoaded
  <2>3. PICK c : c = [id |-> [run |-> run, page |-> l.page], copies |-> l.copies, embedded |-> FALSE]
    OBVIOUS
  <2>4. c \in chunks'
    BY <1>8, <2>2, <2>3
  <2>5. c.id = [run |-> run, page |-> l.page]
    BY <2>3
  <2>6. c.id.page = p
    BY <2>2, <2>5
  <2> QED
    BY <2>4, <2>6
<1>15. ChunksMatch'
  BY <1>12, <1>13, <1>14 DEF ChunksMatch, ChunkForm
<1>16. StatusHolds'
  BY <1>1, <1>15 DEF StatusHolds
<1> QED
  BY <1>6, <1>7, <1>16 DEF TextWorks

\* A claim of the embedding stage.
LEMMA EmbedClaimText ==
    ASSUME SessionInv, TextWorks, NEW t \in tasks, EmbeddingClaim(t)
    PROVE  TextWorks'
<1>1. CASE status \in {"chunking_done", "embedding_running"}
  <2>1. /\ KindOf(t) = "embedding" /\ status' = "embedding_running"
        /\ UNCHANGED <<form, pageRows, blocks, chunks>> /\ tasks' = Moved(t, "batches", Unembedded)
    BY <1>1 DEF EmbeddingClaim, StageClaims, SetStatus, setting
  <2>2. PICK u : /\ tasks' = (tasks \ {t}) \cup {u}
                 /\ u.job = t.job /\ u.pc = "batches" /\ u.todo = Unembedded
    BY <2>1, MovedIs
  <2>3. ChunksMatch' /\ Unembedded' = Unembedded
    BY <1>1, <2>1, SameRows DEF TextWorks, StatusHolds
  <2>4. \A v \in tasks : v.pc \in RestPcs \/ v.pc = "batches"
    BY <1>1, WorkingStage
  <2>5. Works(u)'
    BY <2>1, <2>2, <2>3 DEF Works, KindOf
  <2>6. \A v \in tasks : Works(v)'
    BY <2>1, <2>4, BatchesOn
  <2>7. OneWorks'
    BY <2>2, <2>4 DEF OneWorks, RestPcs
  <2>8. PagesOnce' /\ StatusHolds'
    BY <2>1, <2>3 DEF TextWorks, PagesOnce, StatusHolds
  <2> QED
    BY <2>2, <2>5, <2>6, <2>7, <2>8 DEF TextWorks
<1>2. CASE status \notin {"chunking_done", "embedding_running"}
  <2>1. UNCHANGED docVars /\ UNCHANGED form /\ tasks' = Moved(t, "finish", {})
    BY <1>2 DEF EmbeddingClaim, StageClaims, Goto, setting
  <2> QED
    BY <2>1, MovedCalm, CalmWorks DEF RestPcs
<1> QED
  BY <1>1, <1>2

\* A batch marks chunks, and replaces none.
LEMMA BatchText ==
    ASSUME SessionInv, TextWorks, NEW t \in tasks, NEW id \in t.todo, EmbeddingBatch(t, id)
    PROVE  TextWorks'
<1>1. /\ t.pc = "batches" /\ t.pc \notin RestPcs /\ UNCHANGED <<status, form, pageRows, blocks>>
      /\ chunks' = {IF c.id = id THEN [c EXCEPT !.embedded = TRUE] ELSE c : c \in chunks}
      /\ tasks' = Moved(t, "batches", t.todo \ {id})
  BY DEF EmbeddingBatch, RestPcs, setting
<1>2. /\ KindOf(t) = "embedding" /\ status \in {"embedding_running", "failed", "ready"}
      /\ ChunksMatch /\ Unembedded \subseteq t.todo
  BY <1>1 DEF TextWorks, Works
<1>3. PICK u : /\ tasks' = (tasks \ {t}) \cup {u}
               /\ u.job = t.job /\ u.pc = "batches" /\ u.todo = t.todo \ {id}
  BY <1>1, MovedIs
<1>4. ASSUME NEW c \in chunks
      PROVE  LET d == IF c.id = id THEN [c EXCEPT !.embedded = TRUE] ELSE c IN
             /\ d.id = c.id /\ d.copies = c.copies /\ ChunkForm(d)
             /\ d.embedded = (c.embedded \/ c.id = id)
  <2>1. ChunkForm(c)
    BY <1>2 DEF ChunksMatch
  <2>2. PICK d : d = IF c.id = id THEN [c EXCEPT !.embedded = TRUE] ELSE c
    OBVIOUS
  <2>3. CASE c.id = id
    <3>1. d = [c EXCEPT !.embedded = TRUE]
      BY <2>2, <2>3
    <3>2. d = [id |-> [run |-> c.id.run, page |-> c.id.page], copies |-> c.copies, embedded |-> TRUE]
      <4>1. PICK i : i = [run |-> c.id.run, page |-> c.id.page]
        OBVIOUS
      <4>2. PICK n : n = c.copies
        OBVIOUS
      <4>3. PICK e : e = c.embedded
        OBVIOUS
      <4>4. c = [id |-> i, copies |-> n, embedded |-> e]
        BY <2>1, <4>1, <4>2, <4>3 DEF ChunkForm
      <4>5. d = [id |-> i, copies |-> n, embedded |-> TRUE]
        BY <3>1, <4>4
      <4> QED
        BY <4>1, <4>2, <4>5
    <3>3. c.id = [run |-> c.id.run, page |-> c.id.page]
      BY <2>1 DEF ChunkForm
    <3>4. d.id = c.id /\ d.copies = c.copies /\ d.embedded = TRUE
      BY <3>2, <3>3
    <3>5. ChunkForm(d)
      BY <2>1, <3>2, <3>4 DEF ChunkForm
    <3> QED
      BY <2>1, <2>2, <2>3, <3>4, <3>5 DEF ChunkForm
  <2>4. CASE c.id # id
    BY <2>1, <2>2, <2>4 DEF ChunkForm
  <2> QED
    BY <2>2, <2>3, <2>4
<1>5. ASSUME NEW d \in chunks'
      PROVE  \E c \in chunks : /\ d = IF c.id = id THEN [c EXCEPT !.embedded = TRUE] ELSE c
                               /\ d.id = c.id /\ d.copies = c.copies /\ ChunkForm(d)
                               /\ d.embedded = (c.embedded \/ c.id = id)
  BY <1>1, <1>4
<1>6. ChunksMatch'
  <2>4. Readable' = Readable
    BY <1>1, SameRows
  <2>1. \A d \in chunks' : ChunkForm(d) /\ d.copies = 1 /\ d.id.page \in Readable'
    BY <1>2, <1>5, <2>4 DEF ChunksMatch
  <2>2. \A d, e \in chunks' : d.id.page = e.id.page => d = e
    BY <1>2, <1>5 DEF ChunksMatch
  <2>3. ASSUME NEW p \in Readable' PROVE \E d \in chunks' : d.id.page = p
    <3>1. PICK c \in chunks : c.id.page = p
      BY <1>2, <2>3, <2>4 DEF ChunksMatch
    <3> QED
      BY <1>1, <1>4, <3>1
  <2> QED
    BY <2>1, <2>2, <2>3 DEF ChunksMatch, ChunkForm
<1>7. Unembedded' \subseteq Unembedded \ {id}
  <2>1. ASSUME NEW d \in chunks', ~d.embedded PROVE d.id \in Unembedded /\ d.id # id
    BY <1>5, <2>1 DEF Unembedded
  <2> QED
    BY <2>1 DEF Unembedded
<1>8. Works(u)'
  BY <1>1, <1>2, <1>3, <1>6, <1>7 DEF Works, KindOf
<1>9. ASSUME NEW v \in tasks PROVE Works(v)'
  <2>1. v.pc \in RestPcs \/ v.pc = "batches"
    BY <1>2, WorkingStage
  <2>2. Works(v)
    BY DEF TextWorks
  <2> QED
    BY <1>1, <1>6, <1>7, <2>1, <2>2 DEF Works, RestPcs, KindOf
<1>10. OneWorks'
  <2>1. \A v \in tasks : v.pc # "work"
    BY <1>2, WorkingStage DEF RestPcs
  <2> QED
    BY <1>3, <2>1 DEF OneWorks
<1>11. PagesOnce'
  BY <1>1 DEF TextWorks, PagesOnce
<1>12. StatusHolds'
  <2>1. status = "ready" => \A d \in chunks' : d.embedded
    BY <1>5 DEF TextWorks, StatusHolds
  <2> QED
    BY <1>1, <1>2, <1>6, <2>1 DEF StatusHolds
<1> QED
  BY <1>3, <1>8, <1>9, <1>10, <1>11, <1>12 DEF TextWorks

\* The last batch is done: every chunk has its vector.
LEMMA EmbeddedText ==
    ASSUME SessionInv, TextWorks, NEW t \in tasks, EmbeddingDone(t)
    PROVE  TextWorks'
<1>1. /\ t.pc = "batches" /\ t.todo = {} /\ t.pc \notin RestPcs /\ status' = "ready"
      /\ UNCHANGED <<form, pageRows, blocks, chunks>> /\ tasks' = Moved(t, "finish", {})
  BY DEF EmbeddingDone, SetStatus, Goto, RestPcs, setting
<1>2. /\ status \in {"embedding_running", "failed", "ready"}
      /\ ChunksMatch /\ \A c \in chunks : c.embedded
  <2>1. ChunksMatch /\ Unembedded \subseteq {} /\ status \in {"embedding_running", "failed", "ready"}
    BY <1>1 DEF TextWorks, Works
  <2> QED
    BY <2>1 DEF Unembedded
<1>3. PICK u : tasks' = (tasks \ {t}) \cup {u} /\ u.pc = "finish"
  BY <1>1, MovedIs
<1>4. \A v \in tasks : v.pc \in RestPcs \/ v.pc = "batches"
  BY <1>2, WorkingStage
<1>5. \A v \in tasks : Works(v)'
  BY <1>1, <1>4, BatchesOn
<1>6. Works(u)' /\ OneWorks'
  BY <1>3, <1>4 DEF Works, OneWorks, RestPcs
<1>7. PagesOnce' /\ StatusHolds'
  BY <1>1, <1>2, SameRows DEF TextWorks, StatusHolds
<1> QED
  BY <1>3, <1>5, <1>6, <1>7 DEF TextWorks

\* Each step of a stage.
LEMMA StageText ==
    ASSUME SessionInv, TextWorks, DocExists, NEW t \in tasks, StageStep(t)
    PROVE  TextWorks'
BY FailsText, ClaimText, LayoutText, ChunkingText, EmbedClaimText, BatchText, EmbeddedText
   DEF StageStep

-----------------------------------------------------------------------------
(* What every step keeps *)

\* Where no handler is at work and nothing is accepted, the document and its tasks rest.
LEMMA QuietCalm ==
    ASSUME OneAcceptAtATime, SessionInv, TextWorks, Shut("ocr"), status # "absent", asking = {},
           DocExists', SessionNext, \A a \in accepting : ~Accept(a), \A t \in tasks : ~StageStep(t)
    PROVE  Calm
<1>0. form' = form
  BY FormStays
<1>1. ASSUME UNCHANGED docVars, tasks' \subseteq tasks PROVE Calm
  BY <1>0, <1>1 DEF Calm
<1>2. CASE SessionRequest
  <2>1. \A s \in Sessions, pages \in SUBSET Pages :
           Start(s, pages) \/ AcceptChecks(s, pages) \/ StartEnqueues(s)
              \/ RejectChecks(s) \/ RejectWrites(s) \/ RejectDies(s) => UNCHANGED <<docVars, tasks>>
    BY DEF Start, AcceptChecks, RejectChecks, RejectWrites, RejectDies, StartEnqueues, vars
  <2>2. \A a \in accepting : AcceptDies(a) => UNCHANGED <<docVars, tasks>>
    BY DEF AcceptDies, vars
  <2> QED
    BY <1>1, <1>2, <2>1, <2>2 DEF SessionRequest
<1>3. CASE \E t \in tasks : SessionStep(t) \/ SessionAborts(t)
  BY <1>0, <1>3, RunMoves, MovedCalm
<1>4. CASE PipelineStep
  <2>1. CASE HttpStep
    BY <1>1, <2>1, OnlyRequests DEF RequestDelete, DeleteTimesOut
  <2>2. CASE TimeStep
    BY <1>1, <2>2 DEF TimeStep, Reconcile, LeaseExpires, LeaseLapses, Late
  <2>3. ASSUME NEW w \in Workers, NEW j \in JobIds, Claim(w, j) PROVE Calm
    <3>1. PICK new : new = [job |-> j, n |-> jobs[j].attempts + 1, orphan |-> 0, worker |-> w,
                            pc |-> "start", todo |-> {}]
      OBVIOUS
    <3>2. new.pc = "start" /\ tasks' = tasks \cup {new} /\ UNCHANGED docVars
      BY <2>3, <3>1 DEF Claim
    <3> QED
      BY <1>0, <3>2 DEF Calm, RestPcs
  <2>4. ASSUME NEW t \in tasks, HandlerStep(t) \/ Heartbeat(t) \/ StageAborts(t) PROVE Calm
    <3>1. ~OcrStep(t)
      BY NoOcr DEF TextWorks, Shut
    <3>2. CASE StageAborts(t)
      <4>1. tasks' = Moved(t, "retry", {}) /\ UNCHANGED docVars
        BY <3>2 DEF StageAborts, Goto
      <4> QED
        BY <1>0, <4>1, MovedCalm DEF RestPcs
    <3>3. CASE Finish(t) \/ Raise(t) \/ Heartbeat(t)
      BY <1>1, <3>3 DEF Finish, Raise, Heartbeat
    <3> QED
      BY <2>4, <3>1, <3>2, <3>3 DEF HandlerStep
  <2>5. ASSUME NEW w \in Workers, Crash(w) PROVE Calm
    BY <1>1, <2>5 DEF Crash
  <2> QED
    BY <1>4, <2>1, <2>2, <2>3, <2>4, <2>5 DEF PipelineStep, WorkerStep
<1> QED
  BY <1>2, <1>3, <1>4 DEF SessionNext

\* The document was there before the step, and the sessions accepted then are accepted.
LEMMA WasThere ==
    ASSUME OneAcceptAtATime, SessionInv, status # "absent", SessionNext, AcceptsHeld, DocExists'
    PROVE  DocExists /\ Accepted \subseteq Accepted'
<1>1. status # "deleted"
  <2> SUFFICES ASSUME status = "deleted" PROVE FALSE
    OBVIOUS
  <2>1. status' # "deleted"
    BY DEF DocExists
  <2>2. \A s \in Sessions : ~Live(s)
    BY DEF SessionInv
  <2>3. \A a \in accepting : ~Accept(a)
    BY <2>2 DEF SessionInv, SessionForm, Accept
  <2>4. SessionRequest => UNCHANGED docVars
    BY <2>3 DEF SessionRequest, Start, AcceptChecks, StartEnqueues, RejectChecks, RejectWrites,
       RejectDies, AcceptDies, vars
  <2>5. \A t \in tasks : SessionStep(t) \/ SessionAborts(t) => UNCHANGED docVars
    BY RunMoves
  <2>6. PipelineStep => status' = "deleted"
    BY DeletedStays DEF PipelineStep, Next
  <2> QED
    BY <2>1, <2>4, <2>5, <2>6 DEF SessionNext, docVars
<1>2. status' # "deleted"
  BY DEF DocExists
<1>4. ASSUME NEW s \in Accepted PROVE s \in Accepted'
  <2>1. s \in Sessions /\ sessions[s].status = "accepted"
    BY DEF Accepted
  <2>2. sessions'[s].status # "absent"
    BY <1>2, <2>1, SessionsMove
  <2> QED
    BY <2>1, <2>2 DEF AcceptsHeld, Accepted
<1> QED
  BY <1>1, <1>4 DEF DocExists

\* No step takes the document back to before its upload.
LEMMA NeverAbsent ==
    ASSUME status # "absent", SessionNext, SessionInv
    PROVE  status' # "absent"
<1> USE DEF docVars
<1>1. CASE SessionRequest
  BY <1>1 DEF SessionRequest, Start, AcceptChecks, StartEnqueues, RejectChecks, RejectWrites,
     RejectDies, AcceptDies, Accept, vars
<1>2. CASE \E t \in tasks : SessionStep(t) \/ SessionAborts(t)
  BY <1>2, RunMoves
<1>3. CASE HttpStep
  BY <1>3 DEF HttpStep, Upload, Reupload, RetryChecks, RetryWrites, ReextractChecks,
     ReextractWrites, RequestDies, RequestDelete, DeleteRows, DeleteTimesOut, SetStatus
<1>4. CASE TimeStep
  BY <1>4 DEF TimeStep, Reconcile, LeaseExpires, LeaseLapses, Late
<1>5. ASSUME NEW t \in tasks, HandlerStep(t) \/ Heartbeat(t) \/ StageAborts(t)
      PROVE  status' # "absent"
  <2>1. CASE OcrStep(t)
    BY <2>1 DEF OcrStep, OcrLoad, OcrPending, OcrLocate, OcrCount, OcrInputFails, OcrNextPage,
       OcrCancelled, OcrPage, OcrLoopFails, OcrDone, OcrText, FailDocument, Orphaned, SetStatus
  <2>2. CASE StageStep(t)
    BY <2>2 DEF StageStep, StageFails, LayoutClaim, LayoutWork, LayoutDone, ChunkingClaim,
       ChunkingWork, EmbeddingClaim, EmbeddingDone, EmbeddingBatch, StageClaims, FailDocument,
       Orphaned, SetStatus
  <2> QED
    BY <1>5, <2>1, <2>2 DEF HandlerStep, Finish, Raise, Heartbeat, StageAborts
<1>6. CASE WorkerStep
  BY <1>5, <1>6 DEF WorkerStep, Claim, Crash
<1> QED
  BY <1>1, <1>2, <1>3, <1>4, <1>6 DEF SessionNext, PipelineStep

\* A step of a stage is none of the others: what it keeps, and that no stage is open
\* before the accept.
LEMMA OtherText ==
    ASSUME OneAcceptAtATime, SessionInv, status # "absent", asking = {}, DocExists, DocExists', TextOnce,
           SessionNext, \A a \in accepting : ~Accept(a), Accepted' = {} => Accepted = {}
    PROVE  TextOnce'
<1>1. TextWorks /\ Shut("ocr") /\ \A t \in tasks : Works(t)
  BY DEF TextOnce, TextWorks
<1>2. Shut("ocr")'
  <2>1. status \in DOMAIN NextStage => NextStage[status] # "ocr"
    BY <1>1 DEF TextWorks, StatusHolds, NextStage
  <2>2. \A t \in tasks : KindOf(t) \in DOMAIN NextKind => NextKind[KindOf(t)] # "ocr"
    BY DEF NextKind
  <2>3. "ocr" \in PipelineKinds
    BY DEF PipelineKinds
  <2> QED
    BY <1>1, <2>1, <2>2, <2>3, StepShut
<1>3. TextWorks'
  <2>1. CASE \E t \in tasks : StageStep(t)
    BY <1>1, <2>1, StageText
  <2>2. CASE \A t \in tasks : ~StageStep(t)
    BY <1>1, <2>2, QuietCalm, CalmWorks
  <2> QED
    BY <2>1, <2>2
<1>4. ASSUME Accepted' = {}
      PROVE  status' = "ready" /\ \A k \in PipelineKinds : Shut(k)'
  <2>1. status = "ready" /\ \A k \in PipelineKinds : Shut(k)
    BY <1>4 DEF TextOnce
  <2>2. \A t \in tasks : KindOf(t) \notin PipelineKinds
    BY <2>1 DEF Shut
  <2>3. \A t \in tasks : t.pc \in RestPcs
    BY <1>1, <2>2 DEF Works, PipelineKinds
  <2>4. \A t \in tasks : ~StageStep(t)
    BY <2>2, <2>3 DEF StageStep, StageFails, LayoutClaim, LayoutWork, ChunkingClaim, ChunkingWork,
       EmbeddingClaim, EmbeddingDone, EmbeddingBatch, PipelineKinds, RestPcs
  <2>5. status' = status
    BY <1>1, <2>4, QuietCalm DEF Calm, docVars
  <2>6. status \notin DOMAIN NextStage
    BY <2>1 DEF NextStage
  <2>7. \A t \in tasks : KindOf(t) \notin DOMAIN NextKind
    BY <2>2 DEF NextKind, PipelineKinds
  <2>8. ASSUME NEW k \in PipelineKinds PROVE Shut(k)'
    BY <2>1, <2>6, <2>7, StepShut
  <2> QED
    BY <2>1, <2>5, <2>8
<1> QED
  BY <1>2, <1>3, <1>4 DEF TextOnce

\* Every step keeps the invariant.
LEMMA TextStep ==
    OneAcceptAtATime /\ TextInv /\ [SessionNext]_allVars /\ [AcceptsHeld]_allVars => TextInv'
<1> SUFFICES ASSUME OneAcceptAtATime, TextInv, [SessionNext]_allVars, [AcceptsHeld]_allVars
             PROVE  TextInv'
  OBVIOUS
<1>1. SessionInv /\ SessionInv' /\ AcceptsOnce /\ status # "absent" /\ asking = {}
  BY SessionStepKeeps DEF TextInv, OneAcceptAtATime
<1>2. CASE UNCHANGED allVars
  <2>1. /\ status' = status /\ pageRows' = pageRows /\ blocks' = blocks /\ chunks' = chunks
        /\ jobs' = jobs /\ tasks' = tasks /\ sessions' = sessions /\ accepting' = accepting
        /\ form' = form /\ asking' = {} /\ counted' = counted
    BY <1>1, <1>2 DEF allVars, sessionVars, requests, vars, docVars, setting
  <2>2. AcceptsOnce'
    BY <1>1, <2>1 DEF AcceptsOnce
  <2>3. Accepted' = Accepted /\ (DocExists' <=> DocExists) /\ (AcceptedOnce' <=> AcceptedOnce)
    BY <2>1 DEF Accepted, DocExists, AcceptedOnce
  <2>4. TextWorks => TextWorks'
    BY <2>1, CalmWorks DEF Calm, docVars
  <2>5. \A k \in PipelineKinds \cup {"ocr"} : Shut(k)' <=> Shut(k)
    BY <2>1 DEF Shut
  <2>6. TextOnce => TextOnce'
    BY <2>1, <2>3, <2>4, <2>5 DEF TextOnce
  <2> QED
    BY <1>1, <2>1, <2>2, <2>3, <2>6 DEF TextInv
<1>3. CASE SessionNext /\ AcceptsHeld
  <2>1. AcceptsOnce' /\ status' # "absent" /\ asking' = {}
    BY <1>1, <1>3, AcceptsKeep, NeverAbsent, NobodyWrites
  <2>2. ASSUME DocExists', AcceptedOnce' PROVE TextOnce'
    <3>1. DocExists /\ Accepted \subseteq Accepted'
      BY <1>1, <1>3, <2>2, WasThere
    <3>2. TextOnce
      BY <2>2, <3>1 DEF TextInv, AcceptedOnce
    <3>3. ASSUME NEW a \in accepting, Accept(a) PROVE TextOnce'
      BY <1>1, <2>2, <3>2, <3>3, AcceptText
    <3>4. CASE \A a \in accepting : ~Accept(a)
      BY <1>1, <1>3, <2>2, <3>1, <3>2, <3>4, OtherText
    <3> QED
      BY <3>3, <3>4
  <2> QED
    BY <1>1, <2>1, <2>2 DEF TextInv
<1> QED
  BY <1>2, <1>3

\* A document that has become ready, before any session.
LEMMA TextInit == SessionInit => TextInv
<1> SUFFICES ASSUME SessionInit PROVE TextInv
  OBVIOUS
<1>1. SessionInv
  BY SessionInitKeeps
<1>2. status = "ready" /\ tasks = {} /\ accepting = {} /\ asking = {}
  BY DEF SessionInit
<1>3. PICK full \in SUBSET Pages :
         pageRows = [p \in Pages |-> [full |-> IF p \in full THEN 1 ELSE 0,
                                      empty |-> IF IsText \/ p \in full THEN 0 ELSE 1]]
  BY DEF SessionInit
<1>4. ASSUME NEW p \in Pages
      PROVE  /\ pageRows[p] \in [full : Nat, empty : Nat]
             /\ pageRows[p].full + pageRows[p].empty <= 1
  <2>1. PICK n \in {0, 1} : n = IF p \in full THEN 1 ELSE 0
    OBVIOUS
  <2>2. PICK m \in {0, 1} : m = IF IsText \/ p \in full THEN 0 ELSE 1
    OBVIOUS
  <2>3. pageRows[p] = [full |-> n, empty |-> m] /\ n + m <= 1
    BY <1>3, <2>1, <2>2
  <2> QED
    BY <2>3
<1>5. PagesOnce
  BY <1>3, <1>4 DEF PagesOnce
<1>15. chunks = {[id |-> [run |-> 1, page |-> p], copies |-> 1, embedded |-> TRUE] : p \in Readable}
      /\ Readable \subseteq Pages
  BY DEF SessionInit, Readable
<1>6. ASSUME NEW c \in chunks
      PROVE  \E p \in Readable :
                /\ c = [id |-> [run |-> 1, page |-> p], copies |-> 1, embedded |-> TRUE]
                /\ c.id = [run |-> 1, page |-> p] /\ c.copies = 1 /\ c.embedded = TRUE
                /\ c.id.run = 1 /\ c.id.page = p
  <2>1. PICK p \in Readable : c = [id |-> [run |-> 1, page |-> p], copies |-> 1, embedded |-> TRUE]
    BY <1>15
  <2>2. c.id = [run |-> 1, page |-> p] /\ c.copies = 1 /\ c.embedded = TRUE
    BY <2>1
  <2>3. c.id.run = 1 /\ c.id.page = p
    BY <2>2
  <2> QED
    BY <2>1, <2>2, <2>3
<1>7. ASSUME NEW c \in chunks
      PROVE  ChunkForm(c) /\ c.copies = 1 /\ c.id.page \in Readable /\ c.embedded
  <2>1. PICK p \in Readable :
           /\ c = [id |-> [run |-> 1, page |-> p], copies |-> 1, embedded |-> TRUE]
           /\ c.copies = 1 /\ c.embedded = TRUE /\ c.id.run = 1 /\ c.id.page = p
    BY <1>6
  <2>2. c = [id |-> [run |-> c.id.run, page |-> c.id.page], copies |-> c.copies,
             embedded |-> c.embedded]
    BY <2>1
  <2>3. c.id.page \in Pages
    BY <1>15, <2>1
  <2>4. ChunkForm(c)
    BY <2>1, <2>2, <2>3 DEF ChunkForm
  <2> QED
    BY <2>1, <2>4
<1>8. \A c, d \in chunks : c.id.page = d.id.page => c = d
  <2>1. ASSUME NEW c \in chunks, NEW p, c.id.page = p
        PROVE  c = [id |-> [run |-> 1, page |-> p], copies |-> 1, embedded |-> TRUE]
    BY <1>6, <2>1
  <2>2. ASSUME NEW c \in chunks, NEW d \in chunks, NEW p, c.id.page = p, d.id.page = p
        PROVE  c = d
    BY <2>1, <2>2
  <2> QED
    BY <2>2
<1>9. ASSUME NEW p \in Readable PROVE \E c \in chunks : c.id.page = p
  <2>2. PICK c : c = [id |-> [run |-> 1, page |-> p], copies |-> 1, embedded |-> TRUE]
    OBVIOUS
  <2>3. c \in chunks
    BY <1>15, <2>2
  <2>4. c.id = [run |-> 1, page |-> p]
    BY <2>2
  <2>5. c.id.page = p
    BY <2>4
  <2> QED
    BY <2>3, <2>5
<1>10. ChunksMatch
  BY <1>7, <1>8, <1>9 DEF ChunksMatch
<1>11. TextWorks
  BY <1>2, <1>5, <1>7, <1>10 DEF TextWorks, StatusHolds, OneWorks
<1>12. ASSUME NEW j \in JobIds PROVE ~IsOpen(jobs[j])
  <2>1. CASE \E k \in PipelineKinds : j = StageKey(k)
    <3>1. jobs[j] = [NewRow(j[1], Doc, j) EXCEPT !.status = "completed", !.attempts = 1]
      BY <2>1 DEF SessionInit
    <3>2. jobs[j].status = "completed"
      BY <3>1 DEF NewRow
    <3> QED
      BY <3>2 DEF IsOpen, OpenStatuses
  <2>2. CASE ~\E k \in PipelineKinds : j = StageKey(k)
    BY <2>2 DEF SessionInit, Unused, IsOpen, OpenStatuses
  <2> QED
    BY <2>1, <2>2
<1>13. \A k \in PipelineKinds : Shut(k)
  BY <1>2, <1>12 DEF Shut
<1>14. TextOnce /\ AcceptsOnce
  BY <1>2, <1>11, <1>13 DEF TextOnce, AcceptsOnce, PipelineKinds
<1> QED
  BY <1>1, <1>2, <1>14 DEF TextInv

\* The invariant, always.
LEMMA TextAlways == OneAcceptAtATime => (SessionSpec /\ AcceptedIsFinal => []TextInv)
<1> SUFFICES ASSUME OneAcceptAtATime PROVE SessionSpec /\ AcceptedIsFinal => []TextInv
  OBVIOUS
<1>1. TextInv /\ [SessionNext]_allVars /\ [AcceptsHeld]_allVars => TextInv'
  BY TextStep
<1>2. AcceptedIsFinal => [][AcceptsHeld]_allVars
  BY PTL DEF AcceptedIsFinal, AcceptsHeld
<1> QED
  BY <1>1, <1>2, TextInit, PTL DEF SessionSpec

\* What a ready document holds, after one session was accepted.
LEMMA ReadyText ==
    ASSUME TextInv, AcceptedOnce, status = "ready"
    PROVE  ChunksMatch /\ \A c \in chunks : c.embedded
BY DEF TextInv, TextOnce, TextWorks, StatusHolds, DocExists

\* A document whose session was accepted once is never ready with a page's text twice:
\* stages claim the document, a stage that was opened again loses the claim, and
\* accept_session takes blocks and chunks away together.  Workers die, statements
\* fail and users delete, in any number.  If a reject overwrites an accept, the statuses
\* do not say any more how many sessions were accepted.
THEOREM SessionTextOnce ==
    OneAcceptAtATime => (SessionSpec /\ AcceptedIsFinal => [](AcceptedOnce => NoDuplicateText))
<1> SUFFICES ASSUME OneAcceptAtATime PROVE SessionSpec /\ AcceptedIsFinal => [](AcceptedOnce => NoDuplicateText)
  OBVIOUS
<1>1. TextInv => (AcceptedOnce => NoDuplicateText)
  <2> SUFFICES ASSUME TextInv, AcceptedOnce, status = "ready", NEW p \in Pages
               PROVE  /\ \A c \in chunks : c.id.page = p => c.copies = 1
                      /\ Cardinality({c \in chunks : c.id.page = p}) <= 1
    BY DEF NoDuplicateText
  <2>1. ChunksMatch
    BY ReadyText
  <2>2. PICK S : S = {c \in chunks : c.id.page = p}
    OBVIOUS
  <2>3. \A c, d \in S : c = d
    BY <2>1, <2>2 DEF ChunksMatch
  <2>4. Cardinality(S) <= 1
    <3>1. CASE S = {}
      BY <3>1, FS_EmptySet
    <3>2. ASSUME NEW c \in S PROVE Cardinality(S) <= 1
      <4>1. S = {c}
        BY <2>3
      <4>2. Cardinality({c}) = 1
        BY FS_Singleton
      <4> QED
        BY <4>1, <4>2
    <3> QED
      BY <3>1, <3>2
  <2> QED
    BY <2>1, <2>2, <2>4 DEF ChunksMatch
<1> QED
  BY <1>1, TextAlways, PTL

\* Nor with text of a page that the accept left without any: the chunks made before it
\* are gone, and none is made of what was loaded before it.
THEOREM SessionTextOnly ==
    OneAcceptAtATime => (SessionSpec /\ AcceptedIsFinal => [](AcceptedOnce => ReadyHasNothingElse))
<1> SUFFICES ASSUME OneAcceptAtATime
             PROVE  SessionSpec /\ AcceptedIsFinal => [](AcceptedOnce => ReadyHasNothingElse)
  OBVIOUS
<1>1. TextInv => (AcceptedOnce => ReadyHasNothingElse)
  <2> SUFFICES ASSUME TextInv, AcceptedOnce, status = "ready", NEW c \in chunks
               PROVE  pageRows[c.id.page].full > 0
    BY DEF ReadyHasNothingElse
  <2> QED
    BY ReadyText DEF ChunksMatch, Readable
<1> QED
  BY <1>1, TextAlways, PTL

\* Nor without a vector, or without the text of a page that has one.
THEOREM SessionTextWhole ==
    OneAcceptAtATime => (SessionSpec /\ AcceptedIsFinal => [](AcceptedOnce => ReadyIsWhole))
<1> SUFFICES ASSUME OneAcceptAtATime PROVE SessionSpec /\ AcceptedIsFinal => [](AcceptedOnce => ReadyIsWhole)
  OBVIOUS
<1>1. TextInv => (AcceptedOnce => ReadyIsWhole)
  BY ReadyText DEF ReadyIsWhole, ReadyIsEmbedded, AllEmbedded, ReadyIsComplete, ChunksMatch
<1> QED
  BY <1>1, TextAlways, PTL
=============================================================================
