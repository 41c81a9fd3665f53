------------------------------ MODULE MCJobQueue ------------------------------
(* Model-checking instances of JobQueue.                                     *)
EXTENDS JobQueue, TLC

CONSTANTS w1, w2, doc, draft, k1

\* One job of a document, one of a draft, two workers.
MCJobIds == 1 .. 2
MCOneJob == {1}
MCWorkers == {w1, w2}
MCKinds == {"ocr", "draft_generation"}
MCOwners == {doc, draft}
MCDrafts == {draft}
MCKeys == {k1}
MCMaxAttempts == [k \in MCKinds |-> 2]
MCSlots == [k \in MCKinds |-> 1]

\* One kind: the two jobs compete for the same slot.
MCOneWorker == {w1}
MCOneKind == {"ocr"}
MCOneOwner == {doc}
MCNoDrafts == {}
MCOneKindAttempts == [k \in MCOneKind |-> 2]
MCDefaultAttempts == [k \in MCOneKind |-> 3]
MCOneKindSlots == [k \in MCOneKind |-> 1]

WorkerSymmetry == Permutations(MCWorkers)

=============================================================================
