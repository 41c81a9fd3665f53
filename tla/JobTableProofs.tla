---------------------------- MODULE JobTableProofs ----------------------------
(***************************************************************************)
(* Lemmas about the statements of JobTable, for every set of jobs, workers,  *)
(* kinds, owners and keys: each keeps a row a row.                            *)
(***************************************************************************)
EXTENDS JobTable, TLAPS

\* An unused id is a row.
LEMMA UnusedIsRow == Unused \in Row
BY KindsAssumption DEF Unused, Row, Statuses

\* Each statement of queue.py that rewrites one row yields a row.
LEMMA RowStatements ==
    ASSUME NEW r \in Row
    PROVE  /\ \A w \in Workers : ClaimedRow(r, w) \in Row
           /\ \A w \in Workers : HeartbeatRow(r, w) \in Row
           /\ ReclaimedRow(r) \in Row
           /\ CompletedRow(r) \in Row
           /\ \A b \in BOOLEAN : FailedRow(r, b) \in Row
           /\ CancelledRow(r) \in Row
           /\ FlaggedRow(r) \in Row
           /\ CancelRequestedForDraftRow(r) \in Row
           /\ DeletedRow(r) \in Row
<1>1. ASSUME NEW w \in Workers PROVE ClaimedRow(r, w) \in Row
  <2>1. r.attempts + 1 \in Nat
    BY DEF Row
  <2> DEFINE r1 == [r EXCEPT !.attempts = r.attempts + 1]
             r2 == [r1 EXCEPT !.worker = w]
             r3 == [r2 EXCEPT !.fresh = TRUE]
             r4 == [r3 EXCEPT !.status = "running"]
  <2>2. r1 \in Row
    BY <2>1 DEF Row
  <2>3. r2 \in Row
    BY <2>2 DEF Row
  <2>4. r3 \in Row
    BY <2>3 DEF Row
  <2>5. r4 \in Row
    BY <2>4 DEF Row, Statuses
  <2>6. ClaimedRow(r, w) = r4
    BY DEF ClaimedRow, Row
  <2> QED
    BY <2>5, <2>6
<1>2. \A w \in Workers : HeartbeatRow(r, w) \in Row
  BY DEF HeartbeatRow, Row
<1>3. ReclaimedRow(r) \in Row
  BY DEF ReclaimedRow, Row, Statuses
<1>4. CompletedRow(r) \in Row
  BY DEF CompletedRow, Row, Statuses
<1>5. \A b \in BOOLEAN : FailedRow(r, b) \in Row
  BY DEF FailedRow, FailStatus, Row, Statuses
<1>6. CancelledRow(r) \in Row
  BY DEF CancelledRow, Row, Statuses
<1>7. FlaggedRow(r) \in Row
  BY DEF FlaggedRow, Row
<1>8. CancelRequestedForDraftRow(r) \in Row
  BY <1>6, <1>7 DEF CancelRequestedForDraftRow
<1>9. DeletedRow(r) \in Row
  BY DEF DeletedRow, Row, Statuses
<1> QED
  BY <1>1, <1>2, <1>3, <1>4, <1>5, <1>6, <1>7, <1>8, <1>9

=============================================================================
