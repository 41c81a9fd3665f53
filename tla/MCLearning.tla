------------------------------- MODULE MCLearning -------------------------------
(* Model-checking instances of Learning.                                     *)
EXTENDS Learning, TLC

CONSTANTS w1, api, worker, roles, parties, partyNames

MCWorkers == {w1}
MCKinds == {"few_shot_index"}
MCEdits == 1 .. 2
MCMaxAttempts == [k \in MCKinds |-> 2]
MCProcesses == {api, worker}
MCFields == {parties}
MCRules == {roles, partyNames}
MCSimilar == {<<roles, partyNames>>}
MCNoSimilar == {}

Nothing == [saves |-> 0, deletes |-> 0, runs |-> 0, aborts |-> 0, restarts |-> 0, indexing |-> FALSE]

\* Two edits and the jobs that index them, with faults and a deletion.
MCIndexing == [Nothing EXCEPT !.saves = 2, !.deletes = 1, !.aborts = 2, !.indexing = TRUE]

\* Runs of both processes that overlap, with a restart; with a run that is rolled back.
MCOverlap == [Nothing EXCEPT !.saves = 2, !.runs = 3, !.restarts = 1]
MCRollback == [Nothing EXCEPT !.saves = 1, !.runs = 3, !.aborts = 1]

MCBudgets == {MCIndexing, MCOverlap, MCRollback}
MCRunsOnly == {MCOverlap}
MCIndexingOnly == {MCIndexing}

=============================================================================
