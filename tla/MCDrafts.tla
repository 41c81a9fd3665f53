-------------------------------- MODULE MCDrafts --------------------------------
(* Model-checking instances of Drafts.                                       *)
EXTENDS Drafts, TLC

CONSTANTS w1, r1, r2, tab1

MCWorkers == {w1}
MCKinds == {"draft_generation"}
MCOwners == {Draft}
MCNoKeys == {}
MCJobIds == {1}
MCMaxAttempts == [k \in MCKinds |-> 2]
MCRequests == {r1, r2}
MCForms == {tab1}

\* Faults and a deletion around a generation; two regenerations that overlap among
\* edits; the document is processed again under their hands; a draft of a
\* template that does not exist.
MCBudgets ==
    {[saves |-> 1, eras |-> 0, faults |-> 2, regenerate |-> FALSE, delete |-> TRUE, template |-> TRUE],
     [saves |-> 2, eras |-> 0, faults |-> 0, regenerate |-> TRUE, delete |-> FALSE, template |-> TRUE],
     [saves |-> 1, eras |-> 1, faults |-> 1, regenerate |-> TRUE, delete |-> TRUE, template |-> TRUE],
     [saves |-> 0, eras |-> 0, faults |-> 1, regenerate |-> FALSE, delete |-> TRUE, template |-> FALSE]}

=============================================================================
