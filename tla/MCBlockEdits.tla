----------------------------- MODULE MCBlockEdits -----------------------------
(* Model-checking instances of BlockEdits.                                   *)
EXTENDS BlockEdits

CONSTANTS w1, handler1, handler2, tab, b1, b2, c1, c2, cite1

MCWorkers == {w1}
MCKinds == {"reembed_chunks"}
MCChunks == {c1, c2}
\* The second block is in both chunks.
MCBlocks == {b1, b2}
MCBlocksOf == (c1 :> {b1, b2}) @@ (c2 :> {b2})
MCOwners == (SUBSET MCChunks) \ {{}}
MCNoOwner == {}
MCCitations == {cite1}
MCChunkOf == (cite1 :> c1)
MCJobIds == 1 .. 2
MCMaxAttempts == [k \in MCKinds |-> 2]
MCHandlers == {handler1, handler2}
MCClients == {tab}
MCTypes == {"stage", "block_edited", "reembed_failed"}
MCNoKeys == {}

\* Edits among faults, without a browser; and a browser that follows an edit among
\* the events of two handlers and two lost connections.
MCBudgets ==
    {[edits |-> 2, faults |-> 0, events |-> 2, drops |-> 0, follow |-> FALSE],
     [edits |-> 1, faults |-> 2, events |-> 3, drops |-> 0, follow |-> FALSE],
     [edits |-> 0, faults |-> 0, events |-> 3, drops |-> 1, follow |-> TRUE]}

=============================================================================
