----------------------------- MODULE MCOcrRouting -----------------------------
(* Model-checking instances of Router and of OcrRouting, which uses it.       *)
EXTENDS OcrRouting, TLC

CONSTANTS ollama, haiku, sonnet, gpt, ask

MCRequests == 1 .. 3
MCProviders == {ollama, haiku, sonnet, gpt}
MCPrompts == {ask}
MCEstimate == [p \in MCProviders |-> CASE p = ollama -> 0 [] p = haiku -> 1
                                       [] p \in {sonnet, gpt} -> 2]
MCPages == 1 .. 2
MCTasks == 1 .. 2

\* As in config/router.yaml: the local model first; a tier without it; one that
\* bypasses the budget; the tier of the vision model.
MCLocalFirst == [providers |-> <<ollama, haiku>>, bypass |-> FALSE, attempts |-> 2, cached |-> TRUE]
MCPaidFirst == [providers |-> <<sonnet, haiku>>, bypass |-> FALSE, attempts |-> 1, cached |-> TRUE]
MCBypass == [providers |-> <<sonnet>>, bypass |-> TRUE, attempts |-> 1, cached |-> TRUE]
MCVision == [providers |-> <<sonnet, gpt>>, bypass |-> FALSE, attempts |-> 2, cached |-> FALSE]
MCTextTiers == {MCLocalFirst, MCPaidFirst, MCBypass}
MCTiers == MCTextTiers \cup {MCVision}

MCPaid(costs) == [p \in MCProviders |-> IF p = ollama THEN {0} ELSE costs[p]]
MCWithin == MCPaid([p \in MCProviders |-> 0 .. MCEstimate[p]])
MCBeyond == MCPaid([p \in MCProviders |-> {MCEstimate[p] + 1}])
MCExact == MCPaid([p \in MCProviders |-> {MCEstimate[p]}])
MCThree == {ollama, haiku, sonnet}

World(active, costs, n) ==
    [active |-> active, costs |-> costs, tiers |-> MCTextTiers, requests |-> n, hours |-> 0,
     restarts |-> 0, putFailures |-> 0, tasks |-> 0, image |-> FALSE]

\* Without OCR: three concurrent requests whose calls cost more than was estimated; two
\* hours with a restart; a provider without an API key, and an error of the cache.
MCTextWorlds ==
    {World(MCThree, MCBeyond, 3),
     [World(MCThree, MCWithin, 2) EXCEPT !.hours = 2, !.restarts = 1],
     [World({ollama, sonnet}, MCWithin, 2) EXCEPT !.putFailures = 1]}

\* Two tasks read the two pages of a PDF, and the process may die; another caller has a
\* request at the same time; the document is an image.
MCOcrWorlds ==
    {[World(MCThree, MCExact, 0) EXCEPT !.restarts = 1, !.tasks = 2],
     [World(MCThree, MCExact, 1) EXCEPT !.tiers = {MCPaidFirst}, !.tasks = 1],
     [World({sonnet, gpt}, MCExact, 0) EXCEPT !.tasks = 2, !.image = TRUE]}

MCWorlds == MCTextWorlds \cup MCOcrWorlds

MCWithoutOllama == {World({haiku, sonnet}, MCWithin, 1)}
\* Two concurrent requests of the tier that asks again for an answer of the wrong shape.
MCWrongShape == {[World({ollama, haiku}, MCExact, 2) EXCEPT !.tiers = {MCLocalFirst}]}
MCScarce == {[World(MCThree, MCExact, 1) EXCEPT !.tiers = {MCPaidFirst}, !.tasks = 1]}

=============================================================================
