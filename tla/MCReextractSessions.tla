-------------------------- MODULE MCReextractSessions --------------------------
(* Model-checking instances of ReextractSessions.                            *)
EXTENDS ReextractSessions, TLC

CONSTANTS w1, doc, s1, s2

MCOneWorker == {w1}
MCPdf == {"paged"}
MCText == {"text"}
MCAnyFormat == Forms
MCOwners == {doc}
MCOnePage == {1}
MCTwoPages == {1, 2}
MCOneSession == {s1}
MCTwoSessions == {s1, s2}
MCSessionKinds == PipelineKinds \cup {"page_reextract"}
MCMaxAttempts == [k \in MCSessionKinds |-> 2]
MCSessionKeys == DedupKeys \cup {<<"page_reextract", "session", s>> : s \in Sessions}
MCCrashAbort == {"crash", "abort"}
MCNoFaults == {}
MCNoOperations == {}
MCDelete == {"delete"}
MCReextract == {"reextract"}

=============================================================================
