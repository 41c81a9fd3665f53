-------------------------- MODULE MCDocumentPipeline --------------------------
(* Model-checking instances of DocumentPipeline.                             *)
EXTENDS DocumentPipeline, TLC

CONSTANTS w1, doc

MCOneWorker == {w1}
MCPdf == {"paged"}
MCText == {"text"}
MCAnyFormat == Forms
MCOwners == {doc}
MCNoPages == {}
MCOnePage == {1}
MCTwoPages == {1, 2}
MCMaxAttempts == [k \in PipelineKinds |-> 2]
MCCrash == {"crash"}
MCAbort == {"abort"}
MCCrashAbort == {"crash", "abort"}
MCAllFaults == {"crash", "lapse", "abort"}
MCNoFaults == {}
MCOperations == {"reupload", "retry", "force", "reextract", "delete"}
MCReextract == {"reextract"}
MCReupload == {"reupload"}
MCReuploadDelete == {"reupload", "delete"}
MCOnlyRetry == {"retry"}
MCNoOperations == {}

=============================================================================
