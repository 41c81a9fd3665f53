--------------------------- MODULE IngestStateMachine ---------------------------
(***************************************************************************)
(* What the ingestion pipeline promises of one document: the state machine   *)
(* of README.md, "Ingestion state machine", with the statuses of one stage    *)
(* taken together, the pages whose text has been read, and what retrieval may *)
(* see of them.  Stages go forward one at a time; text is read in the OCR      *)
(* stage only; a search finds all of it, which may be nothing, from the step   *)
(* in which the document becomes ready to the one in which it leaves that      *)
(* state, and none of it at any other time.                                  *)
(***************************************************************************)
EXTENDS Naturals

CONSTANTS Pages  \* the pages of the document

VARIABLES
    stage,       \* where the document is
    readable,    \* the pages of which text is stored
    searchable   \* the pages that retrieval finds

vars == <<stage, readable, searchable>>

\* The stages of the pipeline, in order, then the states it rests in.
InPipeline == {"uploaded", "ocr", "layout", "chunking", "embedding"}
Stages == InPipeline \cup {"absent", "ready", "failed", "deleted"}

After == [uploaded |-> "ocr", ocr |-> "layout", layout |-> "chunking",
          chunking |-> "embedding"]

Init == stage = "absent" /\ readable = {} /\ searchable = {}

\* The pages read so far stay; in the OCR stage others may come.
Reads == readable' \in SUBSET Pages /\ readable \subseteq readable'
Keeps == IF stage = "ocr" THEN Reads ELSE UNCHANGED readable

Arrive == stage = "absent" /\ stage' = "uploaded" /\ UNCHANGED <<readable, searchable>>

Read == stage = "ocr" /\ Reads /\ UNCHANGED <<stage, searchable>>

Advance ==
    /\ stage \in DOMAIN After
    /\ stage' = After[stage]
    /\ Keeps
    /\ UNCHANGED searchable

\* All that was read is found, and nothing else.
Publish ==
    /\ stage = "embedding"
    /\ stage' = "ready"
    /\ UNCHANGED readable
    /\ searchable' = readable

Fail ==
    /\ stage \in InPipeline
    /\ stage' = "failed"
    /\ UNCHANGED <<readable, searchable>>

\* The OCR job has attempts left.
Reattempt ==
    /\ stage = "failed"
    /\ stage' = "ocr"
    /\ UNCHANGED <<readable, searchable>>

\* retry, force and re-upload go back to the start, a page that is re-extracted
\* to the layout stage; what was read may be dropped.
Restart ==
    /\ stage \in {"ready", "failed"}
    /\ stage' \in {"uploaded", "layout"}
    /\ readable' \in SUBSET readable
    /\ searchable' = {}

Delete ==
    /\ stage \notin {"absent", "deleted"}
    /\ stage' = "deleted"
    /\ readable' = {} /\ searchable' = {}

Next == Arrive \/ Read \/ Advance \/ Publish \/ Fail \/ Reattempt \/ Restart \/ Delete

Spec == Init /\ [][Next]_vars

=============================================================================
