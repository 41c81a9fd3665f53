------------------------------- MODULE MCChunker -------------------------------
(* Model-checking instance of Chunker.                                       *)
EXTENDS Chunker, SequencesExt, TLC

\* The cuts of a text, from the tokens of its units.
CutsOf(tokens) ==
    [u \in 1 .. Len(tokens) + 1 |-> FoldSeq(LAMBDA x, y : x + y, 0, SubSeq(tokens, 1, u - 1))]

MCBlock(type, words, tokens) == [type |-> type, words |-> words, cuts |-> CutsOf(tokens)]

\* Sentences shorter than the overlap, as long, longer, of the longest length that fits
\* beside an overlap, and longer than a chunk.
MCSentences == {1, 2, 3, 6}

\* One paragraph of up to six sentences; up to three blocks of any kind.
MCParagraphs ==
    {<<MCBlock("paragraph", 0, tokens)>> : tokens \in BoundedSeq(MCSentences, 6)}

MCBlocks ==
    {MCBlock("header", w, <<2>>) : w \in {5, 6, 10, 11}}
    \cup {MCBlock("paragraph", 0, tokens) : tokens \in {<<>>, <<3, 2>>, <<3, 2, 3>>}}
    \cup {MCBlock("table", 0, tokens) : tokens \in {<<3>>, <<3, 2, 3>>}}
    \cup {MCBlock("list", 0, tokens) : tokens \in {<<6>>, <<1, 1>>, <<1, 1, 1>>}}
    \cup {MCBlock("figure", 0, <<1>>)}

MCDocuments == MCParagraphs \cup BoundedSeq(MCBlocks, 3)

=============================================================================
