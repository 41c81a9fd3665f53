-------------------------------- MODULE Chunker --------------------------------
(***************************************************************************)
(* The chunker (app/ingest/chunker.py): layout blocks, in reading order, are  *)
(* cut into the chunks that retrieval finds.  chunk_blocks is one pass over   *)
(* the blocks; a paragraph of more than MaxTokens tokens is split between     *)
(* sentences, and each piece starts with the end of the piece before it.      *)
(*                                                                          *)
(* The text of a block is a row of units: the sentences of a paragraph, the   *)
(* rows of a table, the items of a list.  cuts are the positions between the  *)
(* units, in tokens, as _split_at_sentences makes them in characters: unit u  *)
(* lies between cuts[u] and cuts[u + 1].  Token counts are additive here.     *)
(*                                                                          *)
(* The chunks are a set: a chunk that is made again changes nothing, where    *)
(* the list of the code grows.                                              *)
(***************************************************************************)
EXTENDS Naturals, Sequences

CONSTANTS
    MaxTokens,     \* _MAX_TOKENS
    OverlapTokens, \* _OVERLAP_TOKENS
    RowGroup,      \* _TABLE_ROW_GROUP
    ListWindow,    \* _LIST_WINDOW
    H1Words,       \* words of a header that starts a new path
    H2Words,       \* words of a header that is kept below the first one
    Documents      \* the documents that are chunked

BlockTypes == {"paragraph", "header", "table", "list", "figure"}

\* A block: its type, the words of a header, the cuts of its text.
Block == [type : BlockTypes, words : Nat, cuts : Seq(Nat)]

IsCuts(cuts) ==
    /\ cuts # <<>> /\ cuts[1] = 0
    /\ \A u, v \in 1 .. Len(cuts) : u < v => cuts[u] < cuts[v]

ASSUME TokensAssumption ==
    MaxTokens \in Nat \ {0} /\ OverlapTokens \in Nat /\ OverlapTokens <= MaxTokens
ASSUME WindowsAssumption == RowGroup \in Nat \ {0} /\ ListWindow \in Nat \ {0}
ASSUME WordsAssumption == H1Words \in Nat /\ H2Words \in Nat
ASSUME DocumentsAssumption ==
    \A d \in Documents : d \in Seq(Block) /\ \A b \in 1 .. Len(d) : IsCuts(d[b].cuts)

VARIABLES
    doc,     \* the blocks
    at,      \* the block the pass has come to
    first,   \* in a long paragraph: the first sentence in hand ...
    next,    \* ... and the first one not taken yet
    section, \* section_path, by the numbers of its header blocks
    chunks   \* the chunks made so far

vars == <<doc, at, first, next, section, chunks>>

Units(b) == Len(doc[b].cuts) - 1
Tokens(b, from, upto) == doc[b].cuts[upto + 1] - doc[b].cuts[from]

\* Units from .. upto of block b, found under a section path.
Piece(b, from, upto, path) ==
    [block |-> b, from |-> from, upto |-> upto, section |-> path]

Chunk == [block : Nat, from : Nat, upto : Nat, section : Seq(Nat)]

Whole(b, path) == {Piece(b, 1, Units(b), path)}

\* Groups of n units, the last one smaller.
Groups(b, n, path) ==
    {Piece(b, f, IF f + n - 1 < Units(b) THEN f + n - 1 ELSE Units(b), path)
        : f \in {u \in 1 .. Units(b) : (u - 1) % n = 0}}

Init ==
    /\ doc \in Documents
    /\ at = 1 /\ first = 1 /\ next = 1
    /\ section = <<>>
    /\ chunks = {}

-----------------------------------------------------------------------------
(* chunk_blocks *)

More == at <= Len(doc)
Blank(b) == Units(b) = 0
Is(type) == More /\ ~Blank(at) /\ doc[at].type = type

\* The block is done.
Advance == at' = at + 1 /\ first' = 1 /\ next' = 1 /\ UNCHANGED doc

Skip ==
    /\ More
    /\ Blank(at) \/ doc[at].type = "figure"
    /\ Advance
    /\ UNCHANGED <<section, chunks>>

\* Mutant: a header of medium length is put below whatever is there.
UpdateSectionPathAppending(path, b) ==
    IF doc[b].words <= H1Words THEN <<b>> ELSE Append(path, b)

\* _update_section_path
UpdateSectionPath(path, b) ==
    IF doc[b].words <= H1Words THEN <<b>>
    ELSE IF doc[b].words <= H2Words /\ path # <<>> THEN <<path[1], b>>
    ELSE Append(path, b)

Header ==
    /\ Is("header")
    /\ section' = UpdateSectionPath(section, at)
    /\ chunks' = chunks \cup Whole(at, section')
    /\ Advance

\* Made in one go: short paragraphs, tables and lists, and the groups of long tables
\* and lists.
Emit(pieces) ==
    /\ chunks' = chunks \cup pieces
    /\ Advance
    /\ UNCHANGED section

Long(b) == Tokens(b, 1, Units(b)) > MaxTokens

ShortParagraph == Is("paragraph") /\ ~Long(at) /\ Emit(Whole(at, section))
ShortTable == Is("table") /\ ~Long(at) /\ Emit(Whole(at, section))
LongTable == Is("table") /\ Long(at) /\ Emit(Groups(at, RowGroup, section))
ShortList == Is("list") /\ Units(at) < ListWindow /\ Emit(Whole(at, section))
LongList == Is("list") /\ Units(at) >= ListWindow /\ Emit(Groups(at, ListWindow, section))

-----------------------------------------------------------------------------
(* _split_paragraph_with_overlap *)

Splitting == Is("paragraph") /\ Long(at)

InHand == Tokens(at, first, next - 1)
\* Mutant: one token too many.
FitsAlmost(u) == InHand + Tokens(at, u, u) <= MaxTokens + 1

Fits(u) == InHand + Tokens(at, u, u) <= MaxTokens

\* The next sentence still fits.
TakeSentence ==
    /\ Splitting /\ next <= Units(at) /\ Fits(next)
    /\ next' = next + 1
    /\ UNCHANGED <<doc, at, first, section, chunks>>

\* The sentences at the tail of those in hand that make up the overlap: as many as
\* have OverlapTokens together.
IsOverlap(f) ==
    /\ Tokens(at, f, next - 1) <= OverlapTokens
    /\ \A g \in first .. f - 1 : Tokens(at, g, next - 1) > OverlapTokens

\* Mutant: the overlap is one sentence long, whatever its length.
CutKeepingOne ==
    /\ Splitting /\ next <= Units(at) /\ ~Fits(next) /\ first < next
    /\ chunks' = chunks \cup {Piece(at, first, next - 1, section)}
    /\ first' = next - 1
    /\ UNCHANGED <<doc, at, next, section>>

\* It does not: a chunk is made, and its tail stays in hand.
Cut ==
    /\ Splitting /\ next <= Units(at) /\ ~Fits(next) /\ first < next
    /\ chunks' = chunks \cup {Piece(at, first, next - 1, section)}
    /\ \E f \in first .. next : IsOverlap(f) /\ first' = f
    /\ UNCHANGED <<doc, at, next, section>>

\* Nothing is in hand: the sentence is too long, and becomes a chunk as it is.
EmitLongSentence ==
    /\ Splitting /\ next <= Units(at) /\ ~Fits(next) /\ first = next
    /\ chunks' = chunks \cup {Piece(at, next, next, section)}
    /\ first' = next + 1 /\ next' = next + 1
    /\ UNCHANGED <<doc, at, section>>

\* Mutant: what is in hand after the last sentence is not emitted.
ParagraphEndsDropping == Splitting /\ next > Units(at) /\ Emit({})

\* After the last sentence: what is in hand is the last chunk.
ParagraphEnds ==
    /\ Splitting /\ next > Units(at)
    /\ Emit(IF first < next THEN {Piece(at, first, next - 1, section)} ELSE {})

-----------------------------------------------------------------------------
Next ==
    \/ Skip \/ Header
    \/ ShortParagraph \/ ShortTable \/ LongTable \/ ShortList \/ LongList
    \/ TakeSentence \/ Cut \/ EmitLongSentence \/ ParagraphEnds

Done == ~More /\ UNCHANGED vars

Spec == Init /\ [][Next \/ Done]_vars

\* The pass goes on until it returns.
FairSpec == Spec /\ WF_vars(Next)

-----------------------------------------------------------------------------
(* Properties *)

TypeOK ==
    /\ doc \in Documents
    /\ at \in 1 .. Len(doc) + 1
    /\ first \in Nat \ {0} /\ next \in Nat \ {0} /\ first <= next
    /\ ~More => first = 1 /\ next = 1
    /\ More => next <= Units(at) + 1
    /\ section \in Seq(Nat)
    /\ \A c \in chunks : /\ c \in Chunk
                         /\ c.block \in 1 .. Len(doc) /\ c.block <= at
                         /\ c.from \in 1 .. Units(c.block)
                         /\ c.upto \in c.from .. Units(c.block)

\* Unit u of block b is in a chunk.
Covered(b, u) == \E c \in chunks : c.block = b /\ c.from <= u /\ u <= c.upto

\* Nothing that layout found is lost: every unit of a block that was passed, and every
\* sentence of the paragraph at hand up to those in hand, is in a chunk.
NothingLost ==
    /\ \A b \in 1 .. at - 1 : \A u \in 1 .. Units(b) :
          doc[b].type # "figure" => Covered(b, u)
    /\ More => \A u \in 1 .. first - 1 : Covered(at, u)

\* A chunk of a paragraph has at most MaxTokens tokens, unless it is one sentence that
\* is longer by itself.
ChunksFit ==
    \A c \in chunks :
        doc[c.block].type = "paragraph" =>
            Tokens(c.block, c.from, c.upto) <= MaxTokens \/ c.from = c.upto

HeadersUpTo(b) == {h \in 1 .. b : doc[h].type = "header" /\ ~Blank(h)}

\* The path ends with the last header up to block b, and every header in it that has
\* another before it is too long to start a path, or to be the second one.
IsSectionAt(path, b) ==
    /\ path = <<>> <=> HeadersUpTo(b) = {}
    /\ path # <<>> =>
          /\ path[Len(path)] \in HeadersUpTo(b)
          /\ \A h \in HeadersUpTo(b) : h <= path[Len(path)]
          /\ \A k \in 2 .. Len(path) : doc[path[k]].words > H1Words
          /\ \A k \in 3 .. Len(path) : doc[path[k]].words > H2Words

\* A chunk is found under the section its text stands in, whatever the pass has seen
\* since.
SectionIsLatest == \A c \in chunks : IsSectionAt(c.section, c.block)

\* A sentence fits beside an overlap.
Fitting ==
    \A b \in 1 .. Len(doc) : \A u \in 1 .. Units(b) :
        doc[b].type = "paragraph" => Tokens(b, u, u) + OverlapTokens <= MaxTokens

\* The pass ends, if every sentence fits beside an overlap ...
FittingEnds == Fitting ~> ~More

\* ... and, as the docstring of _split_paragraph_with_overlap has it, for every text.
ChunkingEnds == <>~More

=============================================================================
