------------------------------ MODULE ChunkerProofs ------------------------------
(* What the chunker promises, proved for every document and every limit.        *)
EXTENDS Chunker, Integers, TLAPS

\* What is in hand in a long paragraph always fits in a chunk.
InHandFits == Splitting => InHand <= MaxTokens

\* The path in force is that of the headers the pass has seen.
SectionAtHand == IsSectionAt(section, at - 1)

-----------------------------------------------------------------------------
(* Documents and their texts *)

\* A document is a sequence of blocks, and the cuts of each are strictly increasing.
LEMMA DocType ==
    ASSUME NEW d \in Documents
    PROVE  /\ Len(d) \in Nat
           /\ \A b \in 1 .. Len(d) :
                 /\ d[b] \in Block
                 /\ d[b].words \in Nat
                 /\ d[b].type \in BlockTypes
                 /\ Len(d[b].cuts) \in Nat \ {0}
                 /\ \A u \in 1 .. Len(d[b].cuts) : d[b].cuts[u] \in Nat
                 /\ \A u, v \in 1 .. Len(d[b].cuts) : u < v => d[b].cuts[u] < d[b].cuts[v]
<1>1. d \in Seq(Block) /\ \A b \in 1 .. Len(d) : IsCuts(d[b].cuts)
  BY DocumentsAssumption
<1>2. Len(d) \in Nat /\ \A b \in 1 .. Len(d) : d[b] \in Block
  BY <1>1
<1>3. ASSUME NEW b \in 1 .. Len(d)
      PROVE  /\ d[b] \in Block /\ d[b].words \in Nat /\ d[b].type \in BlockTypes
             /\ Len(d[b].cuts) \in Nat \ {0}
             /\ \A u \in 1 .. Len(d[b].cuts) : d[b].cuts[u] \in Nat
             /\ \A u, v \in 1 .. Len(d[b].cuts) : u < v => d[b].cuts[u] < d[b].cuts[v]
  <2>1. d[b] \in Block /\ IsCuts(d[b].cuts)
    BY <1>1, <1>2
  <2>2. d[b].cuts \in Seq(Nat) /\ d[b].words \in Nat /\ d[b].type \in BlockTypes
    BY <2>1 DEF Block
  <2> QED
    BY <2>1, <2>2 DEF IsCuts
<1> QED
  BY <1>2, <1>3

\* The sentences, rows or items of a block are counted, and so are their tokens: a
\* row of units has as many as its parts.
LEMMA UnitsType ==
    ASSUME doc \in Documents, NEW b \in 1 .. Len(doc)
    PROVE  Units(b) \in Nat
BY DocType DEF Units

\* A range of sentences has a number of tokens, ...
LEMMA TokensType ==
    ASSUME doc \in Documents, NEW b \in 1 .. Len(doc),
           NEW f \in 1 .. Units(b) + 1, NEW g \in 1 .. Units(b) + 1, f <= g
    PROVE  Tokens(b, f, g - 1) \in Nat
<1>1. /\ Len(doc[b].cuts) \in Nat \ {0}
      /\ \A u \in 1 .. Len(doc[b].cuts) : doc[b].cuts[u] \in Nat
      /\ \A u, v \in 1 .. Len(doc[b].cuts) : u < v => doc[b].cuts[u] < doc[b].cuts[v]
  BY DocType
<1>2. f \in 1 .. Len(doc[b].cuts) /\ g \in 1 .. Len(doc[b].cuts) /\ g - 1 + 1 = g
  BY <1>1 DEF Units
<1>3. doc[b].cuts[f] \in Nat /\ doc[b].cuts[g] \in Nat /\ doc[b].cuts[f] <= doc[b].cuts[g]
  BY <1>1, <1>2
<1> QED
  BY <1>2, <1>3 DEF Tokens

\* ... to which its last sentence adds its own.
LEMMA TokensAdd ==
    ASSUME doc \in Documents, NEW b \in 1 .. Len(doc),
           NEW f \in 1 .. Units(b), NEW u \in f .. Units(b)
    PROVE  /\ Tokens(b, f, u) = Tokens(b, f, u - 1) + Tokens(b, u, u)
           /\ Tokens(b, f, f - 1) = 0
<1>1. /\ Len(doc[b].cuts) \in Nat \ {0}
      /\ \A v \in 1 .. Len(doc[b].cuts) : doc[b].cuts[v] \in Nat
  BY DocType
<1>2. /\ f \in 1 .. Len(doc[b].cuts) /\ u \in 1 .. Len(doc[b].cuts)
      /\ u + 1 \in 1 .. Len(doc[b].cuts) /\ u - 1 + 1 = u /\ f - 1 + 1 = f
  BY <1>1 DEF Units
<1> QED
  BY <1>1, <1>2 DEF Tokens

\* Every unit is in one of the groups of n units that LongTable and LongList make.
LEMMA GroupOfUnit ==
    ASSUME NEW n \in Nat \ {0}, NEW u \in Nat \ {0}
    PROVE  \E f \in 1 .. u : (f - 1) % n = 0 /\ u <= f + n - 1
<1> DEFINE r == (u - 1) % n
           q == (u - 1) \div n
           f == u - r
<1>1. r \in 0 .. n - 1 /\ q \in Nat /\ u - 1 = n * q + r
  OBVIOUS
<1>2. f \in 1 .. u /\ u <= f + n - 1 /\ f - 1 = n * q
  BY <1>1
<1>3. (n * q) % n = 0
  BY <1>1
<1> QED
  BY <1>2, <1>3

-----------------------------------------------------------------------------
(* The chunks a step makes *)

\* While blocks are left, the sentences in hand are some of the block at hand.
LEMMA AtType ==
    ASSUME TypeOK, More
    PROVE  /\ doc \in Documents /\ at \in 1 .. Len(doc)
           /\ Len(doc) \in Nat /\ at \in Nat
           /\ Units(at) \in Nat
           /\ first \in 1 .. Units(at) + 1 /\ next \in 1 .. Units(at) + 1 /\ first <= next
<1>1. doc \in Documents /\ Len(doc) \in Nat /\ at \in 1 .. Len(doc)
  BY DocType DEF TypeOK, More
<1>2. Units(at) \in Nat
  BY <1>1, UnitsType
<1> QED
  BY <1>1, <1>2 DEF TypeOK

\* They are made of the block at hand, under the section in force after the step.
FromHand(c) ==
    /\ More /\ ~Blank(at)
    /\ c \in Chunk /\ c.block = at /\ c.section = section'
    /\ c.from \in 1 .. Units(at) /\ c.upto \in c.from .. Units(at)

\* A chunk of a range of units comes from the block at hand, ...
LEMMA PieceFromHand ==
    ASSUME TypeOK, More, ~Blank(at), section' \in Seq(Nat),
           NEW f \in 1 .. Units(at), NEW u \in f .. Units(at)
    PROVE  FromHand(Piece(at, f, u, section'))
BY AtType DEF FromHand, Piece, Chunk

\* ... so does the chunk of a whole block, ...
LEMMA WholeFromHand ==
    ASSUME TypeOK, More, ~Blank(at), section' \in Seq(Nat),
           NEW c \in Whole(at, section')
    PROVE  FromHand(c)
<1>1. 1 \in 1 .. Units(at) /\ Units(at) \in 1 .. Units(at)
  BY AtType DEF Blank
<1> QED
  BY <1>1, PieceFromHand DEF Whole

\* ... and so do the windows of a table or a list.
LEMMA GroupsFromHand ==
    ASSUME TypeOK, More, ~Blank(at), section' \in Seq(Nat),
           NEW n \in Nat \ {0}, NEW c \in Groups(at, n, section')
    PROVE  FromHand(c)
<1> DEFINE last(f) == IF f + n - 1 < Units(at) THEN f + n - 1 ELSE Units(at)
<1>1. PICK f \in 1 .. Units(at) : c = Piece(at, f, last(f), section')
  BY DEF Groups
<1>2. last(f) \in f .. Units(at)
  BY AtType
<1> HIDE DEF last
<1> QED
  BY <1>1, <1>2, PieceFromHand

\* A header leaves a path of headers.
LEMMA PathType ==
    ASSUME NEW path \in Seq(Nat), NEW b \in Nat
    PROVE  UpdateSectionPath(path, b) \in Seq(Nat) \ {<<>>}
<1>1. <<b>> \in Seq(Nat) /\ <<b>> # <<>>
  OBVIOUS
<1>2. Append(path, b) \in Seq(Nat) /\ Append(path, b) # <<>>
  <2>1. Append(path, b) \in Seq(Nat) /\ Len(Append(path, b)) = Len(path) + 1 /\ Len(path) \in Nat
    OBVIOUS
  <2> QED
    BY <2>1
<1>3. path # <<>> => <<path[1], b>> \in Seq(Nat) /\ <<path[1], b>> # <<>>
  OBVIOUS
<1> QED
  BY <1>1, <1>2, <1>3 DEF UpdateSectionPath

\* A step leaves the document and the chunks that were made, and adds chunks of the
\* block at hand.
LEMMA StepChunks ==
    ASSUME TypeOK, Next
    PROVE  /\ More /\ doc' = doc /\ section' \in Seq(Nat)
           /\ chunks \subseteq chunks'
           /\ \A c \in chunks' \ chunks : FromHand(c)
<1>1. More /\ doc' = doc
  BY DEF Next, Skip, Header, ShortParagraph, ShortTable, LongTable, ShortList, LongList,
         TakeSentence, Cut, EmitLongSentence, ParagraphEnds, Emit, Advance, Splitting, Is
<1>2. section \in Seq(Nat) /\ at \in Nat
  BY <1>1, AtType DEF TypeOK
<1>3. CASE Skip
  BY <1>1, <1>2, <1>3 DEF Skip
<1>4. CASE Header
  <2>1. section' \in Seq(Nat)
    BY <1>2, <1>4, PathType DEF Header
  <2>2. chunks' = chunks \cup Whole(at, section') /\ ~Blank(at)
    BY <1>4 DEF Header, Is
  <2> QED
    BY <1>1, <2>1, <2>2, WholeFromHand
<1>5. CASE ShortParagraph \/ ShortTable \/ ShortList
  <2>1. /\ chunks' = chunks \cup Whole(at, section') /\ ~Blank(at)
        /\ section' = section
    BY <1>5 DEF ShortParagraph, ShortTable, ShortList, Emit, Is
  <2> QED
    BY <1>1, <1>2, <2>1, WholeFromHand
<1>6. CASE LongTable \/ LongList
  <2>1. PICK n \in {RowGroup, ListWindow} : chunks' = chunks \cup Groups(at, n, section')
    BY <1>6 DEF LongTable, LongList, Emit
  <2>2. ~Blank(at) /\ section' = section
    BY <1>6 DEF LongTable, LongList, Emit, Is
  <2> QED
    BY <1>1, <1>2, <2>1, <2>2, GroupsFromHand, WindowsAssumption
<1>7. CASE TakeSentence
  BY <1>1, <1>2, <1>7 DEF TakeSentence
<1>8. CASE Cut \/ ParagraphEnds
  <2>1. section' = section /\ ~Blank(at)
    BY <1>8 DEF Cut, ParagraphEnds, Emit, Splitting, Is
  <2>2. \/ chunks' = chunks
        \/ first < next /\ chunks' = chunks \cup {Piece(at, first, next - 1, section')}
    BY <1>8, <2>1 DEF Cut, ParagraphEnds, Emit
  <2>3. first < next => first \in 1 .. Units(at) /\ next - 1 \in first .. Units(at)
    BY <1>1, AtType
  <2> QED
    BY <1>1, <1>2, <2>1, <2>2, <2>3, PieceFromHand
<1>9. CASE EmitLongSentence
  <2>1. /\ section' = section /\ ~Blank(at) /\ next <= Units(at)
        /\ chunks' = chunks \cup {Piece(at, next, next, section')}
    BY <1>9 DEF EmitLongSentence, Splitting, Is
  <2>2. next \in 1 .. Units(at) /\ next \in next .. Units(at)
    BY <1>1, <2>1, AtType
  <2> QED
    BY <1>1, <1>2, <2>1, <2>2, PieceFromHand
<1> QED
  BY <1>3, <1>4, <1>5, <1>6, <1>7, <1>8, <1>9 DEF Next

\* A step either is done with the block at hand, and that block with it, or stays in a
\* long paragraph.
LEMMA StepMoves ==
    ASSUME TypeOK, Next
    PROVE  \/ Advance
           \/ /\ Splitting /\ UNCHANGED <<doc, at, section>>
              /\ first' \in first .. next' /\ next' \in next .. Units(at) + 1
<1>1. CASE \/ Skip \/ Header \/ ShortParagraph \/ ShortTable \/ LongTable \/ ShortList
           \/ LongList \/ ParagraphEnds
  BY <1>1 DEF Skip, Header, ShortParagraph, ShortTable, LongTable, ShortList, LongList,
              ParagraphEnds, Emit
<1>2. CASE TakeSentence \/ Cut \/ EmitLongSentence
  <2>1. Splitting /\ UNCHANGED <<doc, at, section>> /\ next <= Units(at) /\ More
    BY <1>2 DEF TakeSentence, Cut, EmitLongSentence, Splitting, Is
  <2>2. first \in Nat /\ next \in Nat /\ Units(at) \in Nat /\ first <= next
    BY <2>1, AtType
  <2>3. /\ first' = first \/ (first' = next + 1 /\ next' = next + 1) \/ first' \in first .. next
        /\ next' = next \/ next' = next + 1
    BY <1>2 DEF TakeSentence, Cut, EmitLongSentence
  <2> QED
    BY <2>1, <2>2, <2>3
<1> QED
  BY <1>1, <1>2 DEF Next

-----------------------------------------------------------------------------
(* Types *)

\* The first block has the types.
LEMMA InitType == Init => TypeOK
<1> SUFFICES ASSUME Init PROVE TypeOK
  OBVIOUS
<1>1. doc \in Documents /\ Len(doc) \in Nat
  BY DocType DEF Init
<1>2. More => Units(at) \in Nat
  BY <1>1, UnitsType DEF Init, More
<1>3. section \in Seq(Nat)
  BY DEF Init
<1> QED
  BY <1>1, <1>2, <1>3 DEF Init, TypeOK

\* Every branch of the loops keeps the types.
LEMMA StepType == TypeOK /\ [Next \/ Done]_vars => TypeOK'
<1> SUFFICES ASSUME TypeOK, [Next \/ Done]_vars PROVE TypeOK'
  OBVIOUS
<1>1. CASE Next
  <2>1. /\ More /\ doc' = doc /\ section' \in Seq(Nat)
        /\ \A c \in chunks' \ chunks : FromHand(c)
    BY <1>1, StepChunks
  <2>2. /\ doc' \in Documents /\ at \in 1 .. Len(doc) /\ Len(doc) \in Nat
    BY <2>1, AtType
  <2>3. Units(at)' = Units(at') /\ \A b : Units(b)' = Units(b)
    BY <2>1 DEF Units
  <2>4. at' \in {at, at + 1}
    BY <1>1, StepMoves DEF Advance
  <2>5. /\ at' \in 1 .. Len(doc') + 1
        /\ first' \in Nat \ {0} /\ next' \in Nat \ {0} /\ first' <= next'
        /\ (~More)' => first' = 1 /\ next' = 1
        /\ More' => next' <= Units(at)' + 1
    <3>1. CASE Advance
      <4>1. at' = at + 1 /\ first' = 1 /\ next' = 1
        BY <3>1 DEF Advance
      <4>2. More' => at' \in 1 .. Len(doc)
        BY <4>1, <2>1, <2>2 DEF More
      <4>3. More' => Units(at') \in Nat
        BY <4>2, <2>2, <2>1, UnitsType
      <4> QED
        BY <4>1, <4>3, <2>1, <2>2, <2>3
    <3>2. CASE /\ Splitting /\ UNCHANGED <<doc, at, section>>
               /\ first' \in first .. next' /\ next' \in next .. Units(at) + 1
      <4>1. /\ first \in 1 .. Units(at) + 1 /\ next \in 1 .. Units(at) + 1
            /\ Units(at) \in Nat
        BY <2>1, AtType
      <4> QED
        BY <4>1, <3>2, <2>1, <2>2, <2>3 DEF More
    <3> QED
      BY <1>1, <3>1, <3>2, StepMoves
  <2>6. ASSUME NEW c \in chunks'
        PROVE  /\ c \in Chunk
               /\ c.block \in 1 .. Len(doc') /\ c.block <= at'
               /\ c.from \in 1 .. Units(c.block)'
               /\ c.upto \in c.from .. Units(c.block)'
    <3>1. CASE c \in chunks
      BY <3>1, <2>1, <2>2, <2>3, <2>4 DEF TypeOK
    <3>2. CASE c \notin chunks
      BY <3>2, <2>1, <2>2, <2>3, <2>4 DEF FromHand
    <3> QED
      BY <3>1, <3>2
  <2> QED
    BY <2>1, <2>2, <2>5, <2>6 DEF TypeOK
<1>2. CASE UNCHANGED vars
  BY <1>2 DEF vars, TypeOK, More, Units
<1> QED
  BY <1>1, <1>2 DEF Done

\* The positions in the document and in a paragraph stay within them, and a chunk is a
\* row of units of a block that the pass has come to.
THEOREM TypeCorrect == Spec => []TypeOK
BY InitType, StepType, PTL DEF Spec

-----------------------------------------------------------------------------
(* Nothing is lost *)

InChunk(c, b, u) == c.block = b /\ c.from <= u /\ u <= c.upto

\* A block that is passed in one go is in the chunks of that step.
LEMMA WholeCovers ==
    ASSUME TypeOK, More, NEW path, NEW u \in 1 .. Units(at)
    PROVE  \E c \in Whole(at, path) : InChunk(c, at, u)
BY AtType DEF Whole, Piece, InChunk

\* Every row or item is in a window.
LEMMA GroupsCover ==
    ASSUME TypeOK, More, NEW path, NEW n \in Nat \ {0}, NEW u \in 1 .. Units(at)
    PROVE  \E c \in Groups(at, n, path) : InChunk(c, at, u)
<1> DEFINE last(f) == IF f + n - 1 < Units(at) THEN f + n - 1 ELSE Units(at)
<1>1. Units(at) \in Nat /\ u \in Nat \ {0}
  BY AtType
<1>2. PICK f \in 1 .. u : (f - 1) % n = 0 /\ u <= f + n - 1
  BY <1>1, GroupOfUnit
<1>3. f \in 1 .. Units(at) /\ f <= u /\ u <= last(f)
  BY <1>1, <1>2
<1>4. Piece(at, f, last(f), path) \in Groups(at, n, path)
  BY <1>2, <1>3 DEF Groups
<1> HIDE DEF last
<1> QED
  BY <1>3, <1>4 DEF InChunk, Piece

\* When a block is done, all of it is in a chunk ...
LEMMA BlockCovered ==
    ASSUME TypeOK, NothingLost, Next, Advance, doc[at].type # "figure",
           NEW u \in 1 .. Units(at)
    PROVE  \E c \in chunks' : InChunk(c, at, u)
<1>1. More /\ chunks \subseteq chunks'
  BY StepChunks
<1>2. Units(at) \in Nat /\ first \in Nat /\ next \in 1 .. Units(at) + 1 /\ at \in Nat
  BY <1>1, AtType
<1>3. CASE Skip
  BY <1>2, <1>3 DEF Skip, Blank
<1>4. CASE Header \/ ShortParagraph \/ ShortTable \/ ShortList
  <2>1. PICK path : Whole(at, path) \subseteq chunks'
    BY <1>4 DEF Header, ShortParagraph, ShortTable, ShortList, Emit
  <2> QED
    BY <1>1, <2>1, WholeCovers
<1>5. CASE LongTable \/ LongList
  <2>1. PICK n \in {RowGroup, ListWindow} : Groups(at, n, section) \subseteq chunks'
    BY <1>5 DEF LongTable, LongList, Emit
  <2> QED
    BY <1>1, <2>1, GroupsCover, WindowsAssumption
<1>6. CASE TakeSentence \/ Cut \/ EmitLongSentence
  BY <1>2, <1>6 DEF TakeSentence, Cut, EmitLongSentence, Advance
<1>7. CASE ParagraphEnds
  <2>1. next = Units(at) + 1
    BY <1>2, <1>7 DEF ParagraphEnds
  <2>2. CASE u < first
    <3>1. Covered(at, u)
      BY <1>1, <1>2, <2>2 DEF NothingLost
    <3> QED
      BY <1>1, <3>1 DEF Covered, InChunk
  <2>3. CASE first <= u
    <3>1. Piece(at, first, next - 1, section) \in chunks'
      BY <1>2, <1>7, <2>1, <2>3 DEF ParagraphEnds, Emit
    <3> QED
      BY <1>2, <2>1, <2>3, <3>1 DEF InChunk, Piece
  <2> QED
    BY <1>2, <2>2, <2>3
<1> QED
  BY <1>3, <1>4, <1>5, <1>6, <1>7 DEF Next

\* ... and so is, in a long paragraph, what is no longer in hand.
LEMMA SentencesCovered ==
    ASSUME TypeOK, NothingLost, Next, UNCHANGED at,
           NEW u \in 1 .. first' - 1
    PROVE  \E c \in chunks' : InChunk(c, at, u)
<1>1. More /\ chunks \subseteq chunks'
  BY StepChunks
<1>2. first \in Nat /\ next \in Nat /\ first <= next /\ at \in Nat /\ Units(at) \in Nat
  BY <1>1, AtType
<1>3. TakeSentence \/ Cut \/ EmitLongSentence
  BY <1>2 DEF Next, Skip, Header, ShortParagraph, ShortTable, LongTable, ShortList,
              LongList, ParagraphEnds, Emit, Advance
<1>4. CASE u < first
  <2>1. Covered(at, u)
    BY <1>1, <1>2, <1>4 DEF NothingLost
  <2> QED
    BY <1>1, <2>1 DEF Covered, InChunk
<1>5. CASE first <= u
  <2>1. CASE Cut
    <3>1. Piece(at, first, next - 1, section) \in chunks' /\ u <= next - 1
      BY <1>2, <1>5, <2>1 DEF Cut
    <3> QED
      BY <1>5, <3>1 DEF InChunk, Piece
  <2>2. CASE EmitLongSentence
    <3>1. Piece(at, next, next, section) \in chunks' /\ u = next
      BY <1>2, <1>5, <2>2 DEF EmitLongSentence
    <3> QED
      BY <1>2, <3>1 DEF InChunk, Piece
  <2>3. CASE TakeSentence
    BY <1>2, <1>5, <2>3 DEF TakeSentence
  <2> QED
    BY <1>3, <2>1, <2>2, <2>3
<1> QED
  BY <1>2, <1>4, <1>5

\* Every branch of the loops puts what it passes into a chunk.
LEMMA StepLosesNothing == TypeOK /\ NothingLost /\ [Next \/ Done]_vars => NothingLost'
<1> SUFFICES ASSUME TypeOK, NothingLost, [Next \/ Done]_vars PROVE NothingLost'
  OBVIOUS
<1>1. CASE Next
  <2>1. More /\ doc' = doc /\ chunks \subseteq chunks'
    BY <1>1, StepChunks
  <2>2. at \in Nat /\ Units(at) \in Nat
    BY <2>1, AtType
  <2>3. \A b : Units(b)' = Units(b)
    BY <2>1 DEF Units
  <2>4. \A b, u : Covered(b, u) => Covered(b, u)'
    BY <2>1 DEF Covered
  <2>5. CASE Advance
    <3>1. at' = at + 1 /\ first' = 1
      BY <2>5 DEF Advance
    <3>2. ASSUME NEW b \in 1 .. at, NEW u \in 1 .. Units(b), doc[b].type # "figure"
          PROVE  Covered(b, u)'
      <4>1. CASE b = at
        BY <1>1, <2>5, <3>2, <4>1, BlockCovered DEF Covered, InChunk
      <4>2. CASE b \in 1 .. at - 1
        BY <2>4, <3>2, <4>2 DEF NothingLost
      <4> QED
        BY <2>2, <4>1, <4>2
    <3> QED
      BY <2>1, <2>2, <2>3, <3>1, <3>2 DEF NothingLost
  <2>6. CASE UNCHANGED <<doc, at, section>>
    <3>1. \A u \in 1 .. first' - 1 : Covered(at, u)'
      BY <1>1, <2>6, SentencesCovered DEF Covered, InChunk
    <3>2. \A b \in 1 .. at - 1 : \A u \in 1 .. Units(b) :
              doc[b].type # "figure" => Covered(b, u)'
      BY <2>4 DEF NothingLost
    <3> QED
      BY <2>1, <2>3, <2>6, <3>1, <3>2 DEF NothingLost
  <2> QED
    BY <1>1, <2>5, <2>6, StepMoves
<1>2. CASE UNCHANGED vars
  BY <1>2 DEF vars, NothingLost, Covered, More, Units
<1> QED
  BY <1>1, <1>2 DEF Done

\* Nothing that layout found is lost to retrieval: once a block was passed, every one
\* of its sentences, rows or items is in a chunk, wherever the cuts fell.
THEOREM NothingIsLost == Spec => []NothingLost
<1>1. Init => NothingLost
  BY DEF Init, NothingLost
<1> QED
  BY <1>1, StepLosesNothing, TypeCorrect, PTL DEF Spec

-----------------------------------------------------------------------------
(* Chunks are small enough *)

Fit(c) ==
    doc[c.block].type = "paragraph" =>
        Tokens(c.block, c.from, c.upto) <= MaxTokens \/ c.from = c.upto

\* The chunks of a step fit, if what is in hand does.
LEMMA NewChunksFit ==
    ASSUME TypeOK, InHandFits, Next, NEW c \in chunks' \ chunks
    PROVE  Fit(c)
<1>1. More /\ c.block = at
  BY StepChunks DEF FromHand
<1>2. CASE Header \/ ShortTable \/ LongTable \/ ShortList \/ LongList
  BY <1>1, <1>2 DEF Header, ShortTable, LongTable, ShortList, LongList, Is, Fit
<1>3. CASE Skip \/ TakeSentence
  BY <1>3 DEF Skip, TakeSentence
<1>4. CASE ShortParagraph
  <2>1. c = Piece(at, 1, Units(at), section) /\ ~Long(at)
    BY <1>4 DEF ShortParagraph, Emit, Whole
  <2>2. Tokens(at, 1, Units(at)) <= MaxTokens
    <3>1. doc \in Documents /\ at \in 1 .. Len(doc) /\ Units(at) \in Nat
      BY <1>1, AtType
    <3>2. 1 \in 1 .. Units(at) + 1 /\ Units(at) + 1 \in 1 .. Units(at) + 1
          /\ Units(at) + 1 - 1 = Units(at)
      BY <3>1
    <3>3. Tokens(at, 1, Units(at) + 1 - 1) \in Nat
      BY <3>1, <3>2, TokensType
    <3> QED
      BY <2>1, <3>2, <3>3, TokensAssumption DEF Long
  <2> QED
    BY <2>1, <2>2 DEF Fit, Piece
<1>5. CASE Cut \/ ParagraphEnds
  <2>1. c = Piece(at, first, next - 1, section) /\ Splitting
    BY <1>5 DEF Cut, ParagraphEnds, Emit
  <2> QED
    BY <2>1 DEF InHandFits, InHand, Fit, Piece
<1>6. CASE EmitLongSentence
  BY <1>6 DEF EmitLongSentence, Fit, Piece
<1> QED
  BY <1>2, <1>3, <1>4, <1>5, <1>6 DEF Next

\* A sentence is taken only if it still fits, and an overlap is no longer than a chunk.
LEMMA StepKeepsHand == TypeOK /\ InHandFits /\ Next => InHandFits'
<1> SUFFICES ASSUME TypeOK, InHandFits, Next, Splitting' PROVE InHand' <= MaxTokens
  BY DEF InHandFits
<1>1. doc' = doc /\ More
  BY StepChunks
<1>2. /\ doc \in Documents /\ at \in 1 .. Len(doc) /\ Units(at) \in Nat
      /\ first \in 1 .. Units(at) + 1 /\ next \in 1 .. Units(at) + 1 /\ first <= next
  BY <1>1, AtType
<1>3. CASE Advance
  <2>1. at' = at + 1 /\ first' = 1 /\ next' = 1
    BY <1>3 DEF Advance
  <2>2. at' \in 1 .. Len(doc) /\ ~Blank(at)'
    BY <1>1, <1>2, <2>1 DEF Splitting, Is, More
  <2>3. Units(at)' = Units(at') /\ Units(at') \in Nat /\ Units(at') # 0
    BY <1>1, <1>2, <2>2, UnitsType DEF Units, Blank
  <2>4. Tokens(at', 1, 1 - 1) = 0
    <3>1. 1 \in 1 .. Units(at') /\ 1 \in 1 .. Units(at')
      BY <2>3
    <3> QED
      BY <1>2, <2>2, <3>1, TokensAdd
  <2>5. InHand' = Tokens(at', 1, 1 - 1)
    BY <1>1, <2>1 DEF InHand, Tokens
  <2> QED
    BY <2>4, <2>5, TokensAssumption
<1>4. CASE TakeSentence
  <2>1. /\ next \in first .. Units(at) /\ first \in 1 .. Units(at)
        /\ Fits(next) /\ first' = first /\ next' = next + 1 /\ at' = at
    BY <1>2, <1>4 DEF TakeSentence
  <2>2. Tokens(at, first, next) = InHand + Tokens(at, next, next)
    BY <1>2, <2>1, TokensAdd DEF InHand
  <2>3. InHand' = Tokens(at, first, next)
    <3>1. next + 1 - 1 = next
      BY <1>2
    <3> QED
      BY <1>1, <2>1, <3>1 DEF InHand, Tokens
  <2> QED
    BY <2>1, <2>2, <2>3 DEF Fits
<1>5. CASE Cut
  <2>1. PICK f \in first .. next : IsOverlap(f) /\ first' = f
    BY <1>5 DEF Cut
  <2>2. InHand' = Tokens(at, f, next - 1)
    BY <1>1, <1>5, <2>1 DEF Cut, InHand, Tokens
  <2>3. Tokens(at, f, next - 1) <= OverlapTokens
    BY <2>1 DEF IsOverlap
  <2>4. Tokens(at, f, next - 1) \in Nat
    <3>1. f \in 1 .. Units(at) + 1 /\ f <= next
      BY <1>2, <2>1
    <3> QED
      BY <1>2, <3>1, TokensType
  <2> QED
    BY <2>2, <2>3, <2>4, TokensAssumption
<1>6. CASE EmitLongSentence
  <2>1. next \in 1 .. Units(at) /\ first' = next + 1 /\ next' = next + 1 /\ at' = at
    BY <1>2, <1>6 DEF EmitLongSentence
  <2>2. InHand' = Tokens(at, next + 1, next)
    <3>1. next + 1 - 1 = next
      BY <1>2
    <3> QED
      BY <1>1, <2>1, <3>1 DEF InHand, Tokens
  <2>3. Tokens(at, next + 1, next) = 0
    BY <1>2, <2>1, DocType DEF Tokens, Units
  <2> QED
    BY <2>2, <2>3, TokensAssumption
<1> QED
  BY <1>3, <1>4, <1>5, <1>6
  DEF Next, Skip, Header, ShortParagraph, ShortTable, LongTable, ShortList, LongList,
      ParagraphEnds, Emit

\* Retrieval and the prompts count on it: a chunk of a paragraph has at most MaxTokens
\* tokens, its overlap included, unless it is one sentence that is longer by itself.
THEOREM ChunksAreSmall == Spec => []ChunksFit
<1>1. Init /\ TypeOK => ChunksFit /\ InHandFits
  <2> SUFFICES ASSUME Init, TypeOK, Splitting PROVE InHand <= MaxTokens
    BY DEF Init, ChunksFit, InHandFits
  <2>1. /\ doc \in Documents /\ at \in 1 .. Len(doc) /\ Units(at) \in Nat
        /\ Units(at) # 0 /\ first = 1 /\ next = 1
    BY AtType DEF Splitting, Is, Blank, Init
  <2>2. Tokens(at, 1, 1 - 1) = 0
    <3>1. 1 \in 1 .. Units(at)
      BY <2>1
    <3> QED
      BY <2>1, <3>1, TokensAdd
  <2> QED
    BY <2>1, <2>2, TokensAssumption DEF InHand
<1>2. TypeOK /\ ChunksFit /\ InHandFits /\ [Next \/ Done]_vars => (ChunksFit /\ InHandFits)'
  <2> SUFFICES ASSUME TypeOK, ChunksFit, InHandFits, [Next \/ Done]_vars
               PROVE  ChunksFit' /\ InHandFits'
    OBVIOUS
  <2>1. CASE Next
    <3>1. doc' = doc
      BY <2>1, StepChunks
    <3>2. \A c \in chunks' : Fit(c)
      BY <2>1, NewChunksFit DEF ChunksFit, Fit
    <3>3. ChunksFit'
      BY <3>1, <3>2 DEF ChunksFit, Fit, Tokens
    <3> QED
      BY <2>1, <3>3, StepKeepsHand
  <2>2. CASE UNCHANGED vars
    BY <2>2 DEF vars, ChunksFit, InHandFits, InHand, Tokens, Splitting, Is, More, Blank, Long, Units
  <2> QED
    BY <2>1, <2>2 DEF Done
<1> QED
  BY <1>1, <1>2, TypeCorrect, PTL DEF Spec

-----------------------------------------------------------------------------
(* Sections *)

\* A block that is no header leaves the path in force, ...
LEMMA SameSection ==
    ASSUME TypeOK, More, SectionAtHand, ~Is("header")
    PROVE  IsSectionAt(section, at)
<1>1. at \in Nat /\ HeadersUpTo(at) = HeadersUpTo(at - 1)
  BY AtType DEF HeadersUpTo, Is
<1> QED
  BY <1>1 DEF SectionAtHand, IsSectionAt

\* ... and one that is a header is the end of the new one.
LEMMA NewSection ==
    ASSUME TypeOK, SectionAtHand, Is("header")
    PROVE  IsSectionAt(UpdateSectionPath(section, at), at)
<1> DEFINE new == UpdateSectionPath(section, at)
<1> SUFFICES IsSectionAt(new, at)
  OBVIOUS
<1>1. /\ More /\ at \in 1 .. Len(doc) /\ Len(doc) \in Nat /\ section \in Seq(Nat)
      /\ doc[at].words \in Nat
  BY AtType, DocType DEF Is, TypeOK
<1>2. /\ at \in HeadersUpTo(at)
      /\ \A h \in HeadersUpTo(at) : h <= at
  BY <1>1 DEF HeadersUpTo, Is
<1>3. CASE new = <<at>>
  BY <1>2, <1>3 DEF IsSectionAt
<1>4. CASE /\ section # <<>> /\ new = <<section[1], at>>
           /\ ~(doc[at].words <= H1Words)
  <2>1. Len(new) = 2 /\ new[2] = at /\ new # <<>> /\ doc[at].words > H1Words
    BY <1>1, <1>4, WordsAssumption
  <2> HIDE DEF new
  <2> QED
    BY <1>2, <2>1 DEF IsSectionAt
<1>5. CASE /\ section # <<>> /\ new = Append(section, at)
           /\ ~(doc[at].words <= H1Words) /\ ~(doc[at].words <= H2Words)
  <2>1. /\ Len(section) \in Nat \ {0} /\ Len(new) = Len(section) + 1 /\ new # <<>>
        /\ new[Len(new)] = at
        /\ \A k \in 1 .. Len(section) : new[k] = section[k]
    BY <1>1, <1>5
  <2>2. doc[at].words > H1Words /\ doc[at].words > H2Words
    BY <1>1, <1>5, WordsAssumption
  <2>3. /\ \A k \in 2 .. Len(section) : doc[section[k]].words > H1Words
        /\ \A k \in 3 .. Len(section) : doc[section[k]].words > H2Words
    BY <1>5 DEF SectionAtHand, IsSectionAt
  <2> HIDE DEF new
  <2>4. /\ \A k \in 2 .. Len(new) : doc[new[k]].words > H1Words
        /\ \A k \in 3 .. Len(new) : doc[new[k]].words > H2Words
    BY <2>1, <2>2, <2>3
  <2> QED
    BY <1>2, <2>1, <2>4 DEF IsSectionAt
<1>6. CASE section = <<>>
  <2>1. new = <<at>>
    BY <1>1, <1>6 DEF UpdateSectionPath
  <2> QED
    BY <1>3, <2>1
<1> QED
  BY <1>3, <1>4, <1>5, <1>6 DEF UpdateSectionPath

\* Every branch keeps the path that of the headers passed.
LEMMA StepKeepsSection ==
    ASSUME TypeOK, SectionAtHand, Next
    PROVE  IsSectionAt(section', at) /\ SectionAtHand'
<1>1. More /\ doc' = doc /\ at \in Nat
  BY StepChunks, AtType
<1>2. IsSectionAt(section', at)
  <2>1. CASE Header
    BY <2>1, NewSection DEF Header
  <2>2. CASE ~Header
    <3>1. section' = section /\ ~Is("header")
      BY <2>2 DEF Next, Skip, Header, ShortParagraph, ShortTable, LongTable, ShortList,
                  LongList, TakeSentence, Cut, EmitLongSentence, ParagraphEnds, Emit,
                  Splitting, Is, Blank, Advance
    <3> QED
      BY <1>1, <3>1, SameSection
  <2> QED
    BY <2>1, <2>2
<1>3. CASE Advance
  <2>1. at' - 1 = at
    BY <1>1, <1>3 DEF Advance
  <2> QED
    BY <1>1, <1>2, <2>1 DEF SectionAtHand, IsSectionAt, HeadersUpTo, Blank, Units
<1>4. CASE UNCHANGED <<doc, at, section>>
  BY <1>1, <1>2, <1>4 DEF SectionAtHand, IsSectionAt, HeadersUpTo, Blank, Units
<1> QED
  BY <1>2, <1>3, <1>4, StepMoves

\* A chunk is shown and cited under the section its text stands in, whatever headers
\* follow.
THEOREM SectionsAreLatest == Spec => []SectionIsLatest
<1>1. Init => SectionIsLatest /\ SectionAtHand
  BY DEF Init, SectionIsLatest, SectionAtHand, IsSectionAt, HeadersUpTo
<1>2. TypeOK /\ SectionIsLatest /\ SectionAtHand /\ [Next \/ Done]_vars
        => (SectionIsLatest /\ SectionAtHand)'
  <2> SUFFICES ASSUME TypeOK, SectionIsLatest, SectionAtHand, [Next \/ Done]_vars
               PROVE  SectionIsLatest' /\ SectionAtHand'
    OBVIOUS
  <2>1. CASE Next
    <3>1. doc' = doc /\ \A c \in chunks' \ chunks : c.block = at /\ c.section = section'
      BY <2>1, StepChunks DEF FromHand
    <3>2. IsSectionAt(section', at) /\ SectionAtHand'
      BY <2>1, StepKeepsSection
    <3>3. \A c \in chunks' : IsSectionAt(c.section, c.block)
      BY <3>1, <3>2 DEF SectionIsLatest
    <3> QED
      BY <3>1, <3>2, <3>3 DEF SectionIsLatest, IsSectionAt, HeadersUpTo, Blank, Units
  <2>2. CASE UNCHANGED vars
    BY <2>2 DEF vars, SectionIsLatest, SectionAtHand, IsSectionAt, HeadersUpTo, Blank, Units
  <2> QED
    BY <2>1, <2>2 DEF Done
<1> QED
  BY <1>1, <1>2, TypeCorrect, PTL DEF Spec

=============================================================================
