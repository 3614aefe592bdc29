---------------------------- MODULE ChunkWindows ----------------------------
(***************************************************************************)
(* A file on its way into the vector store: FallbackParser partitions it    *)
(* and finds its structural blocks (fallback-parser.ts), DefaultChunker    *)
(* cuts them (default-chunker.ts), the pipeline embeds the chunks in       *)
(* batches, gives each the vector of its evidence id and stores the        *)
(* records in batches (default-ingestion-pipeline.ts).                     *)
(*                                                                         *)
(* A text is a sequence of classes of characters; whatever is cut is a     *)
(* span <<a, b>> of its positions, a > b when it is empty.  A token is     *)
(* taken for 2.5 characters: sizes of windows are in halves of one.        *)
(***************************************************************************)
EXTENDS Integers, FiniteSets, Sequences, SequencesExt, FiniteSetsExt, Functions

CONSTANTS
  Documents,       \* [kind, text, declared]: the files
  Settings,        \* ChunkingOptions: see NormalizeChunkingOptions
  DefaultContext,  \* DEFAULT_CONTEXT_WINDOW
  PartitionMax,    \* DEFAULT_PARTITION_MAX_CHARS
  EmbedSize, UpsertSize  \* the sizes of the batches

\* "n" ends a line, "s" is a space and "h" a hash.  declared: the declarations of
\* a code file, in order and without blank ends.
Character == {"x", "h", "s", "n"}
None == 0
ASSUME ChunkAssumption ==
  /\ \A d \in Documents :
       /\ d.kind \in {"code", "doc"} /\ d.text \in Seq(Character)
       /\ d.declared \in
            Seq({s \in (DOMAIN d.text) \X (DOMAIN d.text) : s[1] <= s[2]})
  /\ {EmbedSize, UpsertSize} \subseteq Nat \ {0}
\* load-config.ts takes positive integers only.
ASSUME SettingsAssumption ==
  /\ \A o \in Settings :
       {o.context, o.margin, o.tokens, o.overlap, o.depth} \subseteq Nat
  /\ DefaultContext \in Nat \ {0}

VARIABLES
  pc,       \* "next" file, "embed", "upsert" or "stored"
  file,     \* the document, or NoDocument
  setting,  \* the normalized options
  chunks,   \* its chunks, in order, in the end with their vectors
  vectors,  \* the vectors that have come: evidence id, embedded text
  done,     \* where the next batch begins, to embed and then to store
  rows,     \* the rows of the file in the store
  found     \* history: the positions of the text that stored rows quote
vars == <<pc, file, setting, chunks, vectors, done, rows, found>>

NoDocument == [kind |-> "doc", text |-> <<>>, declared |-> <<>>]
NoSetting == [max |-> 2, overlap |-> 0, depth |-> 0, policy |-> "split"]

\* tokens and context may be None.
NormalizeChunkingOptions(o) ==
  LET context == IF o.context = None THEN DefaultContext ELSE o.context
      margin == Min({o.margin, context - 1})
      tokens == IF o.tokens = None THEN Max({1, context - margin}) ELSE o.tokens
      overlap == Min({o.overlap, Max({0, tokens - 1})})
  IN [max |-> Max({2, 5 * tokens}), overlap |-> 5 * overlap,
      depth |-> o.depth, policy |-> o.policy]

------------------------------------------------------------------------------
(* Spans of the text t.                                                      *)
Span(s) == s[1]..s[2]
Size(s) == s[2] - s[1] + 1
Blank(t) == {i \in DOMAIN t : t[i] \in {"s", "n"}}
Text(t, s) == SubSeq(t, s[1], s[2])

Trimmed(t, s) ==
  LET solid == Span(s) \ Blank(t)
  IN IF solid = {} THEN <<1, 0>> ELSE <<Min(solid), Max(solid)>>
Empty(s) == s[1] > s[2]

\* The records at these positions, in their order.
InOrder(records, positions) ==
  [n \in 1..Cardinality(positions) |->
     records[CHOOSE i \in positions :
               Cardinality({j \in positions : j <= i}) = n]]

\* split: the pieces of s between the positions of a set.
Starts(s, at) == {s[1]} \cup {i + 1 : i \in at \cap Span(s)}
Piece(s, at, a) == <<a, Min({i \in at \cap Span(s) : a <= i} \cup {s[2] + 1}) - 1>>
Cut(s, at) ==
  InOrder([a \in Starts(s, at) |-> Piece(s, at, a)], Starts(s, at))
Parts(t, s, at) ==
  LET pieces == Cut(s, at)
      trimmed == [k \in DOMAIN pieces |-> Trimmed(t, pieces[k])]
  IN InOrder(trimmed, {k \in DOMAIN pieces : ~Empty(trimmed[k])})

Lines(t, s) == Cut(s, {i \in Span(s) : t[i] = "n"})
SplitMarkdownSections(t, s) ==
  Parts(t, s, {i \in s[1]..s[2] - 2 : Text(t, <<i, i + 2>>) = <<"n", "h", "s">>})
\* Blank stretches from one end of a line to another.
SplitByBlankLines(t, s) ==
  Parts(t, s, {i \in Span(s) : \E a, b \in Span(s) :
                 /\ a < b /\ t[a] = "n" /\ t[b] = "n"
                 /\ a <= i /\ i <= b /\ a..b \subseteq Blank(t)})

\* The text after the first hash that begins a line.
Untitled == <<>>
ReadSectionTitle(t, s) ==
  LET heads == {i \in s[1]..s[2] - 1 :
                  /\ t[i] = "h" /\ i + 1 \in Blank(t)
                  /\ i = s[1] \/ t[i - 1] = "n"}
      from == Min((Min(heads) + 1..s[2]) \ Blank(t))
      to == Min({i \in from..s[2] : i = s[2] \/ t[i + 1] = "n"})
  IN IF heads = {} THEN Untitled ELSE Text(t, Trimmed(t, <<from, to>>))

------------------------------------------------------------------------------
(* Windows over the lines, given as spans; line e is the first that a window *)
(* leaves out.                                                               *)
Joined(lines, i, e) == <<lines[i][1], lines[e - 1][2]>>
Length(lines, i, e) ==
  IF i = e THEN 0 ELSE Size(Joined(lines, i, e)) - (e - i - 1)
WindowEnd(lines, i, max) ==
  Max({e \in i + 1..Len(lines) + 1 :
         e = i + 1 \/ 2 * (Length(lines, i, e) + e - i) <= max})
ComputeOverlappedLineStart(lines, e, overlap) ==
  IF overlap = 0 THEN e
  ELSE Min({s \in 1..e - 1 : \/ Length(lines, s + 1, e) = 0
                             \/ 2 * Length(lines, s, e) <= overlap})

\* [span, lines: the first and the last line] of each window.
SplitCodeByLineWindows(t, s, o) ==
  LET lines == Lines(t, s)
      from[i \in 1..Len(lines)] ==
        LET e == WindowEnd(lines, i, o.max)
            cut == Trimmed(t, Joined(lines, i, e))
            next == ComputeOverlappedLineStart(lines, e, o.overlap)
        IN (IF Empty(cut) THEN <<>> ELSE <<[span |-> cut, lines |-> <<i, e - 1>>]>>)
             \o IF e > Len(lines) THEN <<>> ELSE from[Max({i + 1, next})]
  IN from[1]

\* Variant: the next window begins behind the end of this one.
WindowStartBehind(start, end, o) == Max({start + 2, end + 2 - o.overlap})

\* Where the next window of characters begins, in halves.
WindowStart(start, end, o) == Max({start + 2, end - o.overlap})

SplitByCharacterWindow(t, s, o) ==
  LET size == 2 * Size(s)
      from[start \in Nat] ==
        LET end == Min({size, start + o.max})
            cut == Trimmed(t, <<s[1] + start \div 2, s[1] + end \div 2 - 1>>)
        IN (IF Empty(cut) THEN <<>> ELSE <<cut>>)
             \o IF end >= size THEN <<>> ELSE from[WindowStart(start, end, o)]
  IN from[0]

------------------------------------------------------------------------------
(* Segments: a span and its location, [lines] of code or [offset, section];  *)
(* doc is the offset of a doc location that code has beside its lines.       *)
Segment(s, at) == [span |-> s, at |-> at, doc |-> None]
AugmentDocLocation(at, index, section) ==
  [offset |-> at.offset + index,
   section |-> IF section = Untitled THEN at.section ELSE section]
\* index counts from 0.
Located(parts, at, titles) ==
  [k \in DOMAIN parts |->
     Segment(parts[k], AugmentDocLocation(at, k - 1, titles[k]))]
Titles(t, parts) == [k \in DOMAIN parts |-> ReadSectionTitle(t, parts[k])]
NoTitles(parts) == [k \in DOMAIN parts |-> Untitled]

SplitCodeContent(t, s, at, o) ==
  LET paragraphs == SplitByBlankLines(t, s)
      windows == SplitCodeByLineWindows(t, s, o)
  IN IF Len(paragraphs) > 1
     THEN [k \in DOMAIN paragraphs |-> Segment(paragraphs[k], at)]
     ELSE [k \in DOMAIN windows |-> Segment(windows[k].span, at)]

SplitDocContent(t, s, at, o) ==
  LET sections == SplitMarkdownSections(t, s)
      paragraphs == SplitByBlankLines(t, s)
      parts == IF Len(paragraphs) > 1 THEN paragraphs
               ELSE SplitByCharacterWindow(t, s, o)
  IN IF Len(sections) > 1 THEN Located(sections, at, Titles(t, sections))
     ELSE Located(parts, at, NoTitles(parts))

\* A segment at the last depth is cut by characters.  augmentDocLocation has no
\* base for code: it answers undefined for the first window, and a location with
\* the index for each of the others.
SplitByTokens(d, segment, o) ==
  LET windows == SplitByCharacterWindow(d.text, segment.span, o)
  IN IF d.kind = "code"
     THEN [k \in DOMAIN windows |->
             [Segment(windows[k], segment.at) EXCEPT
                !.doc = IF k = 1 THEN None ELSE k - 1]]
     ELSE Located(windows, segment.at, NoTitles(windows))

\* Segments at the first depth, which are cut until they fit.
SplitOnce(d, segment, depth, o) ==
  LET s == Trimmed(d.text, segment.span)
  IN CASE Empty(s) -> <<>>
       [] ~Empty(s) /\ 2 * Size(s) <= o.max -> <<Segment(s, segment.at)>>
       [] ~Empty(s) /\ 2 * Size(s) > o.max ->
            CASE o.policy = "skip" -> <<>>
              [] o.policy # "skip" /\ depth >= o.depth ->
                   SplitByTokens(d, Segment(s, segment.at), o)
              [] OTHER -> IF d.kind = "code"
                          THEN SplitCodeContent(d.text, s, segment.at, o)
                          ELSE SplitDocContent(d.text, s, segment.at, o)

SplitSegments(d, segments, o) ==
  LET cut[n \in 0..o.depth + 1] ==
        IF n = 0 THEN segments
        ELSE LET left == cut[n - 1]
             IN FlattenSeq([k \in DOMAIN left |->
                              SplitOnce(d, left[k], n - 1, o)])
  IN cut[o.depth + 1]

------------------------------------------------------------------------------
(* FallbackParser, for code: what it answers for the partitions of a doc is  *)
(* left out.                                                                 *)
All(t) == <<1, Len(t)>>
CreatePartitions(t) ==
  IF Len(t) <= PartitionMax
  THEN <<[span |-> All(t), lines |-> <<1, Len(Lines(t, All(t)))>>]>>
  ELSE SplitCodeByLineWindows(t, All(t),
                              [max |-> 2 * PartitionMax, overlap |-> 0])

\* The declarations that a partition holds, with their lines: counted from the
\* first line of the partition, but in its trimmed text.
LineIn(t, s, i) == Cardinality({j \in s[1]..i - 1 : t[j] = "n"})
ParseStructuralBlocks(d, part) ==
  LET inside == InOrder(d.declared,
                  {k \in DOMAIN d.declared : /\ part.span[1] <= d.declared[k][1]
                                             /\ d.declared[k][2] <= part.span[2]})
      line(i) == part.lines[1] + LineIn(d.text, part.span, i)
  IN [k \in DOMAIN inside |->
        Segment(inside[k], [lines |-> <<line(inside[k][1]), line(inside[k][2])>>])]

StructuralBlocks(d) ==
  LET parts == CreatePartitions(d.text)
  IN FlattenSeq([k \in DOMAIN parts |-> ParseStructuralBlocks(d, parts[k])])

\* Variant: the first partition that the lines do not come before.
ResolvePartitionByStart(d, at) ==
  LET parts == CreatePartitions(d.text)
      holding == {k \in DOMAIN parts : parts[k].lines[1] <= at.lines[1]}
  IN IF d.kind = "doc" \/ holding = {} THEN None ELSE Min(holding)

\* The first partition that holds the lines, or None.
ResolvePartition(d, at) ==
  LET parts == CreatePartitions(d.text)
      holding == {k \in DOMAIN parts : /\ parts[k].lines[1] <= at.lines[1]
                                       /\ at.lines[2] <= parts[k].lines[2]}
  IN CASE d.kind = "doc" \/ parts = <<>> -> None
       [] d.kind = "code" /\ Len(parts) = 1 -> 1
       [] OTHER -> IF holding = {} THEN None ELSE Min(holding)

------------------------------------------------------------------------------
(* The chunks of a file.                                                     *)
CodeSegments(d, o) ==
  LET windows == SplitCodeByLineWindows(d.text, All(d.text), o)
  IN IF StructuralBlocks(d) # <<>> THEN StructuralBlocks(d)
     ELSE [k \in DOMAIN windows |->
             Segment(windows[k].span, [lines |-> windows[k].lines])]
DocSegments(d) ==
  LET sections == SplitMarkdownSections(d.text, All(d.text))
  IN [k \in DOMAIN sections |->
        Segment(sections[k], [offset |-> k - 1,
                              section |-> ReadSectionTitle(d.text, sections[k])])]

\* Variant: the evidence id has the place only.
EvidenceIdOfPlace(d, chunk) == chunk.at

\* The hash of the place and the text.
EvidenceId(d, chunk) == <<chunk.at, Text(d.text, chunk.span)>>

BuildChunk(d, segment) ==
  [span |-> segment.span, at |-> segment.at, doc |-> segment.doc,
   vector |-> <<>>, partition |-> ResolvePartition(d, segment.at)]
Chunks(d, o) ==
  LET segments == SplitSegments(d,
        IF d.kind = "code" THEN CodeSegments(d, o) ELSE DocSegments(d), o)
  IN [k \in DOMAIN segments |-> BuildChunk(d, segments[k])]

------------------------------------------------------------------------------
Init ==
  /\ pc = "next" /\ file = NoDocument /\ setting = NoSetting
  /\ chunks = <<>> /\ vectors = {} /\ done = 0 /\ rows = {} /\ found = {}

Chunk(d, options) ==
  LET o == NormalizeChunkingOptions(options)
  IN /\ pc = "next" /\ pc' = "embed"
     /\ file' = d /\ setting' = o /\ chunks' = Chunks(d, o)
     /\ UNCHANGED <<vectors, done, rows, found>>

\* The positions in chunks that no batch has reached, and those of the next.
Left == DOMAIN chunks \ 1..done
Batch(size) == Left \cap 1..done + size

EmbedBatch ==
  /\ pc = "embed" /\ Left # {}
  /\ vectors' = vectors \cup
       {[of |-> EvidenceId(file, chunks[k]),
         text |-> Text(file.text, chunks[k].span)] : k \in Batch(EmbedSize)}
  /\ done' = done + EmbedSize
  /\ UNCHANGED <<pc, file, setting, chunks, rows, found>>

\* toPersistedRecords: a vector of the evidence id, if one has come.
Record(chunk) ==
  LET own == {v \in vectors : v.of = EvidenceId(file, chunk)}
  IN [chunk EXCEPT !.vector = IF own = {} THEN <<>>
                              ELSE (CHOOSE v \in own : TRUE).text]
ToPersistedRecords ==
  /\ pc = "embed" /\ Left = {} /\ pc' = "upsert"
  /\ chunks' = [k \in DOMAIN chunks |-> Record(chunks[k])]
  /\ done' = 0
  /\ UNCHANGED <<file, setting, vectors, rows, found>>

\* mergeInsert by the key, which is made of the evidence id.
UpsertBatch ==
  LET batch == {chunks[k] : k \in Batch(UpsertSize)}
      kept == {r \in rows : \A c \in batch :
                              EvidenceId(file, c) # EvidenceId(file, r)}
      quoted == UNION {Span(c.span) : c \in batch}
      lost == UNION {Span(r.span) : r \in {r \in rows \ kept : \A c \in batch :
                  Text(file.text, c.span) # Text(file.text, r.span)}}
  IN /\ pc = "upsert" /\ Left # {}
     /\ rows' = kept \cup batch
     /\ found' = (found \ lost) \cup quoted
     /\ done' = done + UpsertSize
     /\ UNCHANGED <<pc, file, setting, chunks, vectors>>

\* The file is entered in the manifest.
Stored ==
  /\ pc = "upsert" /\ Left = {}
  /\ pc' = "stored"
  /\ UNCHANGED <<file, setting, chunks, vectors, done, rows, found>>

NextFile ==
  /\ pc = "stored" /\ pc' = "next"
  /\ file' = NoDocument /\ setting' = NoSetting
  /\ chunks' = <<>> /\ vectors' = {} /\ done' = 0 /\ rows' = {} /\ found' = {}

Next ==
  \/ \E d \in Documents, options \in Settings : Chunk(d, options)
  \/ EmbedBatch \/ ToPersistedRecords \/ UpsertBatch \/ Stored \/ NextFile
Spec == Init /\ [][Next]_vars

------------------------------------------------------------------------------
\* What the chunker is to cut: declarations if it knows of any, else all.
Given(d) ==
  IF d.kind = "code" /\ StructuralBlocks(d) # <<>>
  THEN UNION {Span(b.span) : b \in ToSet(StructuralBlocks(d))}
  ELSE DOMAIN d.text

\* No character is lost between sections, paragraphs, windows, batches and
\* equal chunks: once a file is in the manifest, every character it was to be
\* cut from that is not blank is quoted by a row, whatever the sizes, overlaps
\* and depths, unless segments that do not fit are to be skipped.
TextFound ==
  pc = "stored" /\ setting.policy = "split" =>
    Given(file) \ Blank(file.text) \subseteq found

\* Whatever the chunks and the batches are, no row gets the vector of another
\* text, and none is left out: once a file is in the manifest every chunk of it
\* is quoted by a row with its place and its text.
ChunksStored ==
  /\ \A r \in rows : r.vector = Text(file.text, r.span)
  /\ pc = "stored" => \A k \in DOMAIN chunks :
       /\ Span(chunks[k].span) \subseteq found
       /\ \E r \in rows : EvidenceId(file, r) = EvidenceId(file, chunks[k])

\* The first lines of a partition are blank: they are trimmed, and the lines of
\* its declarations are too low.
Shifted(d) ==
  \E part \in ToSet(CreatePartitions(d.text)) :
    LineIn(d.text, All(d.text), part.span[1]) + 1 # part.lines[1]

\* A search throws for a row of code that has a doc location beside its lines.
Refused(r) == r.doc # None

\* What was to be cut and could not be: longer than a window and, when there
\* were two rounds for its paragraphs and its lines, within one line.
Uncut(t, s, o) ==
  /\ 2 * Size(s) > o.max
  /\ o.depth >= 2 => \A i \in Span(s) : t[i] # "n"

\* Every row is one the embedding and the search can take, but for later windows
\* of a stretch of code that is too long: the text of a row is not empty and is
\* at most as long as a window, which may begin within a character; a row that
\* the search refuses is from such a stretch, one line with a maxSplitDepth of
\* two or more; and a row of code is from the lines and from the partition it
\* names, though it was cut from a declaration in a partition, and that from a
\* file.
RowsFit ==
  \A r \in rows :
    /\ ~Empty(r.span) /\ 2 * Size(r.span) < setting.max + 2
    /\ Refused(r) =>
         \E s \in (DOMAIN file.text) \X (DOMAIN file.text) :
           Span(r.span) \subseteq Span(s) /\ Uncut(file.text, s, setting)
    /\ file.kind = "code" /\ ~Shifted(file) =>
         LET line(i) == LineIn(file.text, All(file.text), i) + 1
         IN /\ r.at.lines[1] <= line(r.span[1])
            /\ line(r.span[2]) <= r.at.lines[2]
            /\ r.partition # None =>
                 LET part == CreatePartitions(file.text)[r.partition]
                 IN Span(r.span) \subseteq Span(part.span)
=============================================================================
