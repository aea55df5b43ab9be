---------------------------- MODULE Segmentation ----------------------------
(***************************************************************************)
(* A parsed document is cut into units: the block map its parser attaches  *)
(* to it is validated, and each section is cut by SegmentationRules, in    *)
(* document order. A number that does not fit refuses the document.        *)
(***************************************************************************)
EXTENDS SegmentationRules

CONSTANTS
  Parsed,         \* documents: sequences of the texts of their sections, in document order
  BlockMaps(_),   \* the maps a parser may attach to a document
  MaxOffset       \* the largest compact offset

VARIABLES
  parsed,         \* the texts of the sections
  blockMap,       \* the validated map, or NoMap
  segments,       \* the sections segmented so far
  unitsDone,      \* [paragraphs, sentences]: units numbered so far in the document
  segStage        \* "parsed" -> "segmenting" -> "segmented"; or "refused", "overflow"

segVars == <<parsed, blockMap, segments, unitsDone, segStage>>

\* compact_offset: a number that does not fit is an error. An index is never beyond the end of its range.
Overflows(segment) ==
  \E unit \in ToSet(segment.paragraphs) \cup ToSet(segment.sentences) :
    unit.order > MaxOffset \/ unit.range.end > MaxOffset

-----------------------------------------------------------------------------
(* Steps                                                                   *)

SegInit ==
  /\ parsed \in Parsed /\ blockMap = NoMap
  /\ segments = <<>> /\ unitsDone = NoneDone /\ segStage = "parsed"

\* set_normalized_block_map: a map that is not valid refuses the document.
SetBlockMap ==
  /\ segStage = "parsed"
  /\ \E map \in BlockMaps(parsed) :
       IF ValidMap(map, parsed) THEN blockMap' = map /\ segStage' = "segmenting"
       ELSE blockMap' = blockMap /\ segStage' = "refused"
  /\ UNCHANGED <<parsed, segments, unitsDone>>

WithoutBlockMap ==
  /\ segStage = "parsed" /\ segStage' = "segmenting"
  /\ UNCHANGED <<parsed, blockMap, segments, unitsDone>>

\* build_segmentation: the next section, in document order.
SegmentNext ==
  /\ segStage = "segmenting" /\ Len(segments) < Len(parsed)
  /\ LET i       == Len(segments) + 1
         segment == SegmentSection(i, parsed[i], SectionBlocks(blockMap, i), unitsDone)
     IN  IF Overflows(segment)
         THEN segStage' = "overflow" /\ UNCHANGED <<segments, unitsDone>>
         ELSE /\ segments' = Append(segments, segment)
              /\ unitsDone' = UnitsAfter(unitsDone, segment)
              /\ segStage' = IF i = Len(parsed) THEN "segmented" ELSE segStage
  /\ UNCHANGED <<parsed, blockMap>>

SegNext == SetBlockMap \/ WithoutBlockMap \/ SegmentNext

-----------------------------------------------------------------------------
(* Properties *)

InOrder(ranges) == \A n \in 1..Len(ranges) - 1 : ranges[n].end <= ranges[n + 1].start

\* The ranges lie in [start, end) and leave nothing but white space out of it.
CoverVisible(text, start, end, ranges) ==
  /\ InOrder(ranges)
  /\ \A n \in 1..Len(ranges) : start <= ranges[n].start /\ ranges[n].end <= end
  /\ \A at \in start..end - 1 :
       CharAt(text, at) \in Space \/ \E n \in 1..Len(ranges) : at \in ranges[n].start..ranges[n].end - 1

Within(text, range) == \A at \in {range.start, range.end - 1} : CharAt(text, at) \notin Space

RangesIn(units) == [n \in 1..Len(units) |-> units[n].range]

\* Where a sentence that is not the last of its paragraph may end, and where none may go on.
EndsWell(text, range) ==
  \E at \in range.start..range.end - 1 :
    /\ CharAt(text, at) \in Marks
    /\ \A k \in at + 1..range.end - 1 : CharAt(text, k) \in Marks \cup Closers

NoStopInside(text, range) ==
  \A at \in range.start..range.end - 1 :
    CharAt(text, at) \in FullStops =>
      \A k \in at + 1..range.end - 1 : CharAt(text, k) \in Marks \cup Closers

ParagraphExact(segment, n, text) ==
  LET record == segment.sentenceCoverage[n]
      inside == SelectSeq(segment.sentences, LAMBDA unit : unit.paragraph = n)
      ranges == RangesIn(inside)
      blocks == {block \in ToSet(blockMap.blocks) : block.owner = segment.section /\ block.range = record.range}
      words  == TextIn(text, record.range)
  IN  /\ record.range = segment.paragraphs[n].range
      /\ record.class = IF blocks = {} THEN ClassOf(words) ELSE (CHOOSE block \in blocks : TRUE).kind
      /\ record.eligible <=> \/ record.class = "native_paragraph"
                             \/ record.class = "prose_or_unknown" /\ ~Unreliable(words)
      /\ record.sentenceChars + record.separatorChars + record.coarseChars = record.chars
      /\ record.count = Len(inside) /\ record.sentenceChars = TotalLen(ranges)
      /\ IF record.eligible THEN CoverVisible(text, record.range.start, record.range.end, ranges) ELSE inside = <<>>
      /\ \A k \in 1..Len(inside) :
           /\ inside[k].index = k /\ Within(text, ranges[k]) /\ NoStopInside(text, ranges[k])
           /\ k < Len(inside) => EndsWell(text, ranges[k])

SectionExact(segment, text) ==
  /\ CoverVisible(text, 0, Len(text), RangesIn(segment.paragraphs))
  /\ {block.range : block \in ToSet(SectionBlocks(blockMap, segment.section))}
       \subseteq {unit.range : unit \in ToSet(segment.paragraphs)}
  /\ \A n \in 1..Len(segment.paragraphs) : segment.paragraphs[n].index = n /\ ParagraphExact(segment, n, text)
  /\ segment.coverage.separatorChars >= 0
  /\ LET sum == segment.coverage IN
     sum.native + sum.containers + sum.nonProse + sum.fallback = sum.paragraphChars

\* Whatever blocks its parser found, a section is cut into paragraphs in reading order that leave out
\* white space alone, every block among them; a paragraph that may be split is cut into sentences that
\* leave out white space alone, none with a full stop inside; the counts add up, the document's units
\* are numbered without a gap, and the cheap guard never changes the verdict on a merged text.
SegmentationExact ==
  /\ \A i \in 1..Len(segments) : SectionExact(segments[i], parsed[i])
  /\ segStage = "segmented" =>
       /\ Len(segments) = Len(parsed)
       /\ LET orders(units) == [n \in 1..Len(units) |-> units[n].order] IN
          /\ orders(FlattenSeq([i \in 1..Len(segments) |-> segments[i].paragraphs]))
               = [n \in 1..unitsDone.paragraphs |-> n - 1]
          /\ orders(FlattenSeq([i \in 1..Len(segments) |-> segments[i].sentences]))
               = [n \in 1..unitsDone.sentences |-> n - 1]
=============================================================================
