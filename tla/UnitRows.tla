------------------------------- MODULE UnitRows -------------------------------
(***************************************************************************)
(* The rows the units of a document are stored as. A unit is not stored:   *)
(* a document keeps its hash once, a section its text, in pieces, and the  *)
(* boundaries of its units as numbers, in chunks; a read cuts its text out *)
(* and derives its id again. Beside it, the in-memory index of the trait's *)
(* defaults, which keeps the units themselves.                             *)
(*                                                                         *)
(* One write is one transaction. The stream columns of a chunk and the     *)
(* pages read through them are SectionChunks; the sections of a version    *)
(* have ids of their own, and a version has at least one.                  *)
(***************************************************************************)
EXTENDS SegmentationRules, SectionStream

CONSTANTS
  Ingests,       \* [doc, hash, ids, texts, map]: versions of documents, ids and texts in document order
  ChunkChars,    \* characters in a row of text
  ChunkBytes,    \* bytes in a chunk of boundaries, about
  VarintBase,    \* 128: a byte of a number that is not its last one is this much larger
  MaxKey         \* bound: documents take keys up to this one

VARIABLES
  unitDocs,      \* text_unit_documents_v2: [doc, key, hash, segmentation]
  headers,       \* section_layout_v2: [key, section, id, chars, coverage, chunks, summary]
  chunkRows,     \* section_layout_chunk_v2: [key, section, no, first, firstSentence, paragraphCount, blob]
  textRows,      \* section_text_v3: [key, section, no, data]
  oldUnits,      \* text_units, by document
  memoryUnits,   \* the in-memory index: the paragraphs of each document,
  memorySets     \* and the version whose unit sets it holds, or NoVersion

rowVars == <<unitDocs, headers, chunkRows, textRows, oldUnits, memoryUnits, memorySets>>

Docs == {v.doc : v \in Ingests}
NoVersion == [doc |-> "none"]

\* Answers that are no unit and no summary.
Nowhere == [answer |-> "not stored"]
StaleUnits == [answer |-> "stale document"]
Corrupt == [answer |-> "corrupt row"]
NoSuchUnit == [answer |-> "no such unit"]
NoCoverage == [answer |-> "no coverage"]
CorruptText == <<"corrupt">>

-----------------------------------------------------------------------------
(* Units                                                                   *)

\* The document and the section of a unit.
Owner(version, id) == [doc |-> version.doc, hash |-> version.hash, section |-> id]

\* A hash of what it is derived from.
ParagraphId(owner, index, range) == <<owner, "paragraph", index, range>>
SentenceId(owner, paragraph, index, range) == <<owner, "sentence", paragraph, index, range>>

ParagraphUnit(owner, index, order, range, text) ==
  [id |-> ParagraphId(owner, index, range), owner |-> owner, index |-> index, order |-> order,
   range |-> range, text |-> text]

SentenceUnit(owner, paragraph, index, order, range, parent, text) ==
  [id |-> SentenceId(owner, paragraph, index, range), parent |-> ParagraphId(owner, paragraph, parent),
   owner |-> owner, paragraph |-> paragraph, index |-> index, order |-> order, range |-> range, text |-> text]

CoverageUnit(owner, range, record) ==
  [owner |-> owner, id |-> ParagraphId(owner, record.paragraph, range), paragraph |-> record.paragraph,
   class |-> record.class, eligible |-> record.eligible, chars |-> record.chars,
   sentenceChars |-> record.sentenceChars, separatorChars |-> record.separatorChars,
   coarseChars |-> record.coarseChars, count |-> record.count]

\* The boundaries of every section of a version.
SegmentsOf ==
  [v \in Ingests |->
     LET upTo[n \in 0..Len(v.ids)] ==
           IF n = 0 THEN [segments |-> <<>>, done |-> NoneDone]
           ELSE LET before  == upTo[n - 1]
                    segment == SegmentSection(n, v.texts[n], SectionBlocks(v.map, n), before.done)
                IN  [segments |-> Append(before.segments, segment), done |-> UnitsAfter(before.done, segment)]
     IN  upTo[Len(v.ids)].segments]

\* materialize: the units of a section.
UnitsIn(owner, text, segment) ==
  [paragraphs |-> [n \in 1..Len(segment.paragraphs) |->
     LET unit == segment.paragraphs[n]
     IN  ParagraphUnit(owner, unit.index, unit.order, unit.range, TextIn(text, unit.range))],
   paragraphCoverage |-> [segment.coverage EXCEPT !.owner = owner.section],
   sentences |-> [n \in 1..Len(segment.sentences) |->
     LET unit == segment.sentences[n]
     IN  SentenceUnit(owner, unit.paragraph, unit.index, unit.order, unit.range,
                      ParagraphRangeOf(segment, unit.paragraph), TextIn(text, unit.range))],
   coverage |-> [n \in 1..Len(segment.sentenceCoverage) |->
     CoverageUnit(owner, segment.sentenceCoverage[n].range, segment.sentenceCoverage[n])]]

SetsFrom(v, units) ==
  [hash |-> v.hash,
   paragraphs |-> FlattenSeq([n \in 1..Len(units) |-> units[n].paragraphs]),
   paragraphCoverage |-> [n \in 1..Len(units) |-> units[n].paragraphCoverage],
   sentences  |-> FlattenSeq([n \in 1..Len(units) |-> units[n].sentences]),
   coverage   |-> FlattenSeq([n \in 1..Len(units) |-> units[n].coverage])]

SetsOf ==
  [v \in Ingests |->
     SetsFrom(v, [n \in 1..Len(v.ids) |-> UnitsIn(Owner(v, v.ids[n]), v.texts[n], SegmentsOf[v][n])])]

NoUnitsHere == [paragraphs |-> <<>>, paragraphCoverage |-> NoCoverage, sentences |-> <<>>, coverage |-> <<>>]

\* SectionTextUnits::from_sets.
FromSets(sets, id) ==
  LET Here(unit) == unit.owner.section = id
      records == {record \in ToSet(sets.paragraphCoverage) : record.owner = id}
  IN  [paragraphs |-> SelectSeq(sets.paragraphs, Here),
       paragraphCoverage |-> IF records = {} THEN NoCoverage ELSE CHOOSE record \in records : TRUE,
       sentences |-> SelectSeq(sets.sentences, Here), coverage |-> SelectSeq(sets.coverage, Here)]

-----------------------------------------------------------------------------
(* The boundaries of a section as records of numbers                       *)

Classes == <<"prose_or_unknown", "native_paragraph", "blockquote", "list_item", "code_block",
             "preformatted", "table">>
ClassCode(class) == (CHOOSE n \in 1..Len(Classes) : Classes[n] = class) - 1
EligibilityCode(eligible) == IF eligible THEN 0 ELSE 1

ParagraphRecord(unit) ==
  [paragraph |-> unit.index, order |-> unit.order, start |-> unit.range.start, end |-> unit.range.end]

SentenceRecord(unit, parent) ==
  [paragraph |-> unit.paragraph, index |-> unit.index, order |-> unit.order, start |-> unit.range.start,
   end |-> unit.range.end, parentStart |-> parent.start, parentEnd |-> parent.end]

CoverageRecord(record, range) ==
  [paragraph |-> record.paragraph, start |-> range.start, end |-> range.end,
   class |-> ClassCode(record.class), eligibility |-> EligibilityCode(record.eligible),
   chars |-> record.chars, sentenceChars |-> record.sentenceChars,
   separatorChars |-> record.separatorChars, coarseChars |-> record.coarseChars, count |-> record.count]

\* build_segmentation_section_layout.
BoundaryLayout(segment) ==
  [paragraphs |-> [n \in 1..Len(segment.paragraphs) |-> ParagraphRecord(segment.paragraphs[n])],
   sentences  |-> [n \in 1..Len(segment.sentences) |->
      SentenceRecord(segment.sentences[n], ParagraphRangeOf(segment, segment.sentences[n].paragraph))],
   coverage   |-> [n \in 1..Len(segment.sentenceCoverage) |->
      CoverageRecord(segment.sentenceCoverage[n], segment.sentenceCoverage[n].range)]]

\* build_section_layout, from the units of the section.
UnitsLayout(units) ==
  LET rangeOf(n) == (CHOOSE unit \in ToSet(units.paragraphs) : unit.index = n).range
  IN  [paragraphs |-> [n \in 1..Len(units.paragraphs) |-> ParagraphRecord(units.paragraphs[n])],
       sentences  |-> [n \in 1..Len(units.sentences) |->
          SentenceRecord(units.sentences[n], rangeOf(units.sentences[n].paragraph))],
       coverage   |-> [n \in 1..Len(units.coverage) |->
          CoverageRecord(units.coverage[n], rangeOf(units.coverage[n].paragraph))]]

-----------------------------------------------------------------------------
(* Records as bytes                                                        *)

LayoutVersion == 1

\* The lists of a layout and the fields of their records, in the order they are written.
Lists == <<"paragraphs", "sentences", "coverage">>
Fields(list) ==
  CASE list = "paragraphs" -> <<"paragraph", "order", "start", "end">>
    [] list = "sentences" -> <<"paragraph", "index", "order", "start", "end", "parentStart", "parentEnd">>
    [] list = "coverage" -> <<"paragraph", "start", "end", "class", "eligibility", "chars", "sentenceChars",
                              "separatorChars", "coarseChars", "count">>

\* Fields written as the difference from the record before.
Deltas == {"order", "start", "end", "parentStart", "parentEnd"}

ZigZag(value) == IF value < 0 THEN -2 * value - 1 ELSE 2 * value
UnZigZag(value) == IF value % 2 = 1 THEN -((value + 1) \div 2) ELSE value \div 2

Varint(number) ==
  LET bytes[n \in Nat] == IF n < VarintBase THEN <<n>> ELSE <<VarintBase + (n % VarintBase)>> \o bytes[n \div VarintBase]
  IN  bytes[number]

NoRecord == [field \in Deltas |-> 0]

RecordBytes(record, previous, list) ==
  FlattenSeq([k \in 1..Len(Fields(list)) |->
    LET field == Fields(list)[k]
    IN  IF field \in Deltas THEN Varint(ZigZag(record[field] - previous[field])) ELSE Varint(record[field])])

ListBytes(records, list) ==
  Varint(Len(records)) \o
  FlattenSeq([n \in 1..Len(records) |->
    RecordBytes(records[n], IF n = 1 THEN NoRecord ELSE records[n - 1], list)])

Encode(layout) == <<LayoutVersion>> \o FlattenSeq([k \in 1..Len(Lists) |-> ListBytes(layout[Lists[k]], Lists[k])])

\* The numbers of a blob after its version.
Numbers(blob) ==
  LET Read(sofar, byte) ==
        IF byte < VarintBase
        THEN [done |-> Append(sofar.done, sofar.value + byte * sofar.weight), value |-> 0, weight |-> 1]
        ELSE [sofar EXCEPT !.value = @ + (byte - VarintBase) * sofar.weight, !.weight = @ * VarintBase]
  IN  FoldLeft(Read, [done |-> <<>>, value |-> 0, weight |-> 1], Tail(blob)).done

\* The list whose count stands at a place among the numbers.
DecodeList(numbers, at, list) ==
  LET width == Len(Fields(list))
      value(n, k) == numbers[at + (n - 1) * width + k]
      Sum(n, k) == FoldLeft(LAMBDA sum, m : sum + UnZigZag(value(m, k)), 0, [m \in 1..n |-> m])
      Place(field) == CHOOSE k \in 1..width : Fields(list)[k] = field
  IN  [n \in 1..numbers[at] |->
         [field \in ToSet(Fields(list)) |->
            IF field \in Deltas THEN Sum(n, Place(field)) ELSE value(n, Place(field))]]

\* Where the next list begins, after the one at a place.
After(numbers, at, list) == at + 1 + numbers[at] * Len(Fields(list))

DecodeNumbers(numbers, second) ==
  [paragraphs |-> DecodeList(numbers, 1, Lists[1]), sentences |-> DecodeList(numbers, second, Lists[2]),
   coverage |-> DecodeList(numbers, After(numbers, second, Lists[2]), Lists[3])]

DecodeFrom(numbers) == DecodeNumbers(numbers, After(numbers, 1, Lists[1]))

Decode(blob) == DecodeFrom(Numbers(blob))

-----------------------------------------------------------------------------
(* A layout in chunks                                                      *)

\* The index of a paragraph is written from the first one of its chunk.
Relative(record, first) == [paragraph |-> record.paragraph - first] @@ record

Cost(record, first, previous, list) == Len(RecordBytes(Relative(record, first), previous, list))

CoverageIn(layout, paragraphs) ==
  LET Named(record) == record.paragraph \in paragraphs IN SelectSeq(layout.coverage, Named)

\* A chunk: the paragraphs from..to and the sentences from..to; a mid chunk goes on with the sentences of one.
HeadBytes == 8
TailBytes == 64
NoChunk == [from |-> 0]
RegularChunk(slot, paragraph, sentence) ==
  [from |-> slot, to |-> slot - 1, sentenceFrom |-> sentence, sentenceTo |-> sentence - 1,
   first |-> paragraph.paragraph, firstSentence |-> 0, mid |-> FALSE]
MidChunk(slot, paragraph, at, sentence) ==
  [from |-> slot, to |-> slot - 1, sentenceFrom |-> at, sentenceTo |-> at - 1,
   first |-> paragraph.paragraph, firstSentence |-> sentence.index, mid |-> TRUE]

Opened(cutting, chunk) == [cutting EXCEPT !.open = chunk, !.size = HeadBytes]
Flushed(cutting) ==
  IF cutting.open = NoChunk THEN cutting
  ELSE [cutting EXCEPT !.done = Append(@, cutting.open), !.open = NoChunk]

\* What a paragraph takes, with its coverage when it has one.
CostOf(records, first, list) == IF records = <<>> THEN 0 ELSE Cost(records[1], first, NoRecord, list)
RoomFor(layout, n, first) ==
  Cost(layout.paragraphs[n], first, NoRecord, "paragraphs")
    + CostOf(CoverageIn(layout, {layout.paragraphs[n].paragraph}), first, "coverage")

\* The next paragraph goes into the open chunk, or into one of its own when it would not fit.
PutParagraph(layout, n, cutting) ==
  [cutting EXCEPT !.open.to = n, !.size = @ + RoomFor(layout, n, cutting.open.first)]
AddParagraph(layout, n, cutting) ==
  LET open == cutting.open
      full == open # NoChunk /\ cutting.size + RoomFor(layout, n, open.first) > ChunkBytes
  IN  PutParagraph(layout, n,
        IF open = NoChunk \/ full
        THEN Opened(Flushed(cutting), RegularChunk(n, layout.paragraphs[n], cutting.sentence + 1)) ELSE cutting)

\* The next sentence of the paragraph; one that would not fit begins a chunk in its middle.
Previous(layout, k) ==
  IF k > 1 /\ layout.sentences[k - 1].paragraph = layout.sentences[k].paragraph
  THEN layout.sentences[k - 1] ELSE NoRecord
SentenceCost(layout, k, chunk) == Cost(layout.sentences[k], chunk.first, Previous(layout, k), "sentences")
FlushedMid(cutting) == IF cutting.open # NoChunk /\ cutting.open.mid THEN Flushed(cutting) ELSE cutting
WithRoom(cutting) == IF cutting.size + TailBytes > ChunkBytes THEN FlushedMid(cutting) ELSE cutting
PutSentence(layout, k, cutting) ==
  WithRoom([cutting EXCEPT !.open.sentenceTo = k, !.sentence = k,
                           !.size = @ + SentenceCost(layout, k, cutting.open)])
AddSentence(layout, n, k, cutting) ==
  LET open == cutting.open
      full == open # NoChunk /\ ~open.mid /\ cutting.size + SentenceCost(layout, k, open) > ChunkBytes
  IN  PutSentence(layout, k,
        IF open = NoChunk \/ full
        THEN Opened(Flushed(cutting), MidChunk(n, layout.paragraphs[n], k, layout.sentences[k])) ELSE cutting)

\* build_chunk_ranges. What a segmentation makes is sorted; without paragraphs it is one chunk.
ChunksIn(layout) ==
  LET SentencesOf(n) == {k \in 1..Len(layout.sentences) : layout.sentences[k].paragraph = layout.paragraphs[n].paragraph}
      AddSentences(cutting, n) ==
        FoldLeft(LAMBDA sofar, k : AddSentence(layout, n, cutting.sentence + k, sofar),
                 cutting, [k \in 1..Cardinality(SentencesOf(n)) |-> k])
      Add(cutting, n) == FlushedMid(AddSentences(AddParagraph(layout, n, cutting), n))
      start == [done |-> <<>>, open |-> NoChunk, size |-> 0, sentence |-> 0]
  IN  IF layout.paragraphs = <<>> THEN <<RegularChunk(1, [paragraph |-> 0], 1)>>
      ELSE Flushed(FoldLeft(Add, start, [n \in 1..Len(layout.paragraphs) |-> n])).done

\* chunk_layout. A mid chunk repeats its paragraph and the coverage of it.
LocalLayout(layout, chunk) ==
  LET paragraphs == SubSeq(layout.paragraphs, chunk.from, IF chunk.mid THEN chunk.from ELSE chunk.to)
      Here(records) == [n \in 1..Len(records) |-> Relative(records[n], chunk.first)]
  IN  [paragraphs |-> Here(paragraphs),
       sentences  |-> Here(SubSeq(layout.sentences, chunk.sentenceFrom, chunk.sentenceTo)),
       coverage   |-> Here(CoverageIn(layout, {record.paragraph : record \in ToSet(paragraphs)}))]

-----------------------------------------------------------------------------
(* The summary of a section's stream                                       *)

ClassOfCode(code) == Classes[code + 1]
NonProseClasses == {"code_block", "preformatted", "table"}
StructuralClasses == {"blockquote", "list_item"}

\* build_section_descriptors.
StreamLayout(layout) ==
  [paragraphs |-> [n \in 1..Len(layout.paragraphs) |-> layout.paragraphs[n].paragraph],
   sentences  |-> [n \in 1..Len(layout.sentences) |->
                     Sentence(layout.sentences[n].paragraph, layout.sentences[n].index)],
   coverage   |-> [n \in 1..Len(layout.coverage) |->
                     [para |-> layout.coverage[n].paragraph, coarse |-> layout.coverage[n].eligibility = 1]]]

\* The counters of walk_section_stream.
SummaryOf(layout, coverage, kind, policy, entries) ==
  LET kept    == Kept(entries, policy)
      records == ToSet(layout.coverage)
      ClassAt(entry) == ClassOfCode((CHOOSE record \in records : record.paragraph = entry.unit.para).class)
      Count(seq, Is(_)) == Cardinality({n \in 1..Len(seq) : Is(seq[n])})
      IsParagraph(entry) == entry.unit.sent = 0
      IsStructural(entry) == ~entry.eligible /\ ClassAt(entry) \in StructuralClasses
      IsOther(entry) == ~entry.eligible /\ ~IsStructural(entry)
      skipped == Count(entries, LAMBDA entry : ~entry.eligible)
      coarse(Is(_)) == IF kind = "sentence" /\ policy = "preserve_source" THEN Count(entries, Is) ELSE 0
      ofClass(classes) == Cardinality({record \in records : ClassOfCode(record.class) \in classes})
  IN  [total |-> Len(kept), ownerChars |-> coverage.ownerChars, separatorChars |-> coverage.separatorChars,
       sentenceSeparators |-> FoldSeq(LAMBDA record, sum : sum + record.separatorChars, 0, layout.coverage),
       paragraphs |-> coverage.count,
       eligible |-> Cardinality({record \in records : record.eligibility = 0}),
       nonProse |-> ofClass(NonProseClasses), structural |-> ofClass(StructuralClasses),
       representedParagraphs |-> Count(kept, IsParagraph),
       representedSentences |-> Count(kept, LAMBDA entry : ~IsParagraph(entry)),
       coarseNonProse |-> coarse(IsOther), coarseStructural |-> coarse(IsStructural),
       skipped |-> IF policy = "eligible_only" THEN skipped ELSE 0,
       complete |-> policy = "preserve_source"]

Summary(layout, coverage, kind, policy) ==
  SummaryOf(layout, coverage, kind, policy, Walk(StreamLayout(layout), kind))

-----------------------------------------------------------------------------
(* The rows of a version                                                   *)

Pieces(text) ==
  [n \in 1..(Len(text) + ChunkChars - 1) \div ChunkChars |->
     SubSeq(text, (n - 1) * ChunkChars + 1, Min({n * ChunkChars, Len(text)}))]

HeaderRow(key, v, i, layout, coverage, chunks) ==
  [key |-> key, section |-> i - 1, id |-> v.ids[i], chars |-> Len(v.texts[i]), coverage |-> coverage,
   chunks |-> Len(chunks),
   summary |-> [kind \in Kinds |-> [policy \in Policies |-> Summary(layout, coverage, kind, policy)]]]

ChunkRowsOf(key, i, layout, chunks) ==
  {[key |-> key, section |-> i - 1, no |-> n - 1,
    first |-> chunks[n].first, firstSentence |-> chunks[n].firstSentence,
    paragraphCount |-> chunks[n].to - chunks[n].from + 1,
    blob |-> Encode(LocalLayout(layout, chunks[n]))] : n \in 1..Len(chunks)}

TextRowsOf(key, i, text) ==
  {[key |-> key, section |-> i - 1, no |-> n - 1, data |-> Pieces(text)[n]] : n \in 1..Len(Pieces(text))}

\* Mutant: only the sections the new version has are deleted.
Upserted(table, key, rows) ==
  {row \in table : row.key # key \/ \A new \in rows : new.section # row.section} \cup rows

\* The rows of a document are deleted before the new ones are inserted.
Replaced(table, key, rows) == {row \in table : row.key # key} \cup rows

Keyed(doc) == {row \in unitDocs : row.doc = doc}

\* A document keeps its key; a new one gets the rowid after the largest.
KeyFor(doc) ==
  IF Keyed(doc) # {} THEN (CHOOSE row \in Keyed(doc) : TRUE).key
  ELSE 1 + Max({0} \cup {row.key : row \in unitDocs})

UnitDocRow(key, v, hash, segmentation) == [doc |-> v.doc, key |-> key, hash |-> hash, segmentation |-> segmentation]

\* The plan of a section: its layout, the chunks of it, its coverage.
Plan(layout, coverage) == [layout |-> layout, chunks |-> ChunksIn(layout), coverage |-> coverage]

VersionRows(key, v, plan) ==
  LET all == 1..Len(v.ids)
  IN  [headers |-> {HeaderRow(key, v, i, plan[i].layout, plan[i].coverage, plan[i].chunks) : i \in all},
       chunks  |-> UNION {ChunkRowsOf(key, i, plan[i].layout, plan[i].chunks) : i \in all},
       texts   |-> UNION {TextRowsOf(key, i, v.texts[i]) : i \in all}]

\* Planned from the boundaries of a version, and from its unit sets.
PlanOfSegment(id, segment) == Plan(BoundaryLayout(segment), [segment.coverage EXCEPT !.owner = id])
PlanOfUnits(units) == Plan(UnitsLayout(units), units.paragraphCoverage)

BoundaryPlan ==
  [v \in Ingests |-> [i \in 1..Len(v.ids) |-> PlanOfSegment(v.ids[i], SegmentsOf[v][i])]]
UnitsPlan ==
  [v \in Ingests |-> [i \in 1..Len(v.ids) |-> PlanOfUnits(FromSets(SetsOf[v], v.ids[i]))]]

\* write_document_sections.
WriteRows(v, hash, key, rows) ==
  /\ key <= MaxKey
  /\ unitDocs' = (unitDocs \ Keyed(v.doc)) \cup {UnitDocRow(key, v, hash, "current")}
  /\ headers' = Replaced(headers, key, rows.headers)
  /\ chunkRows' = Replaced(chunkRows, key, rows.chunks)
  /\ textRows' = Replaced(textRows, key, rows.texts)

WriteSections(v, hash, plan) == WriteRows(v, hash, KeyFor(v.doc), VersionRows(KeyFor(v.doc), v, plan))

-----------------------------------------------------------------------------
(* Reads                                                                   *)

\* load_stored_document: a row with at least one section.
StoredDoc(doc) == {row \in Keyed(doc) : \E h \in headers : h.key = row.key}
IsStored(doc) == StoredDoc(doc) # {} /\ (CHOOSE row \in StoredDoc(doc) : TRUE).segmentation = "current"

HeaderAt(key, id) == {h \in headers : h.key = key /\ h.id = id}

RowsAt(table, key, section) == {row \in table : row.key = key /\ row.section = section}
InNumber(rows) ==
  [n \in 1..Cardinality(rows) |-> CHOOSE row \in rows : Cardinality({other \in rows : other.no < row.no}) = n - 1]

\* load_section_text.
LoadText(key, h) ==
  LET rows == InNumber(RowsAt(textRows, key, h.section))
      text == FlattenSeq([n \in 1..Len(rows) |-> rows[n].data])
  IN  IF h.chars = 0 THEN <<>>
      ELSE IF Len(text) = h.chars /\ \A n \in 1..Len(rows) : rows[n].no = n - 1 THEN text ELSE CorruptText

\* load_text_slice: the pieces that hold [start, end).
LoadSlice(key, section, start, end) ==
  LET nos   == start \div ChunkChars..(end - 1) \div ChunkChars
      rows  == {row \in RowsAt(textRows, key, section) : row.no \in nos}
      base(row) == row.no * ChunkChars
      upTo(row) == Min({end, base(row) + ChunkChars}) - base(row)
      cut(row)  == TextIn(row.data, CharRange(Max({start - base(row), 0}), upTo(row)))
  IN  IF {row.no : row \in rows} # nos \/ \E row \in rows : upTo(row) > Len(row.data) THEN CorruptText
      ELSE FlattenSeq([n \in 1..Cardinality(rows) |-> cut(InNumber(rows)[n])])

\* A mid chunk. The one chunk of a section without paragraphs is none.
IsMid(row) == row.paragraphCount = 0 /\ row.no > 0

\* reassemble_section_layout: what a mid chunk repeats is dropped.
AddChunk(layout, row, chunk) ==
  LET Global(records) == [n \in 1..Len(records) |-> Relative(records[n], -row.first)]
      New(list) ==
        LET Unseen(record) ==
              ~(IsMid(row) /\ \E seen \in ToSet(layout[list]) : seen.paragraph = record.paragraph)
        IN  layout[list] \o SelectSeq(Global(chunk[list]), Unseen)
  IN  [paragraphs |-> New("paragraphs"), coverage |-> New("coverage"),
       sentences  |-> layout.sentences \o Global(chunk.sentences)]

JoinedLayout(rows) ==
  FoldLeft(LAMBDA layout, row : AddChunk(layout, row, Decode(row.blob)),
           [paragraphs |-> <<>>, sentences |-> <<>>, coverage |-> <<>>], rows)

WholeLayout(key, section) == JoinedLayout(InNumber(RowsAt(chunkRows, key, section)))

RangeIn(record) == CharRange(record.start, record.end)
ParentIn(record) == CharRange(record.parentStart, record.parentEnd)

\* rebuild_paragraph_unit and rebuild_sentence_unit.
RebuiltParagraph(owner, record, text) ==
  ParagraphUnit(owner, record.paragraph, record.order, RangeIn(record), text)
RebuiltSentence(owner, record, text) ==
  SentenceUnit(owner, record.paragraph, record.index, record.order, RangeIn(record), ParentIn(record), text)
RebuiltCoverage(owner, record) ==
  CoverageUnit(owner, RangeIn(record),
               [class |-> ClassOfCode(record.class), eligible |-> record.eligibility = 0] @@ record)

RebuiltParagraphs(owner, layout, text) ==
  [n \in 1..Len(layout.paragraphs) |->
     RebuiltParagraph(owner, layout.paragraphs[n], TextIn(text, RangeIn(layout.paragraphs[n])))]

UnitsFrom(owner, coverage, layout, text) ==
  IF text = CorruptText THEN Corrupt
  ELSE [paragraphs |-> RebuiltParagraphs(owner, layout, text), paragraphCoverage |-> coverage,
        sentences |-> [n \in 1..Len(layout.sentences) |->
          RebuiltSentence(owner, layout.sentences[n], TextIn(text, RangeIn(layout.sentences[n])))],
        coverage |-> [n \in 1..Len(layout.coverage) |-> RebuiltCoverage(owner, layout.coverage[n])]]

SectionUnits(doc, id) ==
  LET row == CHOOSE stored \in StoredDoc(doc) : TRUE
      h   == CHOOSE header \in HeaderAt(row.key, id) : TRUE
  IN  IF ~IsStored(doc) THEN Nowhere
      ELSE IF HeaderAt(row.key, id) = {} THEN NoUnitsHere
      ELSE UnitsFrom(Owner(row, id), h.coverage, WholeLayout(row.key, h.section), LoadText(row.key, h))

\* load_section_chunk_at_paragraph, _at_sentence: the last chunk that begins no later.
LastChunk(rows) ==
  CHOOSE row \in rows : \A other \in rows :
    \/ other.first < row.first
    \/ other.first = row.first /\ other.firstSentence < row.firstSentence
    \/ other.first = row.first /\ other.firstSentence = row.firstSentence /\ other.no <= row.no

ChunkAtParagraph(rows, p) == {row \in rows : row.first <= p /\ row.paragraphCount > 0}
ChunkAtSentence(rows, p, s) ==
  {row \in rows : row.first <= p /\ (row.first < p \/ row.firstSentence <= s)}

\* section_unit: from the one chunk the unit is in, and the pieces its text is in.
UnitInText(owner, kind, record, text) ==
  IF text = CorruptText THEN Corrupt
  ELSE IF kind = "paragraph" THEN RebuiltParagraph(owner, record, text) ELSE RebuiltSentence(owner, record, text)

UnitInChunk(row, h, kind, p, s, chunk, layout) ==
  LET Names(record) == record.paragraph = p - chunk.first /\ (kind = "sentence" => record.index = s)
      found  == SelectSeq(IF kind = "paragraph" THEN layout.paragraphs ELSE layout.sentences, Names)
      record == Relative(found[1], -chunk.first)
  IN  IF found = <<>> THEN NoSuchUnit
      ELSE UnitInText(Owner(row, h.id), kind, record, LoadSlice(row.key, h.section, record.start, record.end))

SectionUnit(doc, id, kind, p, s) ==
  LET row  == CHOOSE stored \in StoredDoc(doc) : TRUE
      h    == CHOOSE header \in HeaderAt(row.key, id) : TRUE
      rows == RowsAt(chunkRows, row.key, h.section)
      near == IF kind = "paragraph" THEN ChunkAtParagraph(rows, p) ELSE ChunkAtSentence(rows, p, s)
  IN  IF ~IsStored(doc) \/ HeaderAt(row.key, id) = {} THEN StaleUnits
      ELSE IF near = {} THEN NoSuchUnit
      ELSE UnitInChunk(row, h, kind, p, s, LastChunk(near), Decode(LastChunk(near).blob))

StreamSummary(doc, id, kind, policy) ==
  LET row == CHOOSE stored \in StoredDoc(doc) : TRUE
  IN  IF ~IsStored(doc) THEN Nowhere
      ELSE IF HeaderAt(row.key, id) = {} THEN NoCoverage
      ELSE (CHOOSE h \in HeaderAt(row.key, id) : TRUE).summary[kind][policy]

\* list_document: from the layout, or from the old table where there is none.
ParagraphsOf(owner, layout, text) == IF text = CorruptText THEN <<Corrupt>> ELSE RebuiltParagraphs(owner, layout, text)

ListDocument(doc) ==
  LET row == CHOOSE stored \in StoredDoc(doc) : TRUE
      of(i) == CHOOSE h \in headers : h.key = row.key /\ h.section = i - 1
      count == Cardinality({h \in headers : h.key = row.key})
  IN  IF StoredDoc(doc) = {} THEN oldUnits[doc]
      ELSE FlattenSeq([i \in 1..count |->
             ParagraphsOf(Owner(row, of(i).id), WholeLayout(row.key, i - 1), LoadText(row.key, of(i)))])

\* The keys of short handles.
DocumentKey(doc) == {row.key : row \in Keyed(doc)}
DocumentAtKey(key) == {row.doc : row \in {row \in unitDocs : row.key = key}}
SectionKey(doc, id) == {h.section : h \in {h \in headers : h.id = id /\ h.key \in DocumentKey(doc)}}
SectionAtKey(doc, section) == {h.id : h \in {h \in headers : h.section = section /\ h.key \in DocumentKey(doc)}}

-----------------------------------------------------------------------------
(* Steps                                                                   *)

NoRows == headers = {} /\ chunkRows = {} /\ textRows = {} /\ unitDocs = {}

NoUnitsKept ==
  /\ oldUnits = [doc \in Docs |-> <<>>]
  /\ memoryUnits = [doc \in Docs |-> <<>>] /\ memorySets = [doc \in Docs |-> NoVersion]

\* Empty, or with a document as an earlier segmentation left it.
OldRows(v, rows) ==
  /\ unitDocs = {UnitDocRow(1, v, v.hash, "old")}
  /\ headers = rows.headers /\ chunkRows = rows.chunks /\ textRows = rows.texts
RowInit == NoUnitsKept /\ (NoRows \/ \E v \in Ingests : OldRows(v, VersionRows(1, v, BoundaryPlan[v])))

\* InMemoryTextUnitIndex::replace_document_sets.
Remember(v, sets) ==
  /\ memoryUnits' = [memoryUnits EXCEPT ![v.doc] = sets.paragraphs]
  /\ memorySets' = [memorySets EXCEPT ![v.doc] = v]

\* replace_document_segmentation.
StoreSegmentation(v) ==
  /\ WriteSections(v, v.hash, BoundaryPlan[v])
  /\ Remember(v, SetsOf[v]) /\ UNCHANGED oldUnits

\* validate_paragraph_units.
ValidUnits(doc, units) ==
  \A n \in 1..Len(units) :
    /\ units[n].owner.doc = doc /\ units[n].order = n - 1 /\ units[n].index > 0
    /\ RangeLen(units[n].range) = Len(units[n].text)

\* replace_document_sets.
StoreSets(v, sets) ==
  /\ ValidUnits(v.doc, sets.paragraphs)
  /\ WriteSections(v, sets.hash, UnitsPlan[v])
  /\ Remember(v, sets) /\ UNCHANGED oldUnits

\* replace_document: an offer that is not valid changes nothing.
ReplaceDocument(doc, units) ==
  /\ ValidUnits(doc, units)
  /\ oldUnits' = [oldUnits EXCEPT ![doc] = units]
  /\ memoryUnits' = [memoryUnits EXCEPT ![doc] = units]
  /\ UNCHANGED <<unitDocs, headers, chunkRows, textRows, memorySets>>

\* delete_unreachable_document: the sweep of a document no open result names.
SweepUnits(doc) ==
  LET keys == DocumentKey(doc)
      Left(table) == {row \in table : row.key \notin keys}
  IN  /\ headers' = Left(headers) /\ chunkRows' = Left(chunkRows) /\ textRows' = Left(textRows)
      /\ unitDocs' = unitDocs \ Keyed(doc)
      /\ oldUnits' = [oldUnits EXCEPT ![doc] = <<>>]
      /\ memoryUnits' = [memoryUnits EXCEPT ![doc] = <<>>]
      /\ memorySets' = [memorySets EXCEPT ![doc] = NoVersion]

\* The old table is written before a document has rows; only tests still write it.
Replace(v, paragraphs) ==
  /\ Keyed(v.doc) = {}
  /\ \E units \in {paragraphs, SelectSeq(paragraphs, LAMBDA unit : unit.order > 0)} : ReplaceDocument(v.doc, units)

RowNext ==
  \/ \E v \in Ingests : StoreSegmentation(v)
  \/ \E v \in Ingests : StoreSets(v, SetsOf[v])
  \/ \E v \in Ingests : Replace(v, SetsOf[v].paragraphs)
  \/ \E doc \in Docs : Keyed(doc) # {} /\ SweepUnits(doc)

-----------------------------------------------------------------------------
(* Properties *)

\* What the in-memory index answers, by the defaults of the trait.
MemoryUnit(units, kind, p, s) ==
  LET all   == ToSet(IF kind = "paragraph" THEN units.paragraphs ELSE units.sentences)
      found == {unit \in all : IF kind = "paragraph" THEN unit.index = p ELSE unit.paragraph = p /\ unit.index = s}
  IN  IF found = {} THEN NoSuchUnit ELSE CHOOSE unit \in found : TRUE

SectionRebuilds(doc, id, units) ==
  LET Known == units.paragraphCoverage # NoCoverage
      CountOf(p) == Cardinality({unit \in ToSet(units.sentences) : unit.paragraph = p})
  IN  /\ SectionUnits(doc, id) = units
      /\ \A kind \in Kinds : \A policy \in Policies :
           StreamSummary(doc, id, kind, policy) =
             IF Known THEN Summary(UnitsLayout(units), units.paragraphCoverage, kind, policy) ELSE NoCoverage
      /\ Known =>
           /\ \A p \in 0..Len(units.paragraphs) + 1 :
                /\ SectionUnit(doc, id, "paragraph", p, 0) = MemoryUnit(units, "paragraph", p, 0)
                /\ \A s \in 0..CountOf(p) + 1 :
                     SectionUnit(doc, id, "sentence", p, s) = MemoryUnit(units, "sentence", p, s)
           /\ \E section \in SectionKey(doc, id) : SectionAtKey(doc, section) = {id}

\* However a document came to be stored, again, over another version, under a key another document had,
\* and however its sections were cut into rows, the rows answer as the index that kept the units does:
\* every section's units, every unit by its indices, every count, the list; and the keys lead back.
StoreRebuilds ==
  \A doc \in Docs :
    /\ IF memorySets[doc] = NoVersion
       THEN /\ \A v \in {v \in Ingests : v.doc = doc} : \A i \in 1..Len(v.ids) :
                 /\ SectionUnits(doc, v.ids[i]) = Nowhere
                 /\ SectionUnit(doc, v.ids[i], "paragraph", 1, 0) = StaleUnits
                 /\ StreamSummary(doc, v.ids[i], "sentence", "preserve_source") = Nowhere
            /\ Keyed(doc) = {} => ListDocument(doc) = memoryUnits[doc]
       ELSE /\ \A v \in {v \in Ingests : v.doc = doc} : \A i \in 1..Len(v.ids) :
                 SectionRebuilds(doc, v.ids[i], FromSets(SetsOf[memorySets[doc]], v.ids[i]))
            /\ ListDocument(doc) = SetsOf[memorySets[doc]].paragraphs
    /\ \A key \in DocumentKey(doc) : DocumentAtKey(key) = {doc}
=============================================================================
