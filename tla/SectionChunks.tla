---------------------------- MODULE SectionChunks ----------------------------
(***************************************************************************)
(* The stored form of a section's layout: chunk rows of about Budget bytes *)
(* (section_layout_chunk_v2), and the reads that answer from one chunk at  *)
(* a time what SectionStream answers from the whole layout.                *)
(*                                                                         *)
(* The machine is the loop of build_chunk_ranges, one paragraph or one     *)
(* sentence a step, then the plan of the chunks' stream starts. The bytes  *)
(* of a record depend on its offsets: they are any value of a set. Only    *)
(* sorted layouts are modelled: segmentation emits no other.               *)
(***************************************************************************)
EXTENDS SectionStream, FiniteSets, FiniteSetsExt

CONSTANTS
  Sections,        \* the sections to store, each a sequence of sentence counts
  ParagraphCosts,  \* bytes of a paragraph record and its coverage record
  SentenceCosts,   \* bytes of a sentence record
  HeadCost,        \* 8
  TailRoom,        \* 64: a mid chunk is closed when less than this is left
  Budget           \* LAYOUT_CHUNK_BYTES

ASSUME SectionsAssumption == Sections \subseteq Seq(Nat)

ASSUME CostAssumption ==
  /\ ParagraphCosts \subseteq Nat /\ ParagraphCosts # {}
  /\ SentenceCosts \subseteq Nat /\ SentenceCosts # {}
  /\ HeadCost \in Nat /\ TailRoom \in Nat /\ Budget \in Nat

\* A sentence and the records a mid chunk repeats fit in the room kept for them.
ASSUME RoomAssumption ==
  \A p \in ParagraphCosts, s \in SentenceCosts :
    /\ p + s <= TailRoom
    /\ HeadCost + p + s + TailRoom <= Budget

VARIABLES
  section,  \* the section being stored
  layout,   \* its boundaries, built from its segmentation
  at,       \* paragraphs the loop has entered
  done,     \* sentences of paragraph `at` it has placed
  cursor,   \* sentence_cursor: sentences placed in all
  open,     \* the pending range: a sequence of at most one
  chunks,   \* the ranges already cut
  rows      \* the stored chunk rows, <<>> until the section is stored

vars == <<section, layout, at, done, cursor, open, chunks, rows>>

Init ==
  /\ section \in Sections
  /\ layout = LayoutOf(section)
  /\ at = 0 /\ done = 0 /\ cursor = 0
  /\ open = <<>>
  /\ chunks = <<>>
  /\ rows = <<>>

-----------------------------------------------------------------------------
(* Cutting the layout *)

RegularRange(p) ==
  [mid |-> FALSE, est |-> HeadCost, first |-> p, firstSentence |-> 0,
   pStart |-> p - 1, pEnd |-> p - 1, sStart |-> cursor, sEnd |-> cursor,
   cStart |-> p - 1, cEnd |-> p]

MidRange(p, s) ==
  [RegularRange(p) EXCEPT !.mid = TRUE, !.firstSentence = s]

\* Mutant: a flush that loses the pending range.
RangesUnflushed == chunks

\* The ranges so far; a flush makes the pending one a chunk.
Ranges == chunks \o open


InParagraph == at > 0 /\ done < section[at]

\* A paragraph joins the pending chunk, or opens the next when it would not fit. The cost of its
\* records counts from the chunk's first paragraph, so it may only shrink in a new chunk.
NextParagraph ==
  /\ rows = <<>> /\ ~InParagraph /\ at < Len(section)
  /\ \E cost, fresh \in ParagraphCosts :
       LET flush == open # <<>> /\ (open[1].mid \/ open[1].est + cost > Budget)
           anew  == open = <<>> \/ flush
           range == IF anew THEN RegularRange(at + 1) ELSE open[1]
       IN  /\ fresh <= cost
           /\ chunks' = IF flush THEN Ranges ELSE chunks
           /\ open' = <<[range EXCEPT !.est = @ + (IF anew THEN fresh ELSE cost),
                                      !.pEnd = at + 1, !.cEnd = at + 1]>>
  /\ at' = at + 1
  /\ done' = 0
  /\ UNCHANGED <<section, layout, cursor, rows>>

\* Mutant: keeps no room for the record the chunk repeats.
FullWithoutTail(range) == range.est > Budget

\* A mid chunk takes no further sentence once less than the tail room is left.
Full(range) == range.est + TailRoom > Budget

\* A sentence joins the pending chunk, or opens a mid chunk when it would not fit. A mid chunk is
\* closed when the next sentence might not fit, and with its paragraph.
NextSentence ==
  /\ rows = <<>> /\ InParagraph
  /\ \E cost, fresh \in SentenceCosts :
       LET flush == open # <<>> /\ ~open[1].mid /\ open[1].est + cost > Budget
           anew  == open = <<>> \/ flush
           range == IF anew THEN MidRange(at, done + 1) ELSE open[1]
           grown == [range EXCEPT !.est = @ + (IF anew THEN fresh ELSE cost),
                                  !.sEnd = cursor + 1]
           full  == Full(grown) \/ done + 1 = section[at]
           kept  == IF flush THEN Ranges ELSE chunks
       IN  /\ fresh <= cost
           /\ IF grown.mid /\ full
                THEN chunks' = Append(kept, grown) /\ open' = <<>>
                ELSE chunks' = kept /\ open' = <<grown>>
  /\ done' = done + 1
  /\ cursor' = cursor + 1
  /\ UNCHANGED <<section, layout, at, rows>>

-----------------------------------------------------------------------------
(* Stream starts *)

\* A section without a paragraph is one chunk.
WholeRange ==
  [mid |-> FALSE, est |-> HeadCost, first |-> 0, firstSentence |-> 0,
   pStart |-> 0, pEnd |-> 0, sStart |-> 0, sEnd |-> 0, cStart |-> 0, cEnd |-> 0]

Holds(range, unit) ==
  IF unit.sent = 0
    THEN \E slot \in range.pStart + 1 .. range.pEnd : layout.paragraphs[slot] = unit.para
    ELSE \E slot \in range.sStart + 1 .. range.sEnd : layout.sentences[slot] = unit

\* The chunk of every entry, in stream order: the cursor over the chunks only moves forward, and
\* an entry no chunk from the cursor on holds is counted nowhere, like every entry after it.
Owners(ranges, kind) ==
  LET step(acc, entry) ==
        LET holders == {k \in acc.from..Len(ranges) : Holds(ranges[k], entry.unit)}
            k == IF holders = {} THEN Len(ranges) + 1 ELSE Min(holders)
        IN  [from |-> k, owner |-> Append(acc.owner, k)]
  IN  FoldLeft(step, [from |-> 1, owner |-> <<>>], Walk(layout, kind)).owner

\* Mutant: the starts if every policy counted the entries that are not eligible.
StreamStartsOfAll(ranges, kind, policy) ==
  LET owner == Owners(ranges, kind)
  IN  [k \in 1..Len(ranges) |-> Cardinality({i \in 1..Len(owner) : owner[i] < k})]

\* For each chunk, the entries the chunks before it were given.
StreamStarts(ranges, kind, policy) ==
  LET owner == Owners(ranges, kind)
      entries == Walk(layout, kind)
      counted == {i \in 1..Len(entries) : policy = "preserve_source" \/ entries[i].eligible}
  IN  [k \in 1..Len(ranges) |-> Cardinality({i \in counted : owner[i] < k})]

\* What a row's blob holds, paragraph indices relative to the chunk's first paragraph. A mid chunk
\* repeats its paragraph's record.
ChunkLayout(range) ==
  LET relative(p) == p - range.first
      paras == IF range.mid THEN <<layout.paragraphs[range.pStart + 1]>>
                            ELSE Slice(layout.paragraphs, range.pStart, range.pEnd)
      run   == Slice(layout.sentences, range.sStart, range.sEnd)
      cover == Slice(layout.coverage, range.cStart, range.cEnd)
  IN  [paragraphs |-> [i \in 1..Len(paras) |-> relative(paras[i])],
       sentences  |-> [i \in 1..Len(run) |-> [run[i] EXCEPT !.para = relative(@)]],
       coverage   |-> [i \in 1..Len(cover) |-> [cover[i] EXCEPT !.para = relative(@)]]]

Row(ranges, starts, k) ==
  [first          |-> ranges[k].first,
   firstSentence  |-> ranges[k].firstSentence,
   entry          |-> [kind \in Kinds |-> [policy \in Policies |-> starts[kind][policy][k]]],
   paragraphCount |-> ranges[k].pEnd - ranges[k].pStart,
   sentenceCount  |-> ranges[k].sEnd - ranges[k].sStart,
   blob           |-> ChunkLayout(ranges[k])]

\* The estimates end with the cut.
Store ==
  /\ rows = <<>> /\ ~InParagraph /\ at = Len(section)
  /\ LET ranges == IF section = <<>> THEN <<WholeRange>> ELSE Ranges
         starts == [kind \in Kinds |-> [policy \in Policies |->
                      StreamStarts(ranges, kind, policy)]]
     IN  /\ chunks' = [k \in 1..Len(ranges) |-> [ranges[k] EXCEPT !.est = 0]]
         /\ rows' = [k \in 1..Len(ranges) |-> Row(ranges, starts, k)]
  /\ open' = <<>>
  /\ UNCHANGED <<section, layout, at, done, cursor>>

Next == NextParagraph \/ NextSentence \/ Store

Spec == Init /\ [][Next]_vars

-----------------------------------------------------------------------------
(* Reading the stored chunks *)

\* Mutant: misses the mid chunk that starts with its paragraph's first sentence.
IsMidLaterSentence(k) == rows[k].firstSentence > 1

IsMidParagraph(k) == rows[k].paragraphCount = 0 /\ k > 1

\* The planner's entries of one chunk under its own policy, with the section's indices.
ChunkEntries(k, kind, policy) ==
  LET absolute(entry) == [entry EXCEPT !.unit.para = @ + rows[k].first]
      local == Kept(Walk(rows[k].blob, kind), policy)
  IN  [i \in 1..Len(local) |-> absolute(local[i])]

\* The row an ORDER BY ... DESC, chunk_no DESC LIMIT 1 returns.
LastBy(key, candidates) ==
  CHOOSE k \in candidates : \A j \in candidates :
    key[j] < key[k] \/ (key[j] = key[k] /\ j <= k)

RowsForStreamPosition(kind, policy, position) ==
  {k \in 1..Len(rows) :
     /\ rows[k].entry[kind][policy] <= position
     /\ rows[k].paragraphCount > 0 \/ (kind = "sentence" /\ rows[k].sentenceCount > 0)}

\* The entries of [start, end): from the row that holds start, row by row, until one reaches end.
Page(kind, policy, start, end) ==
  LET holders == RowsForStreamPosition(kind, policy, start)
      entryOf == [k \in 1..Len(rows) |-> rows[k].entry[kind][policy]]
      from == LastBy(entryOf, holders)
      skipped(k) == kind = "paragraph" /\ IsMidParagraph(k)
      placed(k) == LET entries == ChunkEntries(k, kind, policy)
                   IN  [j \in 1..Len(entries) |->
                          [position |-> entryOf[k] + j - 1, entry |-> entries[j]]]
      listed == FlattenSeq([i \in 1..Len(rows) |->
                  IF i < from \/ skipped(i) THEN <<>> ELSE placed(i)])
      past == {i \in 1..Len(listed) : listed[i].position >= end}
      before == IF past = {} THEN listed ELSE SubSeq(listed, 1, Min(past) - 1)
      wanted == {i \in 1..Len(before) : before[i].position >= start}
  IN  IF start >= end \/ holders = {} THEN <<>> ELSE Selected(before, wanted)

\* section_stream_items: the window clamped to the section's total.
Items(kind, policy, total, direction, position, limit) ==
  LET end == Min({position, total})
  IN  IF direction = "forward"
        THEN Page(kind, policy, end, Min({position + limit, total}))
        ELSE Page(kind, policy, IF limit > end THEN 0 ELSE end - limit, end)

\* Mutant: mid chunks count as holders of the record they repeat.
RowsAtParagraphOrMid(p) == {k \in 1..Len(rows) : rows[k].first <= p}

RowsAtParagraph(p) ==
  {k \in 1..Len(rows) : rows[k].first <= p /\ rows[k].paragraphCount > 0}

RowsAtSentence(p, s) ==
  {k \in 1..Len(rows) :
     /\ rows[k].first <= p
     /\ rows[k].first < p \/ rows[k].firstSentence <= s}

\* section_stream_position: the position of a unit in a stream, as a set that is empty when the
\* unit is not an entry of it.
PositionOf(kind, policy, unit) ==
  LET holders == IF unit.sent = 0 THEN RowsAtParagraph(unit.para)
                                  ELSE RowsAtSentence(unit.para, unit.sent)
      k0 == LastBy([k \in 1..Len(rows) |-> rows[k].first], holders)
      k == IF unit.sent = 0 THEN k0
             ELSE LastBy([j \in 1..Len(rows) |-> rows[j].firstSentence],
                         {j \in holders : rows[j].first = rows[k0].first})
      entries == ChunkEntries(k, kind, policy)
      found == {i \in 1..Len(entries) : entries[i].unit = unit}
  IN  IF holders = {} \/ found = {} THEN {}
        ELSE {rows[k].entry[kind][policy] + Min(found) - 1}

\* reassemble_section_layout: the whole layout; what a mid chunk repeats is dropped.
Reassembled ==
  LET repeated(k, p) ==
        /\ IsMidParagraph(k)
        /\ \E j \in 1..k-1 : \E i \in 1..Len(rows[j].blob.paragraphs) :
             rows[j].blob.paragraphs[i] + rows[j].first = p
      paras(k) == [i \in 1..Len(rows[k].blob.paragraphs) |->
                     rows[k].blob.paragraphs[i] + rows[k].first]
      absolute(k, list) == [i \in 1..Len(list) |-> [list[i] EXCEPT !.para = @ + rows[k].first]]
      newParas(k) == Selected(paras(k), {i \in 1..Len(paras(k)) : ~repeated(k, paras(k)[i])})
      newCover(k) == LET cover == absolute(k, rows[k].blob.coverage)
                     IN  Selected(cover, {i \in 1..Len(cover) : ~repeated(k, cover[i].para)})
  IN  [paragraphs |-> FlattenSeq([k \in 1..Len(rows) |-> newParas(k)]),
       sentences  |-> FlattenSeq([k \in 1..Len(rows) |-> absolute(k, rows[k].blob.sentences)]),
       coverage   |-> FlattenSeq([k \in 1..Len(rows) |-> newCover(k)])]

-----------------------------------------------------------------------------
(* Properties *)

Stored == rows # <<>>

RangeSet ==
  [mid : BOOLEAN, est : Nat, first : Nat, firstSentence : Nat, pStart : Nat, pEnd : Nat,
   sStart : Nat, sEnd : Nat, cStart : Nat, cEnd : Nat]

\* Every variable holds a value of its kind, and the loop never runs past the section.
ChunksTypeOK ==
  /\ section \in Sections
  /\ at \in 0..Len(section)
  /\ done \in Nat /\ (at > 0 => done <= section[at])
  /\ cursor \in Nat
  /\ Len(open) <= 1
  /\ \A k \in 1..Len(Ranges) : Ranges[k] \in RangeSet
  /\ Len(rows) \in {0, Len(chunks)}

\* Paragraphs the chunks up to and with this one hold; a mid chunk continues the last of them.
Reached(range) == IF range.mid THEN range.pStart + 1 ELSE range.pEnd

Follows(range, previous) ==
  /\ range.sStart = previous.sEnd
  /\ (IF range.mid THEN range.pStart + 1 ELSE range.pStart) = Reached(previous)

\* The chunks cut the section into runs: each starts where the one before it ends, in paragraphs
\* and in sentences, the first at the start and the last at the end. No unit is lost or kept twice.
ChunksPartition ==
  /\ \A k \in 2..Len(chunks) : Follows(chunks[k], chunks[k - 1])
  /\ chunks # <<>> => chunks[1].pStart = 0 /\ chunks[1].sStart = 0 /\ ~chunks[1].mid
  /\ Stored => LET last == chunks[Len(chunks)]
               IN  Reached(last) = Len(section) /\ last.sEnd = cursor

\* No chunk is larger than the budget, the records a mid chunk repeats included, although those
\* are not in the estimate that closes it.
ChunksWithinBudget ==
  \A range \in {Ranges[k] : k \in 1..Len(Ranges)}, p \in ParagraphCosts :
    range.est + (IF range.mid THEN p ELSE 0) <= Budget

\* What the stream lists in [start, end), with the position of each.
Window(stream, start, end) ==
  [i \in 1..(end - start) |-> [position |-> start + i - 1, entry |-> stream[start + i]]]

\* A page read from the chunks is the same page of the whole section's stream, for every stream and
\* window, and no chunk's walk fails for want of a coverage record.
PagesMatchStream ==
  Stored => \A kind \in Kinds, policy \in Policies :
    LET stream == Stream(section, kind, policy)
        total == Len(stream)
    IN  /\ \A k \in 1..Len(rows) : ~WalkFails(rows[k].blob)
        /\ \A position \in 0..total + 1, limit \in {1, 2, total + 1} :
             LET first == Min({position, total})
                 stop  == Min({position + limit, total})
                 from  == IF limit > first THEN 0 ELSE first - limit
             IN  /\ Items(kind, policy, total, "forward", position, limit) = Window(stream, first, stop)
                 /\ Items(kind, policy, total, "backward", position, limit) = Window(stream, from, first)

\* A unit's position is where the stream has it, and a unit the stream does not list has none: a
\* handle of any entry leads back to that entry, whichever chunk it lies in.
PositionsInvertStream ==
  Stored => \A kind \in Kinds, policy \in Policies :
    LET stream == Stream(section, kind, policy)
        units == {Paragraph(p) : p \in 1..Len(section) + 1} \cup
                 UNION {{Sentence(p, s) : s \in 1..section[p] + 1} : p \in 1..Len(section)}
    IN  \A unit \in units :
          LET places == {i \in 1..Len(stream) : stream[i].unit = unit}
          IN  PositionOf(kind, policy, unit) = {i - 1 : i \in places}

\* The layout read back from the rows is the layout that was stored.
ReassemblesLayout == Stored => Reassembled = layout
==============================================================================
