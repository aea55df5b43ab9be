---------------------------- MODULE SectionStream ----------------------------
(***************************************************************************)
(* The stream of one section: what `read` counts, pages and points at.     *)
(*                                                                         *)
(* A section is the number of sentences of each of its paragraphs; a       *)
(* paragraph of none is CoarseParagraphOnly (a table, code, a list item),  *)
(* which segmentation makes of a paragraph without sentences unless it is  *)
(* an eligible one of blank space only.                                    *)
(* Texts, classes and offsets are left out: an entry is the unit it names. *)
(***************************************************************************)
EXTENDS Naturals, Sequences, SequencesExt

Kinds == {"paragraph", "sentence"}
Policies == {"preserve_source", "eligible_only"}

Paragraph(p) == [para |-> p, sent |-> 0]
Sentence(p, s) == [para |-> p, sent |-> s]

\* The three lists of a section's boundaries, in order.
LayoutOf(section) ==
  [paragraphs |-> [p \in 1..Len(section) |-> p],
   sentences  |-> FlattenSeq([p \in 1..Len(section) |->
                                [s \in 1..section[p] |-> Sentence(p, s)]]),
   coverage   |-> [p \in 1..Len(section) |->
                                [para |-> p, coarse |-> section[p] = 0]]]

\* The items of a list at the chosen places, in order.
Selected(list, chosen) ==
  FlattenSeq([i \in 1..Len(list) |-> IF i \in chosen THEN <<list[i]>> ELSE <<>>])

-----------------------------------------------------------------------------

CoverageOf(layout, p) == {i \in 1..Len(layout.coverage) : layout.coverage[i].para = p}

\* The walk stops with InvalidRequest at a paragraph without a coverage record.
WalkFails(layout) ==
  \E i \in 1..Len(layout.paragraphs) : CoverageOf(layout, layout.paragraphs[i]) = {}

IsCoarse(layout, p) == \E i \in CoverageOf(layout, p) : layout.coverage[i].coarse

\* sentences_by_paragraph: the sentences of one paragraph, in order.
ParagraphSentences(layout, p) ==
  Selected(layout.sentences,
           {i \in 1..Len(layout.sentences) : layout.sentences[i].para = p})

EntriesOf(layout, p, kind) ==
  LET coarse == IsCoarse(layout, p)
      entry(unit) == [unit |-> unit, eligible |-> ~coarse]
      run == ParagraphSentences(layout, p)
  IN  IF kind = "paragraph" \/ coarse
        THEN <<entry(Paragraph(p))>>
        ELSE [i \in 1..Len(run) |-> entry(run[i])]

\* Every entry of the stream, in planner order.
Walk(layout, kind) ==
  FlattenSeq([i \in 1..Len(layout.paragraphs) |->
                EntriesOf(layout, layout.paragraphs[i], kind)])

\* EligibleOnly is the PreserveSource stream without the entries that are not eligible.
Kept(entries, policy) ==
  IF policy = "preserve_source" THEN entries
  ELSE Selected(entries, {i \in 1..Len(entries) : entries[i].eligible})

Stream(section, kind, policy) == Kept(Walk(LayoutOf(section), kind), policy)

\* Positions count from 0 and a range is half open, as in the code.
Slice(seq, start, end) == SubSeq(seq, start + 1, end)
==============================================================================
