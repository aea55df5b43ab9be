-------------------------- MODULE SegmentationRules --------------------------
(***************************************************************************)
(* The rules a section is cut into units by: its blocks and the runs of    *)
(* lines between them are its paragraphs, and a paragraph of prose is cut  *)
(* into sentences, unless its text looks merged or corrupted.              *)
(*                                                                         *)
(* A text is a sequence of characters. A member of Words stands for a run  *)
(* of letters or digits that matters as a whole; offsets count members.    *)
(* A range [start, end) counts from zero.                                  *)
(***************************************************************************)
EXTENDS Integers, SequencesExt, FiniteSetsExt

-----------------------------------------------------------------------------
(* Characters                                                              *)

Space     == {" ", "nl", "cr", "tab"}
Digits    == {"1", "1999"}
Upper     == {"A", "M", "U"}
Lower     == {"a", "c", "e", "g", "etc", "mr", "vol", "may", "doi"}
Caseless  == {"han", "zi"}
Words     == {"1999", "etc", "mr", "vol", "may", "doi"}
Letters   == Upper \cup Lower \cup Caseless
Alphanumeric == Letters \cup Digits
Ascii     == Upper \cup Lower \cup Digits

FullStops    == {"stop"}                \* one that ends a sentence wherever it stands
Marks        == {"!", ".", "stop"}      \* is_terminal_mark
Closers      == {")", "quote"}          \* is_sentence_closer
IdentifierChars == Alphanumeric \cup {"_", "-", "$"}
TokenChars   == Alphanumeric \cup {".", "_", "-"}
Fences       == {"backticks", "tildes"}  \* three of them
Abbreviations == {<<"etc">>, <<"mr">>, <<"e", ".", "g">>}

LowerOf(ch) == CASE ch = "A" -> "a" [] ch = "M" -> "m" [] ch = "U" -> "u" [] OTHER -> ch

-----------------------------------------------------------------------------
(* Ranges of a text                                                        *)

CharRange(start, end) == [start |-> start, end |-> end]
RangeLen(range) == range.end - range.start
Shifted(ranges, by) == [n \in 1..Len(ranges) |-> CharRange(by + ranges[n].start, by + ranges[n].end)]
TextIn(text, range) == SubSeq(text, range.start + 1, range.end)
RangesOf(ranges) ==
  [n \in 1..Cardinality(ranges) |->
     CHOOSE range \in ranges : Cardinality({other \in ranges : other.start < range.start}) = n - 1]
TotalLen(ranges) == FoldSeq(LAMBDA range, sum : sum + RangeLen(range), 0, ranges)

\* The character at an offset, or "end".
CharAt(text, pos) == IF pos \in 0..Len(text) - 1 THEN text[pos + 1] ELSE "end"
IsBlank(text, start, end) == \A pos \in start..end - 1 : CharAt(text, pos) \in Space

\* The first offset from one on whose character is not in the set, or the end of the text.
SkipAll(text, pos, chars) == Min({Len(text)} \cup {i \in pos..Len(text) - 1 : CharAt(text, i) \notin chars})
SkipSpace(text, pos) == SkipAll(text, pos, Space)
TrimEnd(text) == Max({0} \cup {i \in 1..Len(text) : text[i] \notin Space})

\* The maximal runs of characters of a set.
RunsOf(text, chars) ==
  {CharRange(pos, SkipAll(text, pos, chars)) :
     pos \in {i \in 0..Len(text) - 1 : CharAt(text, i) \in chars /\ CharAt(text, i - 1) \notin chars}}

-----------------------------------------------------------------------------
(* Lines and paragraphs                                                    *)

LineStarts(text) == {pos \in 0..Len(text) - 1 : pos = 0 \/ CharAt(text, pos - 1) = "nl"}

\* strip_line_ending.
LineEnd(text, pos) ==
  LET newline == Min({Len(text)} \cup {i \in pos..Len(text) - 1 : CharAt(text, i) = "nl"})
  IN  IF newline > pos /\ CharAt(text, newline - 1) = "cr" THEN newline - 1 ELSE newline

FullLines(text) ==
  RangesOf({line \in {CharRange(pos, LineEnd(text, pos)) : pos \in LineStarts(text)} :
              ~IsBlank(text, line.start, line.end)})

\* paragraph_ranges: lines with no blank line between them.
LinesJoined(text, lines) ==
  LET Follows(n) == n > 1 /\ \A pos \in LineStarts(text) : pos \notin lines[n - 1].start + 1..lines[n].start - 1
      starts == {n \in 1..Len(lines) : ~Follows(n)}
      last(n) == Max({k \in n..Len(lines) : n + 1..k \cap starts = {}})
  IN  RangesOf({CharRange(lines[n].start, lines[last(n)].end) : n \in starts})

ParagraphRanges(text) == LinesJoined(text, FullLines(text))

-----------------------------------------------------------------------------
(* Sentences                                                               *)

\* extend_terminal_cluster.
ClusterEnd(text, pos) == SkipAll(text, SkipAll(text, pos + 1, Marks), Closers)

\* ascii_terminal_is_terminal.
SpaceFollows(text, pos) == CharAt(text, ClusterEnd(text, pos)) \in Space \cup {"end"}

\* preceding_period_token.
TokenBefore(text, pos) ==
  LET start == Min({i \in 0..pos : \A k \in i..pos - 1 : CharAt(text, k) \in TokenChars})
  IN  TextIn(text, CharRange(start, pos))

NextVisible(text, pos) == CharAt(text, SkipSpace(text, pos))

\* An abbreviation that ends a list may end the sentence too.
LowerToken(token) == [i \in 1..Len(token) |-> LowerOf(token[i])]
Protected(text, pos, token) ==
  /\ token \in Abbreviations /\ pos + 1 < Len(text)
  /\ ~(token = <<"etc">> /\ SpaceFollows(text, pos) /\ NextVisible(text, ClusterEnd(text, pos)) \in Upper)
ProtectedAt(text, pos) == Protected(text, pos, LowerToken(TokenBefore(text, pos)))

InitialAt(text, pos) ==
  LET token == TokenBefore(text, pos)
  IN  /\ Len(token) = 1 /\ token[1] \in (Upper \cup Lower) \ Words
      /\ NextVisible(text, pos + 1) \in Upper

\* ascii_period_is_terminal.
PeriodEnds(text, pos) ==
  LET previous == CharAt(text, pos - 1)
      following == CharAt(text, pos + 1)
  IN  /\ following \notin {".", "/"}
      /\ ~(previous \in IdentifierChars /\ following \in IdentifierChars)
      /\ ~ProtectedAt(text, pos) /\ ~InitialAt(text, pos)
      /\ SpaceFollows(text, pos)

\* sentence_boundary_end, where there is one.
EndsSentence(text, pos) ==
  \/ CharAt(text, pos) \in FullStops
  \/ CharAt(text, pos) = "!" /\ SpaceFollows(text, pos)
  \/ CharAt(text, pos) = "." /\ PeriodEnds(text, pos)

\* sentence_ranges, within the text of the paragraph.
SentenceRanges(text) ==
  LET cutFrom[start \in 0..Len(text)] ==
        LET ends == {pos \in start..Len(text) - 1 : EndsSentence(text, pos)}
            end  == ClusterEnd(text, Min(ends))
        IN  IF ends # {} THEN <<CharRange(start, end)>> \o cutFrom[SkipSpace(text, end)]
            ELSE IF start < TrimEnd(text) THEN <<CharRange(start, TrimEnd(text))>> ELSE <<>>
  IN  cutFrom[SkipSpace(text, 0)]

-----------------------------------------------------------------------------
(* What a paragraph is, where no block says so                             *)

FirstVisible(text, line) == CharAt(text, Min({pos \in line.start..line.end - 1 : CharAt(text, pos) \notin Space}))

Fenced(text, lines) ==
  /\ lines # <<>>
  /\ FirstVisible(text, lines[1]) \in Fences
  /\ FirstVisible(text, Last(lines)) = FirstVisible(text, lines[1])

Indented(text, lines) ==
  /\ lines # <<>>
  /\ \A n \in 1..Len(lines) :
       \/ CharAt(text, lines[n].start) = "tab"
       \/ \A pos \in lines[n].start..lines[n].start + 3 : CharAt(text, pos) = " "

Trimmed(text) == TextIn(text, CharRange(SkipSpace(text, 0), TrimEnd(text)))

\* The cells between the bars of a line; bars at either end close none.
CellsOf(line) ==
  LET first == SkipAll(line, 0, {"|"})
      to   == Max({first} \cup {i \in 1..Len(line) : line[i] # "|"})
      bars == {pos \in first..to - 1 : CharAt(line, pos) = "|"}
  IN  {CharRange(pos, Min({to} \cup {bar \in bars : bar >= pos})) : pos \in {first} \cup {bar + 1 : bar \in bars}}

\* is_table_delimiter_cell; "---" stands for three dashes or more.
IsDelimiter(cell) ==
  LET unled  == IF cell # <<>> /\ cell[1] = ":" THEN Tail(cell) ELSE cell
      dashes == IF unled # <<>> /\ Last(unled) = ":" THEN Front(unled) ELSE unled
  IN  dashes # <<>> /\ ToSet(dashes) = {"---"}

IsDelimiterRow(line, cells) ==
  Cardinality(cells) >= 2 /\ \A cell \in cells : IsDelimiter(Trimmed(TextIn(line, cell)))

IsTable(text, lines) ==
  LET line(n) == Trimmed(TextIn(text, lines[n]))
  IN  /\ Len(lines) >= 2 /\ "|" \in ToSet(line(1)) /\ "|" \in ToSet(line(2))
      /\ IsDelimiterRow(line(2), CellsOf(line(2)))

ClassIn(text, lines) ==
  IF Fenced(text, lines) \/ Indented(text, lines) THEN "code_block"
  ELSE IF IsTable(text, lines) THEN "table" ELSE "prose_or_unknown"

ClassOf(text) == ClassIn(text, FullLines(text))

-----------------------------------------------------------------------------
(* Text that was merged or corrupted on its way                            *)

MinGlueEvents == 3
MinDoubledChars == 6
MinMarkers == 4
MarkerWindow == 10

\* A surname such as McA or MacA is no junction.
SurnameAt(text, pos) ==
  /\ CharAt(text, pos - 1) = "c"
  /\ CharAt(text, pos - 2) = "M" \/ (CharAt(text, pos - 2) = "a" /\ CharAt(text, pos - 3) = "M")

GluedAt(text, pos) ==
  LET previous == CharAt(text, pos - 1)
      current  == CharAt(text, pos)
  IN  \/ previous \in Digits /\ current \in Upper
      \/ previous \in {",", ":", ".", "!"} /\ current \in Upper
      \/ previous = ")" /\ current \in Letters
      \/ /\ previous \in Upper /\ current \in Lower
         /\ \A i \in pos - 3..pos - 1 : CharAt(text, i) \in Upper
      \/ /\ previous \in Lower /\ current \in Upper
         /\ CharAt(text, pos - 2) \in Letters /\ ~SurnameAt(text, pos)

\* token_is_pairwise_doubled.
IsDoubled(token) ==
  LET runs  == {run \in UNION {RunsOf(token, {ch}) : ch \in ToSet(token)} : RangeLen(run) = 2}
  IN  Cardinality(runs) >= 3 /\ 2 * Cardinality(runs) * 5 >= Len(token) * 4

HasDoubledToken(text) ==
  \E run \in RunsOf(text, Letters) : RangeLen(run) >= MinDoubledChars /\ IsDoubled(TextIn(text, run))

\* bibliographic_marker_counts: of each word, in order.
WordsOf(text, runs) == [n \in 1..Len(runs) |-> TextIn(text, runs[n])]
MarkerCounts(words) ==
  LET IsNumber(n) == n \in 1..Len(words) /\ words[n][1] \in Digits
      near(n) == \E k \in n - 2..n + 2 : k # n /\ IsNumber(k)
      Holds(n) == <<words[n] = <<"vol">> /\ IsNumber(n + 1),
                    words[n][1] = "may" /\ ToSet(words[n]) \subseteq Letters /\ near(n),
                    words[n] = <<"1999">>,
                    words[n] = <<"doi">>>>
  IN  [n \in 1..Len(words) |-> Cardinality({i \in 1..4 : Holds(n)[i]})]

\* has_bibliographic_metadata_run.
ManyMarkers(counts) ==
  \E first \in 1..Len(counts) :
    MinMarkers <= FoldSeq(LAMBDA count, sum : sum + count, 0,
                          SubSeq(counts, first, Min({first + MarkerWindow - 1, Len(counts)})))
HasMasthead(text) == ManyMarkers(MarkerCounts(WordsOf(text, RangesOf(RunsOf(text, Alphanumeric)))))

\* looks_like_unreliable_fallback_text.
Unreliable(text) ==
  \/ HasDoubledToken(text)
  \/ Cardinality({pos \in 1..Len(text) - 1 : GluedAt(text, pos)}) >= MinGlueEvents
  \/ HasMasthead(text)

\* Mutant: letters without a case are left out.
GuardSkipsCaseless(text) == ToSet(text) \cap (Ascii \cup Upper \cup Lower \cup {")"}) # {}

\* fallback_guard_can_fire: a cheap test that the verdict is not decided yet.
GuardCanFire(text) ==
  \/ ToSet(text) \cap (Ascii \cup Upper \cup Lower \cup {")"}) # {}
  \/ \E pos \in 1..Len(text) - 1 : CharAt(text, pos) \in Letters /\ CharAt(text, pos - 1) = CharAt(text, pos)

-----------------------------------------------------------------------------
(* The block map                                                           *)

NoMap == [version |-> "none", blocks |-> <<>>]

\* validate_normalized_block_map. A parser counts blocks from one in a section, from zero in the document.
ValidMap(map, texts) ==
  LET blocks == map.blocks
      Before(n) == {k \in 1..n - 1 : blocks[k].owner = blocks[n].owner}
  IN  /\ map.version = "current"
      /\ \A n \in 1..Len(blocks) :
           /\ blocks[n].order = n - 1
           /\ blocks[n].owner \in 1..Len(texts)
           /\ blocks[n].index = Cardinality(Before(n)) + 1
           /\ blocks[n].range.end <= Len(texts[blocks[n].owner])
           /\ RangeLen(blocks[n].range) > 0
           /\ Before(n) # {} => blocks[n].range.start >= blocks[Max(Before(n))].range.end

SectionBlocks(map, i) == SelectSeq(map.blocks, LAMBDA block : block.owner = i)

-----------------------------------------------------------------------------
(* One section                                                             *)

Fallbacks(ranges) == [n \in 1..Len(ranges) |-> [range |-> ranges[n], source |-> "fallback"]]
FallbackCandidates(text, start, end) ==
  Fallbacks(Shifted(ParagraphRanges(TextIn(text, CharRange(start, end))), start))

\* section_paragraph_candidates: each block is one paragraph, and the lines between blocks are more.
Candidates(text, blocks) ==
  LET EndOf(n) == IF n = 0 THEN 0 ELSE blocks[n].range.end
      StartOf(n) == IF n > Len(blocks) THEN Len(text) ELSE blocks[n].range.start
      Gap(n) == FallbackCandidates(text, EndOf(n), StartOf(n + 1))
  IN  Gap(0) \o FlattenSeq([n \in 1..Len(blocks) |->
                              <<[range |-> blocks[n].range, source |-> blocks[n].kind]>> \o Gap(n)])

CharsFrom(candidates, sources) ==
  FoldSeq(LAMBDA candidate, sum : sum + IF candidate.source \in sources THEN RangeLen(candidate.range) ELSE 0,
          0, candidates)

Containers == {"blockquote", "list_item"}
NonProse == {"preformatted", "table"}
BlockKinds == {"native_paragraph"} \cup Containers \cup NonProse

ParagraphCoverage(i, text, candidates) ==
  LET chars == CharsFrom(candidates, BlockKinds \cup {"fallback"})
  IN  [owner |-> i, ownerChars |-> Len(text), paragraphChars |-> chars, separatorChars |-> Len(text) - chars,
       count |-> Len(candidates),
       native |-> CharsFrom(candidates, {"native_paragraph"}),
       containers |-> CharsFrom(candidates, Containers), nonProse |-> CharsFrom(candidates, NonProse),
       fallback |-> CharsFrom(candidates, {"fallback"})]

\* find_section_block: the first block that is not before the range, by binary search.
BlockAt(blocks, range) ==
  LET IsBefore(other) == other.start < range.start \/ (other.start = range.start /\ other.end < range.end)
      position == Min({Len(blocks) + 1} \cup {n \in 1..Len(blocks) : ~IsBefore(blocks[n].range)})
  IN  IF position <= Len(blocks) /\ blocks[position].range = range THEN {blocks[position]} ELSE {}

ContentClass(blocks, range, text) ==
  IF BlockAt(blocks, range) # {} THEN (CHOOSE block \in BlockAt(blocks, range) : TRUE).kind ELSE ClassOf(text)

Eligible(class, text) ==
  /\ class \in {"prose_or_unknown", "native_paragraph"}
  /\ ~(class = "prose_or_unknown" /\ GuardCanFire(text) /\ Unreliable(text))

\* collect_section_segmentation. A paragraph: what it is, and the sentences it is cut into.
SentencesIn(text, paragraph) ==
  IF paragraph.eligible THEN Shifted(SentenceRanges(text), paragraph.range.start) ELSE <<>>
CutParagraph(text, paragraph) == [sentences |-> SentencesIn(text, paragraph)] @@ paragraph
Classified(text, candidate, class) == [class |-> class, eligible |-> Eligible(class, text)] @@ candidate
ParagraphOf(text, blocks, candidate) ==
  CutParagraph(text, Classified(text, candidate, ContentClass(blocks, candidate.range, text)))

SentenceCoverage(n, paragraph) ==
  LET chars     == RangeLen(paragraph.range)
      sentences == TotalLen(paragraph.sentences)
  IN  [paragraph |-> n, range |-> paragraph.range, class |-> paragraph.class, eligible |-> paragraph.eligible,
       chars |-> chars, sentenceChars |-> sentences,
       separatorChars |-> IF paragraph.eligible THEN chars - sentences ELSE 0,
       coarseChars |-> IF paragraph.eligible THEN 0 ELSE chars, count |-> Len(paragraph.sentences)]

SentencesCut(paragraphs) ==
  FlattenSeq([n \in 1..Len(paragraphs) |->
    [k \in 1..Len(paragraphs[n].sentences) |->
       [paragraph |-> n, index |-> k, range |-> paragraphs[n].sentences[k]]]])
Numbered(units, first) == [k \in 1..Len(units) |-> [order |-> first + k - 1] @@ units[k]]

SegmentOf(i, text, before, paragraphs) ==
  [section |-> i,
   coverage |-> ParagraphCoverage(i, text, paragraphs),
   paragraphs |-> Numbered([n \in 1..Len(paragraphs) |-> [index |-> n, range |-> paragraphs[n].range]],
                           before.paragraphs),
   sentences |-> Numbered(SentencesCut(paragraphs), before.sentences),
   sentenceCoverage |-> [n \in 1..Len(paragraphs) |-> SentenceCoverage(n, paragraphs[n])]]

ParagraphsIn(text, blocks, candidates) ==
  [n \in 1..Len(candidates) |-> ParagraphOf(TextIn(text, candidates[n].range), blocks, candidates[n])]

SegmentSection(i, text, blocks, before) ==
  SegmentOf(i, text, before, ParagraphsIn(text, blocks, Candidates(text, blocks)))

UnitsAfter(before, segment) ==
  [paragraphs |-> before.paragraphs + Len(segment.paragraphs), sentences |-> before.sentences + Len(segment.sentences)]

NoneDone == [paragraphs |-> 0, sentences |-> 0]

\* SectionSegmentation::paragraph_range.
ParagraphRangeOf(segment, n) == segment.paragraphs[n].range
=============================================================================
