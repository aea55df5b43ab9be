----------------------------- MODULE LexicalScan -----------------------------
(***************************************************************************)
(* search_lexical: a strict pass over the titles and the units of a        *)
(* document, a relaxed one if nothing matched, and the best `limit` hits.  *)
(* The scan of a pass skips what it can: a section or a paragraph whose    *)
(* bound is below the worst hit a full scanner kept, in the order of the   *)
(* bounds, on several threads that share nothing. What it finds has to be  *)
(* what the plain scan of every unit finds.                                *)
(*                                                                         *)
(* A text is what a query can tell of it: the tokens its lowercase form    *)
(* contains, the tokens it consists of, and whether the whole query is in  *)
(* it. Scores are counted in quarters. Where the text of a scan comes from *)
(* is in ScanTextCache.                                                    *)
(***************************************************************************)
EXTENDS Integers, Sequences, FiniteSets, SequencesExt

CONSTANTS
  Terms,        \* the tokens of the query
  Contents(_),  \* the documents; with TRUE those that need a query with a sigma
  Limits,       \* the limits of a search
  FlushFactor, FlushExtra,  \* 4 and 64: a scanner cuts its hits at factor * limit + extra
  ThreadCounts  \* the threads a pass may use

ASSUME ScanAssumption ==
  /\ IsFiniteSet(Terms) /\ Terms # {}
  /\ Limits \subseteq Nat \ {0} /\ ThreadCounts \subseteq Nat \ {0}
  /\ FlushFactor \in Nat \ {0} /\ FlushExtra \in Nat

VARIABLES
  query,     \* its limit, whether it folds a sigma, whether its scan prunes
  content,   \* the sections with their titles, paragraphs and sentences
  threads,   \* the threads of the scan
  mode,      \* "strict" or "relaxed"
  phase,     \* where the search is
  plan,      \* the sections the pass visits, in that order, with their bounds
  scanners,  \* per thread: the hits it keeps, its threshold, the items it visited
  found      \* the hits of the pass, then the answer

lexicalVars == <<query, content, threads, mode, phase, plan, scanners, found>>

-----------------------------------------------------------------------------
(* Scores.                                                                 *)

StrictMatch(text) == Terms \subseteq text.is
Matched(text) == Cardinality(text.is)
Accepts(text) == IF mode = "strict" THEN StrictMatch(text) ELSE Matched(text) > 0

KindBonus == [sentence |-> 4, paragraph |-> 2, section |-> 1]
KindOrder == [sentence |-> 0, paragraph |-> 1, section |-> 2]

Score(text, kind) == (IF text.phrase THEN 16 ELSE 0) + 4 * Matched(text) + KindBonus[kind]

Hit(section, kind, unit) ==
  [score |-> Score(unit.text, kind), kind |-> kind, id |-> section.id, start |-> unit.start]

\* Score, then kind, then section, then start: a total order of the hits.
Ahead(g, h) ==
  \/ g.score > h.score
  \/ g.score = h.score /\ KindOrder[g.kind] < KindOrder[h.kind]
  \/ g.score = h.score /\ g.kind = h.kind /\ g.id < h.id
  \/ g.score = h.score /\ g.kind = h.kind /\ g.id = h.id /\ g.start < h.start

\* Sorted and truncated.
Best(hits) == {h \in hits : Cardinality({g \in hits : Ahead(g, h)}) < query.limit}

\* What a container is asked before anything in it is scored.
MayHold(text) == IF mode = "strict" THEN Terms \subseteq text.has ELSE text.has # {}

\* A lowercase sigma depends on its place, so with one the phrase may be in a
\* unit and not in its container.
Bound(text) ==
  (IF query.fold \/ text.phrase THEN 16 ELSE 0)
  + 4 * (IF mode = "strict" THEN Cardinality(Terms) ELSE Cardinality(text.has))
  + KindBonus["sentence"]

-----------------------------------------------------------------------------
(* SectionScanner.                                                         *)

NewScanner == [hits |-> {}, threshold |-> -1, open |-> {}, visited |-> 0]

FlushAt == FlushFactor * query.limit + FlushExtra

\* The limit-th best score of a full scanner, none otherwise.
Threshold(hits) ==
  IF Cardinality(hits) < query.limit THEN -1
  ELSE CHOOSE s \in {h.score : h \in hits} : \A h \in hits : s <= h.score

Flush(scanner) ==
  IF Cardinality(scanner.hits) < FlushAt THEN scanner
  ELSE LET kept == Best(scanner.hits) IN
       [scanner EXCEPT !.hits = kept, !.threshold = Threshold(kept)]

\* Mutant: a unit that can only draw level with the worst hit is skipped too.
SkipsTies(scanner, bound) ==
  query.prune /\ scanner.threshold # -1 /\ bound <= scanner.threshold

Skips(scanner, bound) == query.prune /\ scanner.threshold # -1 /\ bound < scanner.threshold

Keep(scanner, hit) == Flush([scanner EXCEPT !.hits = @ \cup {hit}])

\* ParagraphPrefilters, by paragraph: those that may hold a hit, for their sentences to ask.
OpenParagraph(scanner, paragraph) == [scanner EXCEPT !.open = @ \cup {paragraph.start}]
InOpenParagraph(scanner, sentence) == sentence.parent \in scanner.open

ScanParagraph(section, scanner, paragraph) ==
  IF ~MayHold(paragraph.text) \/ Skips(scanner, Bound(paragraph.text)) THEN scanner
  ELSE IF ~Accepts(paragraph.text) THEN OpenParagraph(scanner, paragraph)
  ELSE Keep(OpenParagraph(scanner, paragraph), Hit(section, "paragraph", paragraph))

\* Sentences are visited after all paragraphs, those of a paragraph that was
\* left out not at all.
ScanSentence(section, scanner, sentence) ==
  IF InOpenParagraph(scanner, sentence) /\ Accepts(sentence.text)
  THEN Keep(scanner, Hit(section, "sentence", sentence)) ELSE scanner

SentencesOf(section) ==
  FlattenSeq([i \in 1..Len(section.paragraphs) |-> section.paragraphs[i].sentences])

ScanSection(scanner, item) ==
  LET section == content[item.section]
      paragraphs == FoldLeft(LAMBDA s, p : ScanParagraph(section, s, p),
                             [scanner EXCEPT !.open = {}], section.paragraphs)
  IN IF Skips(scanner, item.bound) THEN scanner
     ELSE FoldLeft(LAMBDA s, u : ScanSentence(section, s, u), paragraphs, SentencesOf(section))

-----------------------------------------------------------------------------
(* A search.                                                               *)

\* A pass over a text store may use several threads, never more than there are sections.
ScanThreads == {n \in ThreadCounts : n > 1 => n <= Len(content) /\ query.prune}

LexicalInit ==
  /\ query \in [limit : Limits, fold : BOOLEAN, prune : BOOLEAN]
  /\ content \in Contents(query.fold)
  /\ threads \in ScanThreads
  /\ mode = "strict" /\ phase = "plan"
  /\ plan = <<>> /\ scanners = <<>> /\ found = {}

\* Planned: the sections that may hold a hit, the highest bound first.
Planned ==
  LET items == {[section |-> i, bound |-> Bound(content[i].text)] :
                  i \in {j \in 1..Len(content) : MayHold(content[j].text)}}
  IN SetToSortSeq(items, LAMBDA a, b : \/ a.bound > b.bound
                                       \/ a.bound = b.bound /\ a.section < b.section)

\* A bound no hit has: a section that is not planned is never skipped.
Infinite == 99

Interleaved ==
  LET items == {[section |-> i, bound |-> Infinite] :
                  i \in {j \in 1..Len(content) : MayHold(content[j].text)}}
  IN SetToSortSeq(items, LAMBDA a, b : a.section < b.section)

StartScan(items, count) ==
  /\ plan' = items
  /\ scanners' = [t \in 1..count |-> NewScanner]
  /\ phase' = "scan"
  /\ UNCHANGED <<query, content, threads, mode, found>>

\* The plain scan has no plan.
PlanScan == phase = "plan" /\ query.prune /\ StartScan(Planned, threads)
PlainScan == phase = "plan" /\ ~query.prune /\ StartScan(Interleaved, 1)

\* The document outgrew the cap of the cache while it was planned.
FallBack == phase = "plan" /\ query.prune /\ threads > 1 /\ StartScan(Interleaved, 1)

\* Thread t of n takes the items t, t + n, t + 2n and so on.
ItemOf(t) == t + Len(scanners) * scanners[t].visited

ScanItem(t) ==
  /\ phase = "scan" /\ ItemOf(t) <= Len(plan)
  /\ scanners' = [scanners EXCEPT ![t] =
       [ScanSection(@, plan[ItemOf(t)]) EXCEPT !.visited = @ + 1]]
  /\ UNCHANGED <<query, content, threads, mode, phase, plan, found>>

TitleHits ==
  {Hit(content[i], "section", [text |-> content[i].title, start |-> 0]) :
     i \in {j \in 1..Len(content) : Accepts(content[j].title)}}

\* Each thread has its best, of which the best are the scan's.
Merge ==
  /\ phase = "scan" /\ \A t \in 1..Len(scanners) : ItemOf(t) > Len(plan)
  /\ found' = TitleHits \cup Best(UNION {Best(scanners[t].hits) : t \in 1..Len(scanners)})
  /\ phase' = "merged" /\ scanners' = <<>> /\ plan' = <<>>
  /\ UNCHANGED <<query, content, threads, mode>>

\* Only a query of several tokens without a single hit is relaxed.
Relaxes == found = {} /\ mode = "strict" /\ Cardinality(Terms) > 1

Relax ==
  /\ phase = "merged" /\ Relaxes
  /\ mode' = "relaxed" /\ phase' = "plan"
  /\ UNCHANGED <<query, content, threads, plan, scanners, found>>

AnswerSearch ==
  /\ phase = "merged" /\ ~Relaxes
  /\ found' = Best(found) /\ phase' = "answered"
  /\ UNCHANGED <<query, content, threads, mode, plan, scanners>>

LexicalNext ==
  \/ PlanScan \/ PlainScan \/ FallBack \/ Merge \/ Relax \/ AnswerSearch
  \/ \E t \in 1..Len(scanners) : ScanItem(t)

LexicalSpec == LexicalInit /\ [][LexicalNext]_lexicalVars

-----------------------------------------------------------------------------

\* Every hit of a document: what a search finds that looks at each title and
\* each unit and keeps everything.
UnitHits ==
  UNION {LET section == content[i] IN
         {Hit(section, "paragraph", p) : p \in {q \in ToSet(section.paragraphs) : Accepts(q.text)}}
         \cup {Hit(section, "sentence", s) : s \in {u \in ToSet(SentencesOf(section)) : Accepts(u.text)}} :
         i \in 1..Len(content)}

\* A search that prunes, in the order of the bounds and on any number of
\* threads, answers what the exhaustive one answers, ties included, and does
\* not relax a query that has a strict hit ("the final sort makes the visiting
\* order irrelevant to the result").
SearchIsExact ==
  phase = "answered" =>
    /\ found = Best(TitleHits \cup UnitHits)
    /\ mode = "relaxed" =>
         \A i \in 1..Len(content) :
           ~StrictMatch(content[i].title) /\ \A p \in ToSet(content[i].paragraphs) : ~StrictMatch(p.text)
==============================================================================
