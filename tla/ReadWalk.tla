------------------------------- MODULE ReadWalk -------------------------------
(***************************************************************************)
(* The v2 `read` tool over one stored book, and a client that follows its  *)
(* `next` to the end of the book, or to its start when it reads backward.  *)
(*                                                                         *)
(* A book is its sections in body order; each section's rows are its       *)
(* PreserveSource stream. A call is the loop of Fill::forward or           *)
(* Fill::backward, a page fetch or a row a step. Handles of other books,   *)
(* stale checksums and the store's own errors are HandleReads' concern.    *)
(***************************************************************************)
EXTENDS SectionStream, FiniteSets, FiniteSetsExt

CONSTANTS
  Books,            \* sequences of sections
  CharCount(_, _),  \* the characters of a unit of a section
  FetchChunk,       \* FETCH_CHUNK
  MaxBatch,         \* MAX_BATCH_CHARS
  Backs             \* the values of `back` a client's first call may have

ASSUME ReadAssumption ==
  /\ Books \subseteq Seq(Seq(Nat))
  /\ FetchChunk \in Nat \ {0} /\ MaxBatch \in Nat \ {0}
  /\ Backs \subseteq Nat
  /\ \A sections \in Books, units \in Kinds : \A sec \in 1..Len(sections) :
       LET stream == Stream(sections[sec], units, "preserve_source")
       IN  \A i \in 1..Len(stream) : CharCount(sections[sec], stream[i].unit) \in Nat

VARIABLES
  book,       \* the sections in body order
  kind,       \* the unit of every call of the walk
  streams,    \* the stored stream of each section, for that unit
  direction,  \* the direction of every call of the walk
  from,       \* what the call in hand starts from
  pc,         \* where the call is: start, head, rows, answered or failed
  call,       \* its max_chars and back; no max_chars is 0
  anchorAt,   \* the place `from` names
  place,      \* the position it fills from, or the exclusive end when backward
  fetched,    \* what is left of the fetched page
  items,      \* the items of the answer
  banners,    \* the sections of the answer
  anchor,     \* the index of the `from` item, as a set of at most one
  next,       \* what to continue from
  trail       \* auxiliary: every item the walk has returned, in reading order

walk == <<book, kind, streams, direction>>
answer == <<items, banners, anchor>>
walkVars == <<walk, from, pc, call, anchorAt, place, fetched, answer, next, trail>>

Place(sec, pos) == [sec |-> sec, pos |-> pos]

Total(sec) == Len(streams[sec])

\* An item of an answer: its handle names the section and the unit.
UnitItem(sec, unit) == [sec |-> sec, unit |-> unit]
Item(sec, row) == UnitItem(sec, row.unit)

Chars(item) == CharCount(book[item.sec], item.unit)

\* What `from` may be. A `next` is a unit or a cursor; the end of the walk has none.
DocumentHandle == [to |-> "document"]
SectionHandle(sec) == [to |-> "section", sec |-> sec]
UnitHandle(sec, unit) == [to |-> "unit", sec |-> sec, unit |-> unit]
Cursor(sec, pos) == [to |-> "cursor", sec |-> sec, unit |-> kind, pos |-> pos]
NoNext == [to |-> "end"]

HandlesOf(sections) ==
  {DocumentHandle} \cup
  UNION {{SectionHandle(sec)} \cup
         {UnitHandle(sec, Paragraph(p)) : p \in 1..Len(sections[sec]) + 1} \cup
         UNION {{UnitHandle(sec, Sentence(p, s)) : s \in 1..sections[sec][p] + 1} :
                p \in 1..Len(sections[sec])} :
         sec \in 1..Len(sections)}

WalkInit ==
  /\ book \in Books
  /\ kind \in Kinds
  /\ streams = [sec \in 1..Len(book) |-> Stream(book[sec], kind, "preserve_source")]
  /\ direction \in {"forward", "backward"}
  /\ from \in HandlesOf(book)
  /\ pc = "start"
  /\ call = [max |-> 0, back |-> 0]
  /\ anchorAt = Place(0, 0) /\ place = Place(0, 0)
  /\ fetched = <<>>
  /\ items = <<>> /\ banners = <<>> /\ anchor = {}
  /\ next = NoNext
  /\ trail = <<>>

-----------------------------------------------------------------------------
(* Neighbours in reading order; each is a set of at most one *)

NextNonEmpty(sec) ==
  LET full == {s \in sec..Len(book) : Total(s) > 0}
  IN  IF full = {} THEN {} ELSE {Min(full)}

PrevNonEmpty(sec) ==
  LET full == {s \in 1..sec : Total(s) > 0}
  IN  IF full = {} THEN {} ELSE {Max(full)}

\* Mutant: stops at the start of the section.
StepBackInSection(at) == IF at.pos > 0 THEN {Place(at.sec, at.pos - 1)} ELSE {}

StepBack(at) ==
  IF at.pos > 0
    THEN {Place(at.sec, at.pos - 1)}
    ELSE {Place(sec, Total(sec) - 1) : sec \in PrevNonEmpty(at.sec - 1)}

ForwardNext(at) ==
  IF at.pos < Total(at.sec)
    THEN {at}
    ELSE {Place(sec, 0) : sec \in NextNonEmpty(at.sec + 1)}

BackwardNext(end) ==
  IF end.pos > 0
    THEN {end}
    ELSE {Place(sec, Total(sec)) : sec \in PrevNonEmpty(end.sec - 1)}

StreamPosition(sec, unit) == {i - 1 : i \in {j \in 1..Total(sec) : streams[sec][j].unit = unit}}

\* The place a `from` names. A paragraph handle of the sentence stream is a coarse paragraph or
\* the first sentence of a prose one; a sentence handle of the paragraph stream is its paragraph.
Anchor(handle) ==
  CASE handle.to = "document" ->
         LET first == NextNonEmpty(1)
         IN  IF first = {} THEN {Place(1, 0)} ELSE {Place(sec, 0) : sec \in first}
    [] handle.to = "section" -> {Place(handle.sec, 0)}
    [] handle.to = "cursor" -> {Place(handle.sec, handle.pos)}
    [] handle.to = "unit" ->
         LET p     == handle.unit.para
             whole == StreamPosition(handle.sec, Paragraph(p))
             first == StreamPosition(handle.sec, Sentence(p, 1))
             found == IF kind = "paragraph" THEN whole
                      ELSE IF handle.unit.sent # 0 THEN StreamPosition(handle.sec, handle.unit)
                      ELSE IF whole # {} THEN whole ELSE first
         IN  {Place(handle.sec, pos) : pos \in found}

-----------------------------------------------------------------------------
(* One call *)

Limit == IF call.max # 0 THEN 0 ELSE call.back + 1
LimitReached == Limit # 0 /\ Len(items) >= Limit
Want == IF Limit = 0 THEN FetchChunk ELSE Min({Limit - Len(items), FetchChunk})

SumChars(list) == FoldLeft(LAMBDA sum, item : sum + Chars(item), 0, list)

\* `back` steps before the anchor, as far as the book goes.
SteppedBack(at, back) ==
  LET step(start, i) == IF StepBack(start) = {} THEN start ELSE CHOOSE p \in StepBack(start) : TRUE
  IN  FoldLeft(step, at, [i \in 1..back |-> i])

\* Mutant: reads a cursor's own item again.
FillFromItem(handle, at, back) ==
  LET start == SteppedBack(at, back)
  IN  IF direction = "forward" THEN start ELSE Place(start.sec, start.pos + 1)

\* A call reads back from the item it starts at; a cursor's own item is already read.
FillFrom(handle, at, back) ==
  LET start == SteppedBack(at, back)
  IN  IF direction = "forward" THEN start
      ELSE IF back = 0 /\ handle.to = "cursor" THEN start
      ELSE Place(start.sec, start.pos + 1)

Begin(handle, max, back) ==
  /\ from' = handle
  /\ call' = [max |-> max, back |-> back]
  /\ items' = <<>> /\ banners' = <<>> /\ anchor' = {}
  /\ next' = NoNext
  /\ fetched' = <<>>
  /\ IF book = <<>> \/ Anchor(handle) = {}
       THEN /\ pc' = IF book = <<>> THEN "answered" ELSE "unknown"
            /\ UNCHANGED <<anchorAt, place>>
       ELSE \E at \in Anchor(handle) :
              /\ pc' = "head"
              /\ anchorAt' = at
              /\ place' = FillFrom(handle, at, back)
  /\ UNCHANGED <<walk, trail>>

FirstCall ==
  /\ pc = "start"
  /\ \E max \in 0..MaxBatch, back \in Backs : Begin(from, max, back)

\* The client passes `next` back, with any budget.
Follow ==
  /\ pc = "answered" /\ next # NoNext
  /\ \E max \in 0..MaxBatch : Begin(next, max, 0)

\* Answers what was read, and remembers where a next call resumes.
Answer(resume) ==
  /\ pc' = "answered"
  /\ next' = IF resume = {} THEN NoNext
             ELSE LET at == CHOOSE p \in resume : TRUE
                  IN  IF direction = "forward"
                        THEN UnitHandle(at.sec, streams[at.sec][at.pos + 1].unit)
                        ELSE Cursor(at.sec, at.pos)
  /\ trail' = IF direction = "forward" THEN trail \o items ELSE items \o trail
  /\ UNCHANGED <<walk, from, call, anchorAt, place, fetched, answer>>

MoveTo(resume) ==
  /\ \E p \in resume : place' = p
  /\ UNCHANGED <<walk, from, pc, call, anchorAt, fetched, answer, next, trail>>

Fetch(page) ==
  /\ pc' = "rows"
  /\ fetched' = page
  /\ UNCHANGED <<walk, from, call, anchorAt, place, answer, next, trail>>

ForwardHead ==
  /\ pc = "head" /\ direction = "forward"
  /\ IF LimitReached THEN Answer(ForwardNext(place))
     ELSE LET page  == Slice(streams[place.sec], place.pos,
                             Min({place.pos + Want, Total(place.sec)}))
              after == {Place(sec, 0) : sec \in NextNonEmpty(place.sec + 1)}
          IN  IF place.pos < Total(place.sec) THEN Fetch(page)
              ELSE IF after = {} THEN Answer({}) ELSE MoveTo(after)

BackwardHead ==
  /\ pc = "head" /\ direction = "backward"
  /\ IF LimitReached THEN Answer(BackwardNext(place))
     ELSE IF place.pos = 0
       THEN IF BackwardNext(place) = {} THEN Answer({}) ELSE MoveTo(BackwardNext(place))
     ELSE IF place.pos > Total(place.sec) THEN MoveTo({Place(place.sec, Total(place.sec))})
     ELSE Fetch(Slice(streams[place.sec], IF Want > place.pos THEN 0 ELSE place.pos - Want,
                      place.pos))

\* Fill::record: the section's banner at its first item, and where the `from` item went.
Record(at, index, shifted, moved) ==
  /\ banners' = IF at.pos = 0 THEN Append(shifted, [at |-> index, sec |-> at.sec]) ELSE shifted
  /\ anchor' = IF call.back > 0 /\ anchorAt = at THEN {index} ELSE moved

Took(page) ==
  /\ fetched' = page
  /\ pc' = IF page = <<>> THEN "head" ELSE "rows"
  /\ UNCHANGED <<walk, from, call, anchorAt, next, trail>>

Push(row) ==
  /\ Record(place, Len(items), banners, anchor)
  /\ items' = Append(items, Item(place.sec, row))
  /\ place' = Place(place.sec, place.pos + 1)
  /\ Took(Tail(fetched))

\* Mutant: leaves the marks where they were.
UnshiftUnmoved(row) ==
  LET at == Place(place.sec, place.pos - 1)
  IN  /\ Record(at, 0, banners, anchor)
      /\ items' = <<Item(at.sec, row)>> \o items
      /\ place' = at
      /\ Took(Front(fetched))

\* Backward fills from the end, so what is already collected moves by one.
Unshift(row) ==
  LET at == Place(place.sec, place.pos - 1)
  IN  /\ Record(at, 0, [i \in 1..Len(banners) |-> [banners[i] EXCEPT !.at = @ + 1]],
                {i + 1 : i \in anchor})
      /\ items' = <<Item(at.sec, row)>> \o items
      /\ place' = at
      /\ Took(Front(fetched))

\* too_long: the first item alone is over the budget.
Fail ==
  /\ pc' = "failed"
  /\ UNCHANGED <<walk, from, call, anchorAt, place, fetched, answer, next, trail>>

RowChars(row) == Chars(Item(place.sec, row))

TooLong(row) == call.max # 0 /\ items = <<>> /\ RowChars(row) > call.max

\* Mutant: refuses the item that fills the budget.
OverBudgetAtLimit(row) == call.max # 0 /\ SumChars(items) + RowChars(row) >= call.max

OverBudget(row) == call.max # 0 /\ SumChars(items) + RowChars(row) > call.max

ForwardRow ==
  /\ pc = "rows" /\ direction = "forward"
  /\ IF LimitReached THEN Answer(ForwardNext(place))
     ELSE IF TooLong(Head(fetched)) THEN Fail
     ELSE IF OverBudget(Head(fetched)) THEN Answer(ForwardNext(place))
     ELSE Push(Head(fetched))

BackwardRow ==
  /\ pc = "rows" /\ direction = "backward"
  /\ IF LimitReached THEN Answer(BackwardNext(place))
     ELSE IF TooLong(Last(fetched)) THEN Fail
     ELSE IF OverBudget(Last(fetched)) THEN Answer(BackwardNext(place))
     ELSE Unshift(Last(fetched))

\* Mutant: asks again with the budget that was too small.
RetryUnchanged == pc = "failed" /\ Begin(from, call.max, call.back)

\* too_long_retry: the same call with the item's own count. An item no batch may hold has no
\* retry, and the client reads it without max_chars.
Retry ==
  /\ pc = "failed"
  /\ LET row == IF direction = "forward" THEN Head(fetched) ELSE Last(fetched)
         chars == RowChars(row)
     IN  Begin(from, IF chars > MaxBatch THEN 0 ELSE chars, call.back)

WalkNext == FirstCall \/ Follow \/ ForwardHead \/ BackwardHead \/ ForwardRow \/ BackwardRow \/ Retry

\* The server finishes a call it began; the client follows `next` and retries what it is told to.
WalkSpec == WalkInit /\ [][WalkNext]_walkVars /\ WF_walkVars(WalkNext)

-----------------------------------------------------------------------------
(* Properties *)

\* The whole book in reading order.
Flat == FlattenSeq([sec \in 1..Len(book) |->
          [i \in 1..Total(sec) |-> Item(sec, streams[sec][i])]])

Before(sec) == FoldLeft(LAMBDA sum, s : sum + Total(s), 0, [s \in 1..sec - 1 |-> s])

\* How many items of the book come before a place, the ends of a section included.
ItemsBefore(at) == Before(at.sec) + Min({at.pos, Total(at.sec)})

IsRun(list, flat, first) == list = SubSeq(flat, first, first + Len(list) - 1)

\* An answer is a run of the book in reading order. Read forward it starts `back` items before the
\* place `from` names, or at the start of the book; read backward it ends with the item there.
AnswersRun ==
  (pc = "answered" /\ book # <<>>) =>
    LET flat  == Flat
        named == ItemsBefore(anchorAt)
        start == IF call.back > named THEN 0 ELSE named - call.back
        stop  == IF call.back = 0 /\ from.to = "cursor" THEN start
                 ELSE IF call.back > 0 \/ anchorAt.pos < Total(anchorAt.sec)
                        THEN Min({start + 1, Len(flat)}) ELSE start
    IN  IF direction = "forward" THEN IsRun(items, flat, start + 1)
        ELSE /\ Len(items) <= stop
             /\ IsRun(items, flat, stop - Len(items) + 1)

\* Following `next` returns every item from the first one on exactly once, in order: what has been
\* returned is a run of the book, `next` names its neighbour, and there is no `next` only when the
\* run reaches the end of the book, or its start.
WalkIsExact ==
  (pc = "answered" /\ trail # <<>>) =>
    LET flat == Flat IN
    \E first \in 1..Len(flat) :
      LET last == first + Len(trail) - 1
      IN  /\ last <= Len(flat) /\ IsRun(trail, flat, first)
          /\ IF direction = "forward"
               THEN next = IF last = Len(flat) THEN NoNext
                           ELSE UnitHandle(flat[last + 1].sec, flat[last + 1].unit)
               ELSE IF first = 1 THEN next = NoNext
                    ELSE next.to = "cursor" /\ next.pos > 0 /\ ItemsBefore(next) = first - 1

\* A batch never exceeds max_chars, and stops early only before an item that would: the first item
\* of the next call would not have fitted in this one. Without max_chars the count is exact.
BudgetHonoured ==
  (pc = "answered" /\ book # <<>>) =>
    LET continues == IF direction = "forward"
                       THEN Flat[ItemsBefore(place) + 1] ELSE Flat[ItemsBefore(place)]
    IN  IF call.max # 0
          THEN /\ SumChars(items) <= call.max
               /\ next # NoNext => SumChars(items) + Chars(continues) > call.max
          ELSE IF next = NoNext THEN Len(items) <= call.back + 1
                                ELSE Len(items) = call.back + 1

\* The banners of an answer are those of the sections whose first item it holds, each at that
\* item; `anchor` is the index of the item `from` named, whenever `back` was given and it is there.
MarksRight ==
  (pc = "answered" /\ book # <<>>) =>
    /\ {banners[i] : i \in 1..Len(banners)} =
         {[at |-> i - 1, sec |-> items[i].sec] :
            i \in {j \in 1..Len(items) : items[j] = Item(items[j].sec, streams[items[j].sec][1])}}
    /\ anchor = IF call.back = 0 THEN {}
                ELSE {i - 1 : i \in {j \in 1..Len(items) :
                        /\ anchorAt.pos < Total(anchorAt.sec)
                        /\ items[j] = Item(anchorAt.sec, streams[anchorAt.sec][anchorAt.pos + 1])}}

\* A client that follows `next`, and retries a too_long with the count it is given, gets to the
\* end: a walk never stays at one place.
WalkEnds == <>(pc = "unknown" \/ (pc = "answered" /\ next = NoNext))
==============================================================================
