------------------------------ MODULE UnitTools ------------------------------
(***************************************************************************)
(* The v1 tools that answer with units of a section: get_text_units pages  *)
(* through its stream, get_context takes a window of it or the paragraph   *)
(* around a unit, read_document cuts the text of a unit or of the section  *)
(* into pages of characters. A page ends with a cursor: the claims the     *)
(* next call is checked against.                                           *)
(*                                                                         *)
(* The header of the document and the units are separate stores, and every *)
(* question to one of them is a step. The document is ingested anew at any *)
(* time: first its units, then its header, as in OpenPipeline. It has one  *)
(* section; a text is its paragraphs with their ranges and those of their  *)
(* sentences, and stands for its hash.                                     *)
(***************************************************************************)
EXTENDS SectionStream, FiniteSetsExt

CONSTANTS
  Texts,       \* the versions of the section: paragraphs [start, end, sentences]
  ItemLimits,  \* max_items
  CharLimits,  \* max_chars
  Windows      \* the before and after of a context

VARIABLES
  header,    \* the version of the documents row
  unitRows,  \* the version of the stored units
  task,      \* the call: its tool and arguments, until it is refused
  stage,     \* the store call it is at
  seen,      \* the version of the header it read
  target,    \* the locator it resolved, of the stored units
  total,     \* the length of the stream it was told
  spot,      \* the position it is at
  origin,    \* the position of the anchor of a walk, -1 without one
  ticket,    \* the cursor the client has, NoTicket without one
  reply,     \* what the last call came to
  gathered,  \* what the calls since the first without a cursor returned
  calm       \* auxiliary: no ingest ran during any of them

unitVars == <<header, unitRows, task, stage, seen, target, total, spot, origin, ticket,
              reply, gathered, calm>>

-----------------------------------------------------------------------------
(* Texts, locators and cursors.                                            *)

ShapeOf(text) == [p \in 1..Len(text) |-> Len(text[p].sentences)]
StreamOf(text, kind, policy) == Stream(ShapeOf(text), kind, policy)

UnitsOf(text) ==
  {entry.unit : entry \in ToSet(StreamOf(text, "paragraph", "preserve_source")
                                \o StreamOf(text, "sentence", "preserve_source"))}

RangeOf(text, unit) ==
  LET p == text[unit.para] IN
  IF unit.sent = 0 THEN [start |-> p.start, end |-> p.end] ELSE p.sentences[unit.sent]

Size(range) == range.end - range.start
LengthOf(text) == text[Len(text)].end

KindOf(unit) == IF unit.sent = 0 THEN "paragraph" ELSE "sentence"

Locator(text, unit) == [text |-> text, unit |-> unit, range |-> RangeOf(text, unit)]
Locators == UNION {{Locator(text, unit) : unit \in UnitsOf(text)} : text \in Texts}

NoLocator == [text |-> <<>>]
NoTicket == [tool |-> "none"]
NoReply == [is |-> "none"]
Refused(why) == [is |-> "error", why |-> why]

\* A cursor is for the call that continues it.
Scope(t) == [tool |-> t.tool, kind |-> t.kind, direction |-> t.direction, policy |-> t.policy]

UnitTicket(next) ==
  [tool |-> task.tool, scope |-> Scope(task), text |-> seen, next |-> next,
   total |-> total, origin |-> origin]

CharTicket(next) ==
  [tool |-> task.tool, text |-> seen, next |-> next,
   bound |-> IF task.tool = "exact" THEN <<target.unit, target.range>> ELSE <<>>]

\* What a cursor is refused for before anything is read: another stream, or another tool.
UnitScopeMismatch(t) == IF ticket.scope # Scope(t) THEN "cursor_target_mismatch" ELSE "none"
CharScopeMismatch(t) == IF t.tool # ticket.tool THEN "stale_cursor" ELSE "none"

\* The two kinds of cursors have prefixes of their own.
ScopeMismatch(t) ==
  IF (t.tool = "units") # (ticket.tool = "units") THEN "invalid_cursor"
  ELSE IF t.tool = "units" THEN UnitScopeMismatch(t) ELSE CharScopeMismatch(t)

-----------------------------------------------------------------------------
(* Calls.                                                                  *)

IdleTask == [tool |-> "none"]

UnitInit ==
  /\ header \in Texts /\ unitRows = header
  /\ task = IdleTask /\ stage = "idle" /\ seen = <<>> /\ target = NoLocator
  /\ total = 0 /\ spot = 0 /\ origin = -1
  /\ ticket = NoTicket /\ reply = NoReply /\ gathered = <<>> /\ calm = TRUE

Rows == <<header, unitRows>>
Progress == <<seen, target, total, spot, origin>>

\* A client that has a cursor comes with it.
Continues == ticket # NoTicket

ToStage(next) == stage' = next /\ UNCHANGED <<Rows, task, ticket, reply, gathered, calm>>

ReplyWith(r, next, all) ==
  /\ stage' = "idle" /\ reply' = r /\ ticket' = next /\ gathered' = all
  /\ seen' = <<>> /\ target' = NoLocator /\ total' = 0 /\ spot' = 0 /\ origin' = -1
  /\ task' = IF r.is = "error" THEN IdleTask ELSE task
  /\ UNCHANGED <<Rows, calm>>

\* A call that fails leaves the client the cursor it came with.
Refuse(why) == ReplyWith(Refused(why), ticket, gathered)

UnitCalls(locators) ==
  [tool : {"units"}, kind : Kinds, direction : {"forward", "backward"}, policy : Policies,
   items : ItemLimits, chars : CharLimits, locator : locators]

CharCalls ==
  [tool : {"exact"}, kind : {"paragraph"}, direction : {"forward"},
   policy : {"preserve_source"}, chars : CharLimits, locator : Locators]
  \cup
  [tool : {"tree"}, kind : {"paragraph"}, direction : {"forward"},
   policy : {"preserve_source"}, chars : CharLimits, locator : {NoLocator}]

ContextCalls ==
  [tool : {"window"}, kind : Kinds, direction : {"forward"}, policy : {"preserve_source"},
   before : Windows, after : Windows, chars : CharLimits, locator : Locators]
  \cup
  [tool : {"container"}, kind : {"paragraph"}, direction : {"forward"},
   policy : {"preserve_source"}, chars : CharLimits, locator : Locators]

\* A walk begins with a call without a cursor; an anchor goes with none.
FirstCalls == UnitCalls(Locators \cup {NoLocator}) \cup CharCalls \cup ContextCalls
NextCalls == UnitCalls({NoLocator}) \cup CharCalls

\* The client is done with its last answer, and its cursor.
StartOver ==
  /\ stage = "idle" /\ reply # NoReply
  /\ task' = IdleTask /\ ticket' = NoTicket /\ reply' = NoReply /\ gathered' = <<>> /\ calm' = TRUE
  /\ UNCHANGED <<Rows, stage, Progress>>

FirstRequest ==
  /\ stage = "idle" /\ reply = NoReply
  /\ \E t \in FirstCalls : task' = t
  /\ stage' = "header" /\ calm' = (header = unitRows)
  /\ UNCHANGED <<Rows, Progress, ticket, reply, gathered>>

NextRequest ==
  /\ stage = "idle" /\ ticket # NoTicket
  /\ \E t \in NextCalls :
       LET mismatch == ScopeMismatch(t) IN
       /\ task' = IF mismatch = "none" THEN t ELSE IdleTask
       /\ reply' = IF mismatch = "none" THEN NoReply ELSE Refused(mismatch)
       /\ stage' = IF mismatch = "none" THEN "header" ELSE "idle"
  /\ calm' = (calm /\ header = unitRows)
  /\ UNCHANGED <<Rows, Progress, ticket, gathered>>

\* The header; a cursor of another version is stale.
AfterHeader ==
  CASE task.tool = "units" -> "summary"
    [] task.tool = "tree" -> "text"
    [] OTHER -> "resolve"

ReadUnitHeader ==
  /\ stage = "header"
  /\ IF Continues /\ ticket.text # header THEN Refuse("stale_cursor")
     ELSE /\ seen' = header /\ ToStage(AfterHeader)
          /\ UNCHANGED <<target, total, spot, origin>>

\* Mutant: the stored unit may have another range.
ResolvesByIndex(locator) == locator.text = seen /\ locator.unit \in UnitsOf(unitRows)

\* resolve_text_locator_at: the locator is of the version seen, and the stored unit has its range.
Resolves(locator) ==
  /\ locator.text = seen
  /\ locator.unit \in UnitsOf(unitRows) /\ RangeOf(unitRows, locator.unit) = locator.range

\* What is resolved is the stored unit.
ResolveLocator ==
  /\ stage = "resolve"
  /\ CASE ~Resolves(task.locator) -> Refuse("stale_locator")
       [] Resolves(task.locator) /\ task.tool = "window" /\ KindOf(task.locator.unit) # task.kind ->
            Refuse("invalid_request")
       [] OTHER ->
            /\ target' = Locator(unitRows, task.locator.unit)
            /\ ToStage(CASE task.tool = "window" -> "summary"
                         [] task.tool = "exact" -> "text"
                         [] OTHER -> "locate")
            /\ UNCHANGED <<seen, total, spot, origin>>

\* A position there is something left at, and on its side of the anchor.
Resumable(next, anchor, length) ==
  IF task.direction = "forward" THEN next < length /\ next > anchor
  ELSE next \in 1..length /\ (anchor = -1 \/ next <= anchor)

\* Why a walk does not continue in a stream of this length.
TicketFails(length) ==
  CASE ticket.total # length -> "stale_cursor"
    [] ticket.total = length /\ ~Resumable(ticket.next, ticket.origin, length) -> "invalid_cursor"
    [] OTHER -> "none"

ReadSummary ==
  /\ stage = "summary"
  /\ LET length == Len(StreamOf(unitRows, task.kind, task.policy)) IN
     CASE task.tool = "window" ->
            /\ total' = length /\ ToStage("locate") /\ UNCHANGED <<seen, target, spot, origin>>
       [] task.tool = "units" /\ Continues ->
            IF ticket.origin >= length THEN Refuse("invalid_cursor")
            ELSE /\ total' = length /\ spot' = ticket.next /\ origin' = ticket.origin
                 /\ ToStage("resume") /\ UNCHANGED <<seen, target>>
       [] OTHER ->
            /\ total' = length
            /\ spot' = IF task.direction = "forward" THEN 0 ELSE length
            /\ ToStage(IF task.locator = NoLocator THEN "page" ELSE "resolve")
            /\ UNCHANGED <<seen, target, origin>>

\* section_stream_position of the unit, or of the paragraph it is in.
LocateUnit ==
  /\ stage = "locate"
  /\ LET unit == IF task.tool = "container" THEN Paragraph(target.unit.para) ELSE target.unit
         stream == StreamOf(unitRows, task.kind, task.policy)
         places == {i \in 1..Len(stream) : stream[i].unit = unit}
     IN IF places = {} THEN Refuse("not_in_stream")
        ELSE /\ spot' = Min(places) - 1
             /\ ToStage(CASE task.tool = "units" -> "anchor"
                          [] task.tool = "window" -> "items"
                          [] OTHER -> "class")
             /\ UNCHANGED <<seen, target, total, origin>>

\* The items of a stream from one position to another, as locators.
ItemsAt(start, end) ==
  LET stream == StreamOf(unitRows, task.kind, task.policy)
      run == SubSeq(stream, start + 1, Min({end, Len(stream)}))
  IN [i \in 1..Len(run) |-> Locator(unitRows, run[i].unit)]

\* The anchor has to be where its position says; the walk leaves it out.
ReadAnchor ==
  /\ stage = "anchor"
  /\ IF ItemsAt(spot, spot + 1) # <<target>> THEN Refuse("not_in_stream")
     ELSE /\ origin' = spot
          /\ spot' = IF task.direction = "forward" THEN spot + 1 ELSE spot
          /\ ToStage("page") /\ UNCHANGED <<seen, target, total>>

\* The locator of the anchor a walk began at is read again, before the cursor is accepted.
Resume ==
  /\ stage = "resume"
  /\ LET anchor == IF origin = -1 THEN <<>> ELSE ItemsAt(origin, origin + 1) IN
     IF TicketFails(total) # "none" THEN Refuse(TicketFails(total))
     ELSE /\ target' = IF anchor = <<>> THEN NoLocator ELSE anchor[1]
          /\ ToStage("page") /\ UNCHANGED <<seen, total, spot, origin>>

Sizes(items) == [i \in 1..Len(items) |-> Size(items[i].range)]
SumOf(sizes) == FoldSeq(LAMBDA a, b : a + b, 0, sizes)

\* Mutant: a page that leaves rows out goes on after the rows it fetched.
NextAfterFetched(rows, kept) == IF task.direction = "forward" THEN spot + Len(rows) ELSE spot - Len(rows)

\* Where a page of the rows that were kept ends, and the next one goes on.
NextAfter(rows, kept) == IF task.direction = "forward" THEN spot + kept ELSE spot - kept

\* Rows from the end the walk is at, as many as the characters allow.
KeptRows(rows) ==
  LET sizes == IF task.direction = "forward" THEN Sizes(rows) ELSE Reverse(Sizes(rows)) IN
  Max({n \in 0..Len(rows) : SumOf(SubSeq(sizes, 1, n)) <= task.chars})

\* The store takes a backward position for the end of its stream where that is shorter.
PageRows ==
  LET end == Min({spot, Len(StreamOf(unitRows, task.kind, task.policy))}) IN
  IF task.direction = "forward" THEN ItemsAt(spot, spot + task.items)
  ELSE ItemsAt(Max({end - task.items, 0}), end)

ReadPage ==
  /\ stage = "page"
  /\ LET rows == PageRows
         kept == KeptRows(rows)
         forward == task.direction = "forward"
         items == IF forward THEN SubSeq(rows, 1, kept)
                  ELSE SubSeq(rows, Len(rows) - kept + 1, Len(rows))
         next == NextAfter(rows, kept)
         whole == next = IF forward THEN total ELSE 0
     IN CASE spot > total -> Refuse("invalid_cursor")
          [] spot <= total /\ rows # <<>> /\ kept = 0 -> Refuse("resource_limit_exceeded")
          [] OTHER ->
               ReplyWith([is |-> "page", text |-> seen, items |-> items, total |-> total,
                          origin |-> origin, anchor |-> target, next |-> next, complete |-> whole,
                          section |-> whole /\ origin = -1 /\ task.policy = "preserve_source"],
                         IF whole THEN NoTicket ELSE UnitTicket(next),
                         IF forward THEN gathered \o items ELSE items \o gathered)

\* get_context: a window of the stream, in which the anchor must be the target. Where the stream
\* has become shorter than the anchor's position, the subtraction of its bounds underflows.
Fits(items) == SumOf(Sizes(items)) + 2 * Max({Len(items) - 1, 0}) <= task.chars

ReadWindow ==
  /\ stage = "items"
  /\ LET start == Max({spot - task.before, 0})
         end == Min({spot + task.after + 1, total})
         items == ItemsAt(start, end)
         anchor == spot - start + 1
     IN CASE start > end -> Refuse("panicked") \/ Refuse("not_in_stream")
          [] start <= end /\ ~(anchor <= Len(items) /\ items[anchor] = target) ->
               Refuse("not_in_stream")
          [] OTHER ->
               IF Fits(items)
               THEN ReplyWith([is |-> "window", text |-> seen, items |-> items, anchor |-> anchor,
                               target |-> target], NoTicket, <<>>)
               ELSE Refuse("resource_limit_exceeded")

\* The class of the paragraph is a row of its stream, its text the stored unit.
ReadClass ==
  /\ stage = "class"
  /\ IF ItemsAt(spot, spot + 1) = <<>> THEN Refuse("stale_locator")
     ELSE ToStage("unit") /\ UNCHANGED Progress

ReadContainer ==
  /\ stage = "unit"
  /\ LET unit == Paragraph(target.unit.para) IN
     IF unit \notin UnitsOf(unitRows) THEN Refuse("stale_locator")
     ELSE IF ~Fits(<<Locator(unitRows, unit)>>) THEN Refuse("resource_limit_exceeded")
     ELSE ReplyWith([is |-> "container", text |-> seen, items |-> <<Locator(unitRows, unit)>>,
                     target |-> target], NoTicket, <<>>)

\* read_document: a page of the text of the section, or of the target in it.
CharTicketFails(length) ==
  CASE task.tool = "exact" /\ ticket.bound # <<target.unit, target.range>> ->
         "cursor_target_mismatch"
    [] ticket.next >= length -> "invalid_cursor"
    [] OTHER -> "none"

\* Mutant: the page is cut from the section, not from the target in it.
CutFromSection(range, start) == [from |-> start, to |-> Min({start + task.chars, Size(range)})]

Cut(range, start) ==
  [from |-> range.start + start, to |-> range.start + Min({start + task.chars, Size(range)})]

\* The text is refused while its rows belong to another version than the header.
ReadText ==
  /\ stage = "text"
  /\ LET range == IF task.tool = "exact" THEN target.range
                  ELSE [start |-> 0, end |-> LengthOf(unitRows)]
         length == Size(range)
         start == IF Continues THEN ticket.next ELSE 0
         end == Min({start + task.chars, length})
         misplaced == header # unitRows
     IN IF task.tool = "tree" /\ misplaced THEN Refuse("stale_document")
        ELSE IF Continues /\ CharTicketFails(length) # "none" THEN Refuse(CharTicketFails(length))
        ELSE IF misplaced THEN Refuse("stale_document")
        ELSE IF range.end > LengthOf(unitRows) THEN Refuse("invalid_locator")
        ELSE ReplyWith([is |-> "chars", text |-> seen, range |-> range, complete |-> end = length],
                       IF end = length THEN NoTicket ELSE CharTicket(end),
                       Append(gathered, Cut(range, start)))

\* The document is ingested anew: its units, then its header.
StoreUnits(text) ==
  /\ text # unitRows /\ unitRows' = text
  /\ calm' = (calm /\ stage = "idle")
  /\ UNCHANGED <<header, task, stage, seen, target, total, spot, origin, ticket, reply, gathered>>

StoreHeader ==
  /\ header # unitRows /\ header' = unitRows
  /\ calm' = (calm /\ stage = "idle")
  /\ UNCHANGED <<unitRows, task, stage, seen, target, total, spot, origin, ticket, reply, gathered>>

ToolStep ==
  \/ ReadUnitHeader \/ ResolveLocator \/ ReadSummary \/ LocateUnit \/ ReadAnchor \/ Resume
  \/ ReadPage \/ ReadWindow \/ ReadClass \/ ReadContainer \/ ReadText

UnitNext ==
  \/ StartOver \/ FirstRequest \/ NextRequest \/ ToolStep
  \/ \E text \in Texts : StoreUnits(text)
  \/ StoreHeader

UnitSpec == UnitInit /\ [][UnitNext]_unitVars

-----------------------------------------------------------------------------

(* Properties *)

Listed(text, kind, policy) ==
  LET stream == StreamOf(text, kind, policy) IN
  [i \in 1..Len(stream) |-> Locator(text, stream[i].unit)]

\* get_text_units: when no ingest ran during a call of the walk, what the pages returned from the
\* first to the last is, whatever was ingested between them, one run of the stream of one version,
\* from its end or from the anchor, to where the cursor goes on; no cursor is left when the run
\* reaches the other end, and a page stops early only at the item that would not fit.
UnitPagesExact ==
  (calm /\ stage = "idle" /\ reply.is = "page") =>
    LET all == Listed(reply.text, task.kind, task.policy)
        n == Len(reply.items)
        first == IF reply.origin = -1 THEN 0 ELSE reply.origin + 1
        last == IF reply.origin = -1 THEN Len(all) ELSE reply.origin
    IN /\ reply.total = Len(all)
       /\ reply.origin # -1 => reply.anchor = all[reply.origin + 1]
       /\ SumOf(Sizes(reply.items)) <= task.chars /\ n <= task.items
       /\ reply.complete <=> ticket = NoTicket
       /\ IF task.direction = "forward"
            THEN /\ gathered = SubSeq(all, first + 1, reply.next)
                 /\ reply.complete <=> reply.next = Len(all)
                 /\ (n < task.items /\ ~reply.complete) =>
                      SumOf(Sizes(reply.items)) + Size(all[reply.next + 1].range) > task.chars
            ELSE /\ gathered = SubSeq(all, reply.next + 1, last)
                 /\ reply.complete <=> reply.next = 0
                 /\ (n < task.items /\ ~reply.complete) =>
                      SumOf(Sizes(reply.items)) + Size(all[reply.next].range) > task.chars
       /\ reply.section => gathered = Listed(reply.text, task.kind, "preserve_source")

\* read_document: the pages of a text, put together, are the start of the target, or of the section,
\* in one version; there is a cursor exactly while some of it is left.
TextPagesExact ==
  (calm /\ stage = "idle" /\ reply.is = "chars") =>
    LET last == gathered[Len(gathered)] IN
    /\ reply.range = IF task.tool = "exact" THEN task.locator.range
                     ELSE [start |-> 0, end |-> LengthOf(reply.text)]
    /\ gathered[1].from = reply.range.start
    /\ \A i \in 2..Len(gathered) : gathered[i].from = gathered[i - 1].to
    /\ last.to - last.from <= task.chars
    /\ reply.complete <=> last.to = reply.range.end
    /\ reply.complete <=> ticket = NoTicket

\* get_context: a window has at its anchor the very unit the caller named, with the range the caller
\* has of it, whatever is ingested during the call, and is a run of one version's stream. With no
\* ingest during the call it is the whole window, or the paragraph around the unit.
ContextExact ==
  /\ reply.is = "window" =>
       LET all == Listed(reply.target.text, task.kind, "preserve_source")
           at == CHOOSE i \in 1..Len(all) : all[i] = reply.target
           first == Max({at - task.before, 1})
       IN /\ reply.target.unit = task.locator.unit /\ reply.target.range = task.locator.range
          /\ reply.items = SubSeq(all, first, first + Len(reply.items) - 1)
          /\ reply.items[reply.anchor] = reply.target
          /\ calm => reply.items = SubSeq(all, first, Min({at + task.after, Len(all)}))
  /\ (calm /\ reply.is = "container") =>
       reply.items = <<Locator(task.locator.text, Paragraph(task.locator.unit.para))>>

=============================================================================
