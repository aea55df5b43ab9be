-------------------------- MODULE RawResourceCache --------------------------
(***************************************************************************)
(* One URL in the raw cache of a state directory: RevalidatingHttpRetriever *)
(* over FileRawResourceCache. An entry is two files, the body and the      *)
(* metadata with the validators, each written in place by std::fs::write,  *)
(* which empties the file and then fills it. Reads and writes are jobs of  *)
(* their own on the blocking pool; nothing locks the entry, so retrievals  *)
(* of the same URL, deadlines and crashes fall between any two of them.    *)
(*                                                                         *)
(* The origin is external: it serves one response at a time and answers a  *)
(* conditional request 304 exactly when the validators are those of the    *)
(* response it serves now. A response stands for its body, its headers and *)
(* its validators, and different responses differ in each.                 *)
(***************************************************************************)
EXTENDS Naturals, FiniteSets

CONSTANTS
  Requests,    \* retrievals, reused once they ended
  Responses,   \* what the origin may serve
  Validated,   \* the responses with an ETag or a Last-Modified date
  Absent,      \* no file, nothing held
  Partial,     \* a file that is empty or holds the beginning of a response
  Mixed        \* a file two writers filled over each other

ASSUME RawAssumption ==
  /\ Validated \subseteq Responses
  /\ Responses \cap {Absent, Partial, Mixed} = {}
  /\ Absent # Partial /\ Absent # Mixed /\ Partial # Mixed
  /\ Absent \notin Requests

VARIABLES
  origin,    \* the response the origin serves now
  body,      \* the .bin file
  meta,      \* the .json file
  pc,        \* the next operation of a retrieval
  held,      \* the entry it read or the response it received
  waiting,   \* its caller has not gone away
  answered,  \* the retrievals that ended with what they hold as the answer
  served,    \* auxiliary: the validated responses the origin served since the retrieval began
  quiet,     \* auxiliary: no store overlapped it and the entry it met was settled
  settled,   \* auxiliary: the last store that began also ended, alone
  lone,      \* auxiliary: the store that began last, if no other was under way
  begun      \* auxiliary: stores of the entry that ever began, up to 2

files   == <<body, meta>>
aux     == <<served, quiet, settled, lone, begun>>
rawVars == <<origin, files, pc, held, waiting, answered, aux>>

Entry(m, b) == [meta |-> m, body |-> b]
NoEntry == Entry(Absent, Absent)
Storing == {"fillBody", "emptyMeta", "fillMeta"}

RawInit ==
  /\ origin \in Responses
  /\ body = Absent /\ meta = Absent
  /\ pc = [r \in Requests |-> "idle"]
  /\ held = [r \in Requests |-> NoEntry]
  /\ waiting = [r \in Requests |-> FALSE]
  /\ answered = {}
  /\ served = [r \in Requests |-> {}]
  /\ quiet = [r \in Requests |-> FALSE]
  /\ settled = TRUE /\ lone = Absent /\ begun = 0

-----------------------------------------------------------------------------

\* The origin publishes another response.
Serve(v) ==
  /\ v # origin
  /\ origin' = v
  /\ served' = [r \in Requests |-> IF waiting[r] THEN served[r] \cup ({v} \cap Validated) ELSE served[r]]
  /\ UNCHANGED <<files, pc, held, waiting, answered, quiet, settled, lone, begun>>

Begin(r, refresh) ==
  /\ pc[r] = "idle"
  /\ pc' = [pc EXCEPT ![r] = IF refresh THEN "fetch" ELSE "readMeta"]
  /\ held' = [held EXCEPT ![r] = NoEntry]
  /\ waiting' = [waiting EXCEPT ![r] = TRUE]
  /\ answered' = answered \ {r}
  /\ served' = [served EXCEPT ![r] = {origin} \cap Validated]
  /\ quiet' = [quiet EXCEPT ![r] = settled]
  /\ UNCHANGED <<origin, files, settled, lone, begun>>

\* The operation at `from` is over; without a caller nothing follows it.
Goto(r, from, to) ==
  /\ pc[r] = from
  /\ pc' = [pc EXCEPT ![r] = IF waiting[r] THEN to ELSE "idle"]
  /\ UNCHANGED <<waiting, answered>>

\* The retrieval ends with what it holds, or with an error.
Return(r, from, ok) ==
  /\ pc[r] = from
  /\ pc' = [pc EXCEPT ![r] = "idle"]
  /\ answered' = IF ok /\ waiting[r] THEN answered \cup {r} ELSE answered
  /\ waiting' = [waiting EXCEPT ![r] = FALSE]

\* FileRawResourceCache::get: without metadata there is no entry.
ReadMeta(r) ==
  /\ Goto(r, "readMeta", IF meta = Absent THEN "fetch" ELSE "readBody")
  /\ held' = [held EXCEPT ![r].meta = meta]
  /\ UNCHANGED <<origin, files, aux>>

\* The metadata is decoded after the body was read; a file that is no whole
\* metadata is an error. Without validators the entry is the answer.
ReadBody(r) ==
  LET m == held[r].meta IN
  /\ held' = [held EXCEPT ![r].body = body]
  /\ CASE body = Absent                                -> Goto(r, "readBody", "fetch")
       [] body # Absent /\ m \notin Responses          -> Return(r, "readBody", FALSE)
       [] body # Absent /\ m \in Responses \ Validated -> Return(r, "readBody", TRUE)
       [] OTHER                                      -> Goto(r, "readBody", "ask")
  /\ UNCHANGED <<origin, files, aux>>

\* Mutant: validators are kept but never sent.
AskNobody(r) ==
  /\ Return(r, "ask", TRUE)
  /\ UNCHANGED <<origin, files, held, aux>>

\* retrieve_conditional: 304 returns the entry that was read before the call.
Ask(r) ==
  /\ IF origin = held[r].meta
     THEN /\ Return(r, "ask", TRUE)
          /\ UNCHANGED held
     ELSE /\ Goto(r, "ask", "emptyBody")
          /\ held' = [held EXCEPT ![r] = Entry(origin, origin)]
  /\ UNCHANGED <<origin, files, aux>>

Fetch(r) ==
  /\ Goto(r, "fetch", "emptyBody")
  /\ held' = [held EXCEPT ![r] = Entry(origin, origin)]
  /\ UNCHANGED <<origin, files, aux>>

\* A file after a writer of v filled it: bytes of a longer response another
\* writer put there in between stay behind its end.
Filled(file, v) == IF file \in {Partial, v} THEN {v} ELSE {v, Mixed}

\* A store begins: it disturbs every retrieval that runs and every other store.
BeginStore(r) ==
  /\ pc[r] = "emptyBody"
  /\ pc' = [pc EXCEPT ![r] = "fillBody"]
  /\ quiet' = [q \in Requests |-> quiet[q] /\ q = r]
  /\ lone' = IF \A q \in Requests \ {r} : pc[q] \notin Storing THEN r ELSE Absent
  /\ settled' = FALSE
  /\ begun' = IF begun = 2 THEN 2 ELSE begun + 1
  /\ UNCHANGED <<origin, held, waiting, answered, served>>

\* Mutant: the metadata goes first, so that the validators are never missing.
EmptyBodyAfterMeta(r) ==
  /\ BeginStore(r)
  /\ body' = Partial /\ meta' = held[r].meta

\* FileRawResourceCache::put: the body, then the metadata.
EmptyBody(r) ==
  /\ BeginStore(r)
  /\ body' = Partial
  /\ UNCHANGED meta

FillBody(r) ==
  /\ Goto(r, "fillBody", "emptyMeta")
  /\ body' \in Filled(body, held[r].body)
  /\ held' = IF waiting[r] THEN held ELSE [held EXCEPT ![r] = NoEntry]
  /\ UNCHANGED <<origin, meta, aux>>

EmptyMeta(r) ==
  /\ pc[r] = "emptyMeta"
  /\ pc' = [pc EXCEPT ![r] = "fillMeta"]
  /\ meta' = Partial
  /\ UNCHANGED <<origin, body, held, waiting, answered, aux>>

FillMeta(r) ==
  /\ Return(r, "fillMeta", TRUE)
  /\ meta' \in Filled(meta, held[r].meta)
  /\ held' = IF waiting[r] THEN held ELSE [held EXCEPT ![r] = NoEntry]
  /\ settled' = (lone = r)
  /\ UNCHANGED <<origin, body, served, quiet, lone, begun>>

\* Nothing is claimed of a retrieval that will not answer.
NoAnswer(ended) ==
  /\ served' = [r \in Requests |-> IF r \in ended THEN {} ELSE served[r]]
  /\ quiet' = [r \in Requests |-> quiet[r] /\ r \notin ended]

\* The origin or the file system fails an operation: what it did is not undone.
Fail(r) ==
  /\ pc[r] # "idle"
  /\ Return(r, pc[r], FALSE)
  /\ held' = [held EXCEPT ![r] = NoEntry]
  /\ NoAnswer({r})
  /\ UNCHANGED <<origin, files, settled, lone, begun>>

\* Where an operation can be when its caller is gone: a write the blocking pool
\* has runs to its end, one it does not have yet never begins.
Abandoned(p) ==
  CASE p \in {"fillBody", "fillMeta"}   -> {p}
    [] p \in {"emptyBody", "emptyMeta"} -> {p, "idle"}
    [] OTHER                            -> {"idle"}

\* A deadline or a closed connection drops the retrieval.
Cancel(r) ==
  /\ waiting[r]
  /\ waiting' = [waiting EXCEPT ![r] = FALSE]
  /\ \E p \in Abandoned(pc[r]) :
       /\ pc' = [pc EXCEPT ![r] = p]
       /\ held' = [held EXCEPT ![r] = IF p = "idle" THEN NoEntry ELSE @]
  /\ NoAnswer({r})
  /\ UNCHANGED <<origin, files, answered, settled, lone, begun>>

\* The server stops: nothing it had begun goes on.
Crash ==
  /\ \E r \in Requests : pc[r] # "idle"
  /\ pc' = [r \in Requests |-> "idle"]
  /\ waiting' = [r \in Requests |-> FALSE]
  /\ held' = [r \in Requests |-> IF r \in answered THEN held[r] ELSE NoEntry]
  /\ NoAnswer(Requests \ answered)
  /\ lone' = Absent
  /\ UNCHANGED <<origin, files, answered, settled, begun>>

Step(r) ==
  \/ ReadMeta(r) \/ ReadBody(r) \/ Ask(r) \/ Fetch(r)
  \/ EmptyBody(r) \/ FillBody(r) \/ EmptyMeta(r) \/ FillMeta(r)

RawNext ==
  \/ \E v \in Responses : Serve(v)
  \/ \E r \in Requests :
        \/ Step(r) \/ Fail(r) \/ Cancel(r)
        \/ \E refresh \in BOOLEAN : Begin(r, refresh)
  \/ Crash

RawSpec == RawInit /\ [][RawNext]_rawVars

-----------------------------------------------------------------------------

Whole(entry) == entry.meta \in Responses /\ entry.body = entry.meta

\* A retrieval no store overlaps, of an entry whose last store ended undisturbed,
\* returns one whole response; if the response has validators, one the origin
\* served while the retrieval ran. Torn, mixed and mismatched files from before
\* that store do not matter: it repairs the entry.
QuietAnswersCurrent ==
  \A r \in answered :
    quiet[r] =>
      /\ Whole(held[r])
      /\ held[r].meta \in Validated => held[r].meta \in served[r]

\* The first store of an entry is safe: interrupted anywhere, or met half-way by
\* another retrieval, it is a miss or an error, never an answer.
FirstStoreSafe == begun <= 1 => \A r \in answered : Whole(held[r])

\* "A missing metadata file therefore means an interrupted entry is treated as a
\* cache miss, not as valid data": what a retrieval returns is one response.
AnswersWhole == \A r \in answered : Whole(held[r])

=============================================================================
