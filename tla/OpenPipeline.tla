---------------------------- MODULE OpenPipeline ----------------------------
(***************************************************************************)
(* The open pipeline of one document id: OpenDocumentUseCase::execute with *)
(* the four stores it writes, all of them in one SQLite file per state     *)
(* directory:                                                              *)
(*                                                                         *)
(*   open_results_v1                         the cached answer of `open`   *)
(*   text_unit_documents_v2, section_text_v3,                              *)
(*   section_layout_v2, ..._chunk_v2         the section text              *)
(*   documents, document_header_v1,                                        *)
(*   document_sections_v1, ...               the document rows             *)
(*                                                                         *)
(* Every store has a connection of its own and every write of an ingest is *)
(* a transaction of its own, so another request, another server on the     *)
(* same state directory, a deadline or a crash can fall between any two.   *)
(* A store call is a job on the blocking pool: a caller whose deadline     *)
(* passed stops waiting, the job still runs to its end.                    *)
(*                                                                         *)
(* The id is derived from the final source and the raw bytes. The version  *)
(* of its rows is the normalized hash and the segmentation version, which  *)
(* depend on the binary and its configuration and on the media type the    *)
(* bytes were served with. Ids with other bytes own disjoint rows.         *)
(***************************************************************************)
EXTENDS Naturals

CONSTANTS
  Servers,         \* reading-mcp processes that share one state directory
  Requests,        \* open requests, reused once answered
  Builds,          \* binaries with their configuration: the open-result fingerprint
  OcrBuilds,       \* the builds with OCR on, whose opens have a deadline
  MediaTypes,      \* media types the same bytes may be served with
  Versions,        \* (normalized hash, segmentation version) pairs
  ParsedAs,        \* [Builds \X MediaTypes -> Versions], what the parser makes of the bytes
  StoreVersionOf,  \* [Builds -> store versions], TEXT_UNIT_STORE_VERSION of a build
  None,            \* an absent row, a stopped server, no answer yet
  Failed           \* the answer of an open that ended in an error

ASSUME OpenAssumption ==
  /\ OcrBuilds \subseteq Builds
  /\ ParsedAs \in [Builds \X MediaTypes -> Versions]
  /\ StoreVersionOf \in [Builds -> Nat]
  /\ None \notin Versions
  /\ Failed \notin Versions
  /\ None # Failed
  /\ None \notin Builds
  /\ None \notin [build : Builds, ver : Versions]
  /\ None \notin [ver : Versions, stored : BOOLEAN]

VARIABLES
  up,        \* the build a server runs, None when it is stopped
  result,    \* the open_results_v1 row
  text,      \* the version section_text_v3 and the layout tables hold
  doc,       \* the documents row; stored: its text was left out, see section_text_v3
  pc,        \* the store call a request is in
  server,    \* the server that serves the request
  ver,       \* the version this request's parse produces
  stored,    \* save_shared's decision to leave the section text out
  waiting,   \* the caller has not given up on its deadline
  answer,    \* what the caller was told
  alone      \* auxiliary: nothing else wrote this document during the request

rows == <<result, text, doc>>
vars == <<up, rows, pc, server, ver, stored, waiting, answer, alone>>

Reading == {"lookup", "parse", "check"}
Writing == {"remove", "segment", "decide", "insert", "resegment", "put"}
Active  == Reading \cup Writing
Steps   == Active \cup {"idle"}

Results   == [build : Builds, ver : Versions]
Documents == [ver : Versions, stored : BOOLEAN]

TypeOK ==
  /\ up \in [Servers -> Builds \cup {None}]
  /\ result \in Results \cup {None}
  /\ text \in Versions \cup {None}
  /\ doc \in Documents \cup {None}
  /\ pc \in [Requests -> Steps]
  /\ server \in [Requests -> Servers]
  /\ ver \in [Requests -> Versions]
  /\ stored \in [Requests -> BOOLEAN]
  /\ waiting \in [Requests -> BOOLEAN]
  /\ answer \in [Requests -> Versions \cup {None, Failed}]
  /\ alone \in [Requests -> BOOLEAN]

Init ==
  /\ up = [s \in Servers |-> None]
  /\ result = None /\ text = None /\ doc = None
  /\ pc = [r \in Requests |-> "idle"]
  /\ server \in [Requests -> Servers]
  /\ ver \in [Requests -> Versions]
  /\ stored = [r \in Requests |-> FALSE]
  /\ waiting = [r \in Requests |-> FALSE]
  /\ answer = [r \in Requests |-> None]
  /\ alone = [r \in Requests |-> FALSE]

-----------------------------------------------------------------------------
(* Requests: the control flow of execute_inner and ingest.                 *)

\* The call at `from` returned; an abandoned request has no continuation.
Proceed(r, from, to) ==
  /\ pc[r] = from
  /\ pc' = [pc EXCEPT ![r] = IF waiting[r] THEN to ELSE "idle"]

\* The open ends with an answer, if anyone still waits for it.
Reply(r, a) ==
  /\ answer' = [answer EXCEPT ![r] = IF waiting[r] THEN a ELSE @]
  /\ waiting' = [waiting EXCEPT ![r] = FALSE]

\* Mutant: what the bytes parse to is cached without the build that parsed them.
BeginAnyParse(r, s, m, refresh) ==
  /\ pc[r] = "idle"
  /\ up[s] # None
  /\ pc' = [pc EXCEPT ![r] = IF refresh THEN "parse" ELSE "lookup"]
  /\ server' = [server EXCEPT ![r] = s]
  /\ \E b \in Builds : ver' = [ver EXCEPT ![r] = ParsedAs[<<b, m>>]]
  /\ waiting' = [waiting EXCEPT ![r] = TRUE]
  /\ answer' = [answer EXCEPT ![r] = None]
  /\ alone' = [q \in Requests |->
                 /\ q = r
                 /\ \A p \in Requests \ {r} : pc[p] = "idle"]
  /\ UNCHANGED <<up, rows, stored>>

\* A new open; retrieval and the source policy precede the first store call.
\* force_refresh skips the lookup.
Begin(r, s, m, refresh) ==
  /\ pc[r] = "idle"
  /\ up[s] # None
  /\ pc' = [pc EXCEPT ![r] = IF refresh THEN "parse" ELSE "lookup"]
  /\ server' = [server EXCEPT ![r] = s]
  /\ ver' = [ver EXCEPT ![r] = ParsedAs[<<up[s], m>>]]
  /\ waiting' = [waiting EXCEPT ![r] = TRUE]
  /\ answer' = [answer EXCEPT ![r] = None]
  /\ alone' = [q \in Requests |->
                 /\ q = r
                 /\ \A p \in Requests \ {r} : pc[p] = "idle"]
  /\ UNCHANGED <<up, rows, stored>>

\* OpenResultStore::get: a row under this very fingerprint is the answer.
Hit(r) == result # None /\ result.build = up[server[r]]

Lookup(r) ==
  /\ IF Hit(r)
     THEN /\ Proceed(r, "lookup", "idle")
          /\ Reply(r, result.ver)
     ELSE /\ Proceed(r, "lookup", "parse")
          /\ UNCHANGED <<waiting, answer>>
  /\ UNCHANGED <<up, rows, server, ver, stored, alone>>

Parse(r) ==
  /\ Proceed(r, "parse", "remove")
  /\ UNCHANGED <<up, rows, server, ver, stored, waiting, answer, alone>>

\* Mutant: a refresh ingests over the stored answer.
RemoveKeepsResult(r) ==
  /\ Proceed(r, "remove", "segment")
  /\ UNCHANGED <<up, rows, server, ver, stored, waiting, answer, alone>>

\* The stored answer goes first: no row may claim a half-written document.
Remove(r) ==
  /\ Proceed(r, "remove", "segment")
  /\ result' = None
  /\ UNCHANGED <<up, text, doc, server, ver, stored, waiting, answer, alone>>

\* replace_document_segmentation: one transaction over the text-unit tables.
Segment(r) ==
  /\ Proceed(r, "segment", "decide")
  /\ text' = ver[r]
  /\ UNCHANGED <<up, result, doc, server, ver, stored, waiting, answer, alone>>

\* Mutant: the decision and the insert wait for each other's connection.
RepositoryFreeOfBoth(r) ==
  \A q \in Requests \ {r} :
    ~ (server[q] = server[r] /\ pc[q] \in {"decide", "insert"})

\* save_shared holds its server's repository connection from the decision to
\* the commit, but reads section_text_v3 outside its transaction.
RepositoryFree(r) ==
  \A q \in Requests \ {r} : ~ (server[q] = server[r] /\ pc[q] = "insert")

Decide(r) ==
  /\ pc[r] = "decide"
  /\ RepositoryFree(r)
  /\ pc' = [pc EXCEPT ![r] = "insert"]
  /\ stored' = [stored EXCEPT ![r] = text = ver[r]]
  /\ UNCHANGED <<up, rows, server, ver, waiting, answer, alone>>

\* Mutant: a documents row that exists already is kept.
InsertOrIgnore(r) ==
  /\ Proceed(r, "insert", "check")
  /\ doc' = IF doc = None THEN [ver |-> ver[r], stored |-> stored[r]] ELSE doc
  /\ UNCHANGED <<up, result, text, server, ver, stored, waiting, answer, alone>>

Insert(r) ==
  /\ Proceed(r, "insert", "check")
  /\ doc' = [ver |-> ver[r], stored |-> stored[r]]
  /\ UNCHANGED <<up, result, text, server, ver, stored, waiting, answer, alone>>

\* ensure_segmentation of the search index: the text is stored again when
\* something else replaced it since.
Check(r) ==
  /\ Proceed(r, "check", IF text = ver[r] THEN "put" ELSE "resegment")
  /\ UNCHANGED <<up, rows, server, ver, stored, waiting, answer, alone>>

Resegment(r) ==
  /\ Proceed(r, "resegment", "put")
  /\ text' = ver[r]
  /\ UNCHANGED <<up, result, doc, server, ver, stored, waiting, answer, alone>>

\* Mutant: the row is keyed by the server instead of its fingerprint.
PutUnderServer(r) ==
  /\ Proceed(r, "put", "idle")
  /\ result' = [build |-> server[r], ver |-> ver[r]]
  /\ Reply(r, ver[r])
  /\ UNCHANGED <<up, text, doc, server, ver, stored, alone>>

\* OpenResultStore::put replaces whatever row the document has. The new row
\* references the document, so its own prune check removes nothing.
Put(r) ==
  /\ Proceed(r, "put", "idle")
  /\ result' = [build |-> up[server[r]], ver |-> ver[r]]
  /\ Reply(r, ver[r])
  /\ UNCHANGED <<up, text, doc, server, ver, stored, alone>>

\* A store call, the retrieval or the parse fails: its transaction rolls back
\* and the error ends the open. Nothing undoes the earlier transactions.
Fail(r) ==
  /\ pc[r] \in Active
  /\ pc' = [pc EXCEPT ![r] = "idle"]
  /\ Reply(r, Failed)
  /\ UNCHANGED <<up, rows, server, ver, stored, alone>>

\* The 60 s or 90 s deadline passes. The future is dropped, a write already
\* handed to the blocking pool is not.
Expire(r) ==
  /\ waiting[r]
  /\ pc[r] \in Active
  /\ up[server[r]] \in OcrBuilds
  /\ pc' = [pc EXCEPT ![r] = IF pc[r] \in Writing THEN @ ELSE "idle"]
  /\ Reply(r, Failed)
  /\ UNCHANGED <<up, rows, server, ver, stored, alone>>

-----------------------------------------------------------------------------
(* Servers.                                                                *)

\* The rows after the startup sweep of a server running build b. It deletes
\* results of another store version and then documents without a result, each
\* up to a limit, in one transaction, and only if it can take the write lock.
Stale(b) == result # None /\ StoreVersionOf[result.build] # StoreVersionOf[b]

SweepNothing == UNCHANGED rows

SweepResult(b) ==
  /\ Stale(b)
  /\ result' = None
  /\ UNCHANGED <<text, doc>>

SweepDocument(b) ==
  /\ doc # None
  /\ result = None \/ Stale(b)
  /\ result' = None /\ text' = None /\ doc' = None

\* build_state_components: the sweep runs before the first request is served.
Start(s, b) ==
  /\ up[s] = None
  /\ up' = [up EXCEPT ![s] = b]
  /\ SweepNothing \/ SweepResult(b) \/ SweepDocument(b)
  /\ alone' = [r \in Requests |-> FALSE]
  /\ UNCHANGED <<pc, server, ver, stored, waiting, answer>>

\* A crash or an exit: every job of the server ends where it is.
Stop(s) ==
  /\ up[s] # None
  /\ up' = [up EXCEPT ![s] = None]
  /\ pc' = [r \in Requests |-> IF server[r] = s THEN "idle" ELSE pc[r]]
  /\ waiting' = [r \in Requests |-> server[r] # s /\ waiting[r]]
  /\ answer' = [r \in Requests |->
                  IF server[r] = s /\ waiting[r] THEN Failed ELSE answer[r]]
  /\ UNCHANGED <<rows, server, ver, stored, alone>>

-----------------------------------------------------------------------------

Step(r) ==
  \/ Lookup(r) \/ Parse(r) \/ Remove(r) \/ Segment(r) \/ Decide(r)
  \/ Insert(r) \/ Check(r) \/ Resegment(r) \/ Put(r)

Next ==
  \/ \E r \in Requests : Step(r) \/ Fail(r) \/ Expire(r)
  \/ \E r \in Requests, s \in Servers, m \in MediaTypes, refresh \in BOOLEAN :
        Begin(r, s, m, refresh)
  \/ \E s \in Servers : Stop(s) \/ \E b \in Builds : Start(s, b)

\* The blocking pool runs every job it was handed, and a thread blocked on the
\* repository connection gets it in the end although others keep taking it
\* (the holder never waits for another job). Nobody promises that a client asks
\* again, that a server starts or stops, or that a call fails.
Fairness == \A r \in Requests : WF_vars(Step(r)) /\ SF_vars(Decide(r))

Spec == Init /\ [][Next]_vars
FairSpec == Spec /\ Fairness

-----------------------------------------------------------------------------
(* What the pipeline promises.                                             *)

\* The rows of version v are all there and name each other.
RowsOf(v) ==
  /\ text = v
  /\ doc # None
  /\ doc.ver = v

\* A stored open result claims that the document is complete; whatever other
\* requests, crashes, deadlines and failed calls do, no row may claim it of
\* rows that are missing or of another version, because a later open answers
\* from it without looking at them.
CompleteResult == result # None => RowsOf(result.ver)

\* save_shared leaves the section text out of the documents row only when
\* section_text_v3 holds the text of that very version as the row commits.
TextLeftOutOnlyIfStored ==
  [][doc' # doc /\ doc' # None /\ doc'.stored => text = doc'.ver]_vars

\* An ingest no other request and no startup sweep overlaps leaves a complete
\* document, whatever mixture of versions and half-finished ingests it found.
UndisturbedIngestCompletes ==
  [][\A r \in Requests :
       alone[r] /\ Put(r) => (result # None /\ result.ver = ver[r] /\ RowsOf(ver[r]))']_vars

\* Every open is answered, by a result or an error, also when its deadline
\* passes or its server stops.
EveryOpenAnswered ==
  \A r \in Requests : waiting[r] ~> ~waiting[r]

\* What the rows let a client see: the published version of the document.
published ==
  IF result # None /\ RowsOf(result.ver) THEN result.ver ELSE None

Abstract == INSTANCE PublishedDocument WITH published <- published, answer <- answer
ImplementsPublishedDocument == Abstract!Spec

=============================================================================
