----------------------------- MODULE HandleReads -----------------------------
(***************************************************************************)
(* Clients of the document OpenPipeline stores: the handle `open` returns, *)
(* the `read` of a handle through the text-unit store, and the v1 calls    *)
(* that read a section's text or the document's structure through the      *)
(* repository, and the search of a document, which may write: where the    *)
(* text is not that of the document it loaded, it has the document indexed *)
(* again, and what it loaded is a copy without text.                       *)
(*                                                                         *)
(* A handle is a doc_key and a checksum of (document id, normalized hash,  *)
(* segmentation version). The model has one document and takes checksums   *)
(* of different versions to differ, so a handle is the version it was made *)
(* for. A client keeps its handle across restarts of the server; a call in *)
(* flight ends with its server. Each store call is a step of its own on a  *)
(* connection of its own, and only the header read compares the checksum.  *)
(***************************************************************************)
EXTENDS OpenPipeline

CONSTANTS
  Clients,
  Textless,     \* what the text store holds of a document indexed without its text
  SectionCount  \* how many sections each version has: its preorder keys are 0..n-1

ASSUME SectionCountAssumption == SectionCount \in [Versions -> Nat \ {0}]

ASSUME TextlessIsNoVersion == Textless \notin Versions \cup {None}

ASSUME ClientsNotRequests == Clients \cap Requests = {}

VARIABLES
  cpc,      \* the store call a client's request is in
  home,     \* the server that answers it
  handle,   \* the version the client's handle was made for, None without one
  seen,     \* the version of the documents row the call read first
  outcome,  \* what the call that finished last returned: a version or an error
  steady    \* auxiliary: the version published since the call began, or None

clientVars == <<cpc, home, handle, seen, outcome, steady>>
allVars == <<vars, clientVars>>

Errors == {"unknown_handle", "not_opened", "stale_handle", "stale_document",
           "stale_cursor", "failed", "panicked"}

HandleInit ==
  /\ Init
  /\ cpc = [c \in Clients |-> "idle"]
  /\ home \in [Clients -> Servers]
  /\ handle = [c \in Clients |-> None]
  /\ seen = [c \in Clients |-> None]
  /\ outcome = [c \in Clients |-> None]
  /\ steady = [c \in Clients |-> None]

-----------------------------------------------------------------------------

Enter(c, s, call) ==
  /\ cpc[c] = "idle"
  /\ up[s] # None
  /\ cpc' = [cpc EXCEPT ![c] = call]
  /\ home' = [home EXCEPT ![c] = s]
  /\ outcome' = [outcome EXCEPT ![c] = None]
  /\ steady' = [steady EXCEPT ![c] = published]

Continue(c, from, to, version) ==
  /\ cpc[c] = from
  /\ cpc' = [cpc EXCEPT ![c] = to]
  /\ seen' = [seen EXCEPT ![c] = version]
  /\ UNCHANGED <<outcome, steady>>

Finish(c, from, value) ==
  /\ cpc[c] = from
  /\ cpc' = [cpc EXCEPT ![c] = "idle"]
  /\ seen' = [seen EXCEPT ![c] = None]
  /\ outcome' = [outcome EXCEPT ![c] = value]
  /\ steady' = [steady EXCEPT ![c] = None]

\* What is still published after a step of the pipeline.
StillSteady == [c \in Clients |-> IF steady[c] = published' THEN steady[c] ELSE None]

\* OpenReadingUseCase goes on from the answer of the open: the doc_key gives
\* the handle, the header gives the title and the top sections.
TakeAnswer(c, r) ==
  /\ cpc[c] = "idle"
  /\ Step(r)
  /\ waiting[r] /\ ~waiting'[r] /\ answer'[r] \in Versions
  /\ cpc' = [cpc EXCEPT ![c] = "openKey"]
  /\ home' = [home EXCEPT ![c] = server[r]]
  /\ handle' = [handle EXCEPT ![c] = answer'[r]]
  /\ outcome' = [outcome EXCEPT ![c] = None]
  /\ steady' = [StillSteady EXCEPT ![c] = published']
  /\ UNCHANGED seen

OpenKey(c) ==
  /\ IF text = None
     THEN /\ Finish(c, "openKey", "not_opened")
          /\ handle' = [handle EXCEPT ![c] = None]
     ELSE /\ Continue(c, "openKey", "openHeader", None)
          /\ UNCHANGED handle
  /\ UNCHANGED <<vars, home>>

OpenHeader(c) ==
  /\ IF doc = None
     THEN /\ Finish(c, "openHeader", "not_opened")
          /\ handle' = [handle EXCEPT ![c] = None]
     ELSE /\ Finish(c, "openHeader", handle[c])
          /\ UNCHANGED handle
  /\ UNCHANGED <<vars, home>>

\* `read`: doc_key to document id, header and checksum, then the stream.
BeginRead(c, s) ==
  /\ handle[c] # None
  /\ Enter(c, s, "key")
  /\ UNCHANGED <<vars, handle, seen>>

ReadKey(c) ==
  /\ IF text = None
     THEN Finish(c, "key", "unknown_handle")
     ELSE Continue(c, "key", "header", None)
  /\ UNCHANGED <<vars, home, handle>>

\* Mutant: a handle is resolved by its doc_key alone.
ReadHeaderOfAnyVersion(c) ==
  /\ IF doc = None
     THEN Finish(c, "header", "not_opened")
     ELSE Continue(c, "header", "items", None)
  /\ UNCHANGED <<vars, home, handle>>

ReadHeader(c) ==
  /\ CASE doc = None -> Finish(c, "header", "not_opened")
       [] doc # None /\ doc.ver # handle[c] -> Finish(c, "header", "stale_handle")
       [] OTHER -> Continue(c, "header", "items", None)
  /\ UNCHANGED <<vars, home, handle>>

\* section_stream_items reads whatever rows the document has now.
ReadItems(c) ==
  /\ Finish(c, "items", IF text = None THEN "unknown_handle" ELSE text)
  /\ UNCHANGED <<vars, home, handle>>

\* load_one_section_text: the documents row, the text-unit row, the text, by
\* separate statements of one connection and no transaction around them.
BeginSectionText(c, s) ==
  /\ Enter(c, s, "place")
  /\ UNCHANGED <<vars, handle, seen>>

PlaceDocument(c) ==
  /\ IF doc = None
     THEN Finish(c, "place", "not_opened")
     ELSE Continue(c, "place", "meta", doc.ver)
  /\ UNCHANGED <<vars, home, handle>>

\* Without a text-unit row the text is read from the documents row, which must
\* have kept it inline; with one, the two hashes must agree.
PlaceText(c) ==
  /\ CASE text = None /\ doc # None /\ ~doc.stored -> Finish(c, "meta", doc.ver)
       [] text = None /\ doc = None -> Finish(c, "meta", "not_opened")
       [] text = seen[c] -> Continue(c, "meta", "text", seen[c])
       [] OTHER -> Finish(c, "meta", "stale_document")
  /\ UNCHANGED <<vars, home, handle>>

\* The keys are read before the text, whose length alone is checked again: the
\* text of another version comes back if that section has the same length.
SectionText(c) ==
  /\ \/ Finish(c, "text", IF text \in Versions THEN text ELSE "stale_document")
     \/ text # seen[c] /\ Finish(c, "text", "stale_document")
  /\ UNCHANGED <<vars, home, handle>>

\* GetDocumentStructureUseCase: the tree in one store job, its body order in
\* another.
BeginStructure(c, s) ==
  /\ Enter(c, s, "tree")
  /\ UNCHANGED <<vars, handle, seen>>

LoadTree(c) ==
  /\ IF doc = None
     THEN Finish(c, "tree", "not_opened")
     ELSE Continue(c, "tree", "order", doc.ver)
  /\ UNCHANGED <<vars, home, handle>>

\* The sections of the tree the client sees, named by the order it was given.
OrderedBy(tree, order) == IF tree = order THEN tree ELSE "mixed"

\* An order that names a section the tree lacks fails the call. The cursor of
\* an earlier page (the client has been told of handle[c]'s version) is compared
\* with the tree alone. A section the order lacks is met by the flattening
\* unless the scope leaves it out.
LoadOrder(c) ==
  /\ cpc[c] = "order"
  /\ \E cursor \in {None, handle[c]} :
       LET tree  == seen[c]
           order == IF doc = None THEN tree ELSE doc.ver
       IN CASE SectionCount[order] > SectionCount[tree] -> Finish(c, "order", "failed")
            [] SectionCount[order] <= SectionCount[tree] /\ cursor \notin {None, tree} ->
                 Finish(c, "order", "stale_cursor")
            [] OTHER ->
                 \/ Finish(c, "order", OrderedBy(tree, order))
                 \/ /\ SectionCount[order] < SectionCount[tree]
                    /\ Finish(c, "order", "panicked")
  /\ UNCHANGED <<vars, home, handle>>

\* SearchDocumentUseCase: the document without its text, then the scan of the
\* stored text, which is refused where its hash is not the document's.
BeginSearch(c, s) ==
  /\ Enter(c, s, "find")
  /\ UNCHANGED <<vars, handle, seen>>

FindDocument(c) ==
  /\ IF doc = None
     THEN Finish(c, "find", "not_opened")
     ELSE Continue(c, "find", "scan", doc.ver)
  /\ UNCHANGED <<vars, home, handle>>

\* The view of the sections is loaded first, by a call of its own.
ScanText(c) ==
  /\ \/ doc = None /\ Finish(c, "scan", "not_opened")
     \/ Continue(c, "scan", IF text = seen[c] THEN "hits" ELSE "index", seen[c])
  /\ UNCHANGED <<vars, home, handle>>

\* Each unit found is read from the store again and resolved against the
\* document; a title is not.
LocateHits(c) ==
  /\ \/ Finish(c, "hits", seen[c])
     \/ text # seen[c] /\ Finish(c, "hits", "failed")
  /\ UNCHANGED <<vars, home, handle>>

\* SqliteSearchIndex::index: nothing to store if the same copy was indexed before.
CheckUnits(c) ==
  /\ Continue(c, "index", IF text = Textless THEN "rescan" ELSE "rewrite", seen[c])
  /\ UNCHANGED <<vars, home, handle>>

\* The copy has its text only where the row cannot be read without: with OCR
\* metadata, or without a stored hash. Its block evidence may not fit.
RewriteUnits(c) ==
  /\ cpc[c] = "rewrite"
  /\ text' \in {Textless, seen[c]}
  /\ alone' = [r \in Requests |-> FALSE]
  /\ UNCHANGED <<up, result, doc, pc, server, ver, stored, waiting, answer>>
  /\ cpc' = [cpc EXCEPT ![c] = "rescan"]
  /\ steady' = StillSteady
  /\ UNCHANGED <<home, handle, seen, outcome>>

RewriteFails(c) ==
  /\ Finish(c, "rewrite", "failed")
  /\ UNCHANGED <<vars, home, handle>>

RescanText(c) ==
  /\ IF text = seen[c]
     THEN Continue(c, "rescan", "hits", seen[c])
     ELSE Finish(c, "rescan", "not_opened")
  /\ UNCHANGED <<vars, home, handle>>

SearchStep(c) ==
  \/ FindDocument(c) \/ ScanText(c) \/ LocateHits(c)
  \/ CheckUnits(c) \/ RewriteUnits(c) \/ RewriteFails(c) \/ RescanText(c)

ClientStep(c) ==
  \/ OpenKey(c) \/ OpenHeader(c) \/ ReadKey(c) \/ ReadHeader(c) \/ ReadItems(c)
  \/ PlaceDocument(c) \/ PlaceText(c) \/ SectionText(c)
  \/ LoadTree(c) \/ LoadOrder(c) \/ SearchStep(c)

\* A step of the pipeline; calls end with the server they run in.
PipelineStep ==
  /\ Next
  /\ cpc' = [c \in Clients |-> IF up'[home[c]] = None THEN "idle" ELSE cpc[c]]
  /\ steady' = StillSteady
  /\ outcome' = [c \in Clients |-> None]
  /\ UNCHANGED <<home, handle, seen>>

HandleNext ==
  \/ PipelineStep
  \/ \E c \in Clients :
        \/ ClientStep(c)
        \/ \E r \in Requests : TakeAnswer(c, r)
        \/ \E s \in Servers : \/ BeginRead(c, s) \/ BeginSectionText(c, s)
                             \/ BeginStructure(c, s) \/ BeginSearch(c, s)

HandleSpec == HandleInit /\ [][HandleNext]_allVars

-----------------------------------------------------------------------------

\* A call during which version p stays published ends with p's text or p's
\* tree in p's order, or says that the handle or cursor is stale; it never
\* reports a published document as missing and never accepts a handle of
\* another version. Half-finished ingests, failed calls and restarts before the
\* call do not matter.
SteadyCallsAreExact ==
  [][\A c \in Clients :
       LET p == steady[c] IN
       p # None =>
         /\ OpenKey(c) \/ OpenHeader(c) => outcome'[c] \in {None, handle[c]}
         /\ ReadKey(c) \/ ReadHeader(c) \/ ReadItems(c) =>
              outcome'[c] \in {None, IF handle[c] = p THEN p ELSE "stale_handle"}
         /\ PlaceDocument(c) \/ PlaceText(c) \/ SectionText(c) =>
              outcome'[c] \in {None, p}
         /\ SearchStep(c) => outcome'[c] \in {None, p}
         /\ LoadTree(c) \/ LoadOrder(c) =>
              outcome'[c] \in {None, p} \cup
                (IF handle[c] \in {None, p} THEN {} ELSE {"stale_cursor"})]_allVars

\* "a handle that outlived its document fails as stale_handle instead of
\* silently reading a different book": no read of a handle returns the text of
\* another version than the handle was made for.
HandleReadsItsVersion ==
  [][\A c \in Clients :
       ReadItems(c) => outcome'[c] \in Errors \cup {handle[c]}]_allVars

\* "Stores the segmentation of `document`": whatever searches and ingests meet,
\* the text store holds the text of a version.
StoredTextIsParsed == text # Textless

\* "validated body order must contain every canonical Section": no structure
\* call meets a section of its tree that its body order lacks.
StructureNeverPanics == \A c \in Clients : outcome[c] # "panicked"

=============================================================================
