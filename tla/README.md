# reading-mcp in TLA+

TLA+ models of `reading-mcp`, the MCP server that opens documents (files, URLs,
PDF with OCR), stores their text in SQLite and lets a client read them by short
handles; TLC configurations that check the models on small instances; and proofs,
checked by TLAPS, of what matters most for every size.

Paths below are relative to the repository (`src/...` is the Rust crate). Every
definition that stands for code names its lines in `PROJECT.json`, under `map`.

Contents: [1 The system](#1-the-system) ·
[2 Modules](#2-modules) · [3 Runs](#3-runs) · [4 Bounds](#4-bounds) ·
[5 Fairness](#5-fairness) · [6 Proofs](#6-proofs) · [7 Findings](#7-findings) ·
[8 Not modelled](#8-not-modelled) · [9 Plan](#9-plan)


## 1 The system

One process serves MCP tool calls. A call is a future on a Tokio runtime; every
SQLite statement and every file operation is a job on the blocking pool. Dropping
a future (a deadline, a client that hangs up) stops the waiting, never a job that
was handed to the pool. State that outlives a call is in the state directory (one
SQLite file, raw cache, parsed cache, OCR checkpoints) or in the process (cache
slot, flights, worker permit). Nothing keeps a second process off the directory.

### Components

| Component | State it keeps | Operations | Hard part | What makes it correct | Module |
|---|---|---|---|---|---|
| Open pipeline (`application/open_document.rs`, `infrastructure/sqlite*.rs`) | per document id: open result, section text, documents row | `execute`, `ingest`: lookup, parse, remove, segment, save, index, put | five transactions on three connections; crash, deadline and other ingests in between | a stored result is never of missing or other rows; every open is answered | `OpenPipeline` |
| Startup sweep (`sqlite.rs: prune_at_startup`) | none | deletes results of another store version, then documents without a result | runs while another server ingests | never takes a published document away half | `OpenPipeline` |
| Handles and reads (`open_reading.rs`, `read_reading.rs`, `search_document.rs`, `short_handle.rs`, `sqlite.rs`) | handle held by the client | open, read, section text, structure, search | a chain of store calls, one of which compares the checksum | a handle never reads another version | `HandleReads` |
| Scan text cache (`sqlite.rs: ScanTextCache`) | one slot; stores shared by `Arc`; set of running warms | scan (serial, parallel, interleaved), background warm, drop on write | two fillers and a writer over locks held for one operation | bytes accounted, cap kept, texts of the version asked for, foreground first | `ScanTextCache` |
| Raw cache and revalidation (`retrieval/revalidating_http.rs`, `infrastructure/file_cache.rs`) | two files per URL | get, put, conditional request | files written in place, no lock, torn by crash or overlap | an answer is one whole response, current if it can be validated | `RawResourceCache` |
| OCR admission (`ocr_singleflight.rs`, `cache.rs`, `layout_pdf.rs`, `ocr_worker_process.rs`) | flights, waiters, worker permit, parsed-cache file | join or start a flight, run, publish, abort, clean up | abort finishes the current poll; a worker outlives its parse | one worker, no parse for nobody, none twice, every caller answered | `OcrAdmission` |
| OCR checkpoints and drain (`ocr_checkpoint.rs`, `layout_pdf.rs`) | a file per page, a meta file, the drain's join handle | save, load, remove; drain after cancel | the drain of a dropped parse writes beside the next parse | no page is recognised twice without a reason; the document is parsed in the end | `OcrCheckpoints` |
| Section streams and chunks (`sqlite.rs`, `text_unit_stream.rs`, `section_layout.rs`) | per section: chunk rows with the stream position each starts at | cut a layout into rows; read a page, a position, the whole layout from rows | a paragraph may span rows; starts are counted on one path and used on another | rows partition the section within the byte budget; every read equals the same read of the whole section | `SectionStream`, `SectionChunks` |
| Read walk (`read_reading.rs`, `short_handle.rs`, `v2_contracts.rs`) | `next`, held by the client | `read` from a handle or cursor, forward or backward, with `back` and `max_chars` | resuming across empty sections and section ends; an exclusive end going backward | following `next` gives every item once, in order, within the budget, and ends | `ReadWalk` |
| Document rows (`sqlite.rs: SqliteDocumentRepository`) | documents row, large metadata in two tables, header, section rows, body order | save, and every read: whole, light, header, a section, a window | builds that write other tables; text left out of the row; readers that take the shortest way | every reader answers what the saved version says, or stale | `DocumentRows` |
| Section tree and its listings (`outline_reading.rs`, `get_document_structure.rs`, `section_rows.rs`, `body_order.rs`) | cursors of the clients | outline, structure, boundary of a section | pages cut through a tree; skipping by count | each section once at any page size; exact boundaries | `SectionTree`, `TreeWalks` |
| Search (`lexical.rs`, `sqlite.rs`) | hits per thread | strict, relaxed, pruned, parallel scan | bounds that skip work, ties, threads that share nothing | what the exhaustive search finds | `LexicalScan` |
| v1 unit tools and cursors (`get_text_units.rs`, `get_context.rs`, `read_document.rs`, `*_cursor.rs`) | the cursor held by the client | units page by page, a window, a text page by page | two stores that change between calls and within one | pages are one run of one version, or an error | `UnitTools` |
| Segmentation (`domain/segmentation.rs`, `normalized_block.rs`) | none | paragraphs, sentences, coverage of a section | guards, closers, abbreviations, shortcuts | nothing but white space is left out, no order is lost, the shortcut never changes a cut | `SegmentationRules`, `Segmentation` |
| Text-unit rows (`sqlite.rs: SqliteTextUnitIndex`) | document key, headers, text chunks, layout chunks | replace, list, a section, a unit, a count, delete | units are not stored: they are cut out again; keys are reused | the rows answer as an index that kept the units | `UnitRows` |
| List and browse (`list_documents.rs`, `list_directories.rs`) | the cursor held by the client | scan the roots, answer a page | the disk changes under the scan and between pages | the pages are one listing, or the call says why not | `FileListing` |
| Resource budgets (`budget.rs`, `parsing/blocking.rs`) | a semaphore, deadlines | acquire, run blocking | blocking work outlives its timeout | permits are returned | planned |
| Ephemeral state (`runtime/ephemeral_state.rs`) | a directory per process | create, sweep, remove | pid reuse, sweep beside creation | a live directory stays | planned |
| Everything else | none between calls | projections, parsers, routing, transport | data, not control | — | see [8](#8-not-modelled) |

### How they interact

```
 client ── open ──▶ OpenDocumentUseCase ──▶ raw cache / origin       RawResourceCache
    │                   │        └───────▶ CachingParser ▶ OCR       OcrAdmission
    │                   │                                └▶ pages    OcrCheckpoints
    │                   │ segmentation                               Segmentation
    │                   ▼
    │              stores: open_results, section text, documents     OpenPipeline
    │                   │     rows of each: DocumentRows, UnitRows, SectionChunks
    │                   │      └─ startup sweep (any server)
    │                   └──── starts a warm ──▶ scan text cache      ScanTextCache
    ├── read, section text, structure, search ──▶ the same stores    HandleReads
    ├── read, next, next ... ──▶ walk over sections                  ReadWalk
    │                              └─ pages, positions of chunks     SectionChunks
    ├── outline, structure, page by page                             TreeWalks
    ├── search: what a scan finds                                    LexicalScan
    ├── get_text_units, get_context, read_document                   UnitTools
    └── list_documents, list_directory ──▶ the disk                  FileListing
```

The pipeline calls retrieval and parsing and sees a resource, a document or an
error; `OpenPipeline` keeps that interface (`Parse`, `Fail`) and the modules
below it model what stands behind. Reads share the SQLite rows with the pipeline;
`HandleReads` extends `OpenPipeline` and composes the two. The writer of
`ScanTextCache` is the `Segment` step of an ingest seen from the cache. What that
step writes of one section is `SectionChunks`; what a read asks of a section is
`SectionStream`, whose operators `ReadWalk` reads through and `SectionChunks` is
shown to answer like. `UnitRows` writes what `SegmentationRules` makes of a document
and shares the cut of a section with nothing: it is the same loop as `SectionChunks`,
given real texts and offsets, and it stands for the rows between the sections.

The hazards this design has, each at the line where it bites, and the properties
that would notice, are in `PROJECT.json`, under `hazards`. Where reads meet rows of two
versions, the properties of the passing runs say nothing (`SteadyCallsAreExact` is about
calls during which one version stays published): what happens then is in the runs that
find a statement violated, and for a section text in the step `SectionText` alone.


## 2 Modules

| Module | Kind |
|---|---|
| `PublishedDocument` | abstract specification of one document |
| `OpenPipeline` | detailed: the ingest over four stores, deadlines, crashes, servers; refines `PublishedDocument` |
| `OpenPipelineProofs` | TLAPS theorems about `OpenPipeline` and about `HandleReads` |
| `HandleReads` | `OpenPipeline` composed with clients that hold handles |
| `ScanTextCache` | the in-memory cache of section texts |
| `RawResourceCache` | a URL's two cache files and the retrievals over them |
| `OcrAdmission` | flights, worker permit, parsed-cache file |
| `OcrCheckpoints` | the page checkpoints of a document, its workers and the drains they leave behind |
| `CacheProofs`, `OcrAdmissionProofs`, `OcrCheckpointsProofs` | TLAPS theorems about the two caches and the two OCR modules |
| `SectionStream` | the stream of a section: pure operators, the reference of `SectionChunks` and `ReadWalk` |
| `StreamLemmas` | lemmas about induction, folds, concatenations and the stream of a section |
| `SectionChunks` | the chunk rows of a section: the loop that cuts them, the reads that use them |
| `SectionChunksProofs` | TLAPS theorems about the cut of `SectionChunks`, the rows it stores and what is read from them |
| `ReadWalk` | the `read` tool and a client that follows `next` |
| `ReadWalkProofs` | TLAPS theorems about `ReadWalk` |
| `SectionTree` | the rows of a section tree and of a body order: pure operators |
| `TreeWalks` | `outline`, `get_document_structure` and clients that follow their cursors |
| `LexicalScan` | a search over the units of a document, pruned and on several threads |
| `UnitTools` | `get_text_units`, `get_context`, `read_document` over a document that is re-ingested |
| `DocumentRows` | the tables one document is stored in, and every reader of them |
| `SegmentationRules`, `Segmentation` | the rules a text is cut by (operators); a document cut section by section |
| `UnitRows` | the text-unit rows of all documents, beside the in-memory index |
| `FileListing` | `list_documents`, `list_directory` and a client that follows a cursor |
| `FileListingProofs` | TLAPS theorems about `FileListing` |
| `MCOpenPipeline`, `MCHandleReads`, `MCScanTextCache` | values of function constants, symmetry and a view for TLC |
| `MCSectionChunks`, `MCReadWalk`, `MCTreeWalks`, `MCLexicalScan`, `MCUnitTools`, `MCDocumentRows`, `MCSegmentation`, `MCUnitRows`, `MCFileListing` | the documents, texts, books and disks TLC enumerates |
| `MCReading`, `MCCaches` | several components in one run, each in behaviours of its own |

### OpenPipeline

One document id, i.e. one final source with one sequence of raw bytes; other ids
own disjoint rows. `result`, `text` and `doc` are the rows, each reduced to what
tells versions apart: a *version* is the pair (normalized hash, segmentation
version), which is what the code compares. A *build* is the open-result
fingerprint: the binary with its configuration. `ParsedAs` says which version a
build makes of the bytes under a media type.

`pc[r]` is the store call a request is in, and each action is the whole of one
transaction:

| Action | Code |
|---|---|
| `Lookup` | `execute_inner`: `OpenResultStore::get` under the fingerprint; `force_refresh` skips it |
| `Parse` | retrieval, parser, normalisation |
| `Remove` | `ingest`: the stored result goes first |
| `Segment` | `replace_document_segmentation`, one transaction |
| `Decide`, `Insert` | `save_shared`: whether the text may be left out is read before the transaction, under the same connection guard |
| `Check`, `Resegment` | `ensure_segmentation` of the search index |
| `Put` | `OpenResultStore::put` |
| `Fail` | any call fails: its transaction rolls back, earlier ones stay |
| `Expire` | the deadline of an OCR build: reading calls stop, a writing job (`Writing`) goes on without its caller and has no successor |
| `Start`, `Stop` | a server comes up with its sweep (`SweepNothing`, `SweepResult`, `SweepDocument`: every outcome the limits and the write lock allow one document), or goes away at any point |

`published` is the refinement mapping: the version that the result and both other
rows agree on. `ImplementsPublishedDocument` says every step publishes a whole
version, withdraws it, answers with a published version, or stutters.

### HandleReads

The handle a client holds is the version it was made for; the 16-bit checksum is
taken as injective on the versions of the instance. `TakeAnswer`, `OpenKey`,
`OpenHeader` are the calls of `open` after the pipeline's answer; `ReadKey`,
`ReadHeader`, `ReadItems` those of `read`; `PlaceDocument`, `PlaceText`,
`SectionText` those of a v1 section text, the tree and its order those of a
structure, and `find` to `rescan` those of a search, in the order the statements are issued
and with the errors the code returns (`unknown_handle`, `not_opened`,
`stale_handle`, `stale_document`). `steady[c]` is auxiliary: the version that has
been published ever since the call began.

### ScanTextCache

`slot` names the store in the cache, `stores` maps the live `Arc`s to
`ScanTextStore`s (document, version, text of each section, bytes, over-cap flag).
A store is dropped as soon as neither slot, scan nor warm refers to it. A scan
holds the connection mutex from the hash check to its last section; a warm takes
it for one read at a time and yields to a foreground request in between; a writer
commits under it and empties the slot afterwards, unless its caller was gone. What
a section costs is `Bytes` (what `ScanSectionText::bytes` counts) and `Estimate`
(what the warm's measure assumes of compressed text). Auxiliary: `tainted` marks a
document that was re-stored while a warm of it ran, `behind` counts the reads a
warm made while a scan queued.

### RawResourceCache

`body` and `meta` are the two files: absent, `Partial` (emptied, not filled),
`Mixed` (two writers over each other) or a response. `std::fs::write` is two steps,
`Empty…` and `Fill…`. `Ask` is the conditional request; a 304 answers the entry
read *before* it. `Cancel` drops the caller: a write the pool has runs to its end,
the next is not begun. `Crash` ends everything in place. The origin (`Serve`) is
external.

### OcrAdmission

`call` are the requests, `flights`/`waiters` the map of `OcrSingleFlight`, `task`
what the spawned task of a flight is at, `aborted` those that were aborted and not
yet dropped, `permit`/`alive` the worker slot of `LayoutPdfParser` and the
processes, `cached` the parsed-cache file, `late` a write that goes on after its
flight was dropped. `Leave` is `Waiter::drop`, `DropOperation` what dropping the
parse's future does wherever it is, `CleanupUnconfirmed` forgets the permit. A
process that was killed may leave half a file, so `OcrInit` allows one.

### OcrCheckpoints

`files` is the checkpoint directory of one document (`Meta` and page numbers),
`call` the parse that holds the flight, `worker` the Python worker, `drain[d]` a
task that reads the output of a worker, line by line, and stores pages.
`TakePermit` to `Spawn` are `LayoutPdfParser::parse` up to the worker; `AwaitDrain`
is the wait for the handle in `slot`, without which the checkpoint would be read
while pages are still stored. `ReplayPage`, `ComputePage`, `RunOut` and `FinishPages`
are the page loop of the worker, `DrainLine` and `StorePage` a line of its output
(the meta file and the page file are two renames), `Collect` and `Judge` the end of
the call: a timeout keeps the pages, every other end removes them. `DropCall` is a
dropped future: the worker goes to its cleanup with the permit, the drain and a
removal go on. `Stop` ends the server, the files stay. Auxiliary: `kept` are pages
computed that nothing excuses losing, `redone` those that were computed again.

### SectionStream and SectionChunks

A section is the sequence of the sentence counts of its paragraphs; a paragraph of
none is coarse (`CoarseParagraphOnly`), as segmentation makes a paragraph it finds no
sentence in (an eligible one of blank space only is the exception, see
[8](#8-not-modelled)). `Walk` is `walk_section_stream`; an entry is the unit it names
and whether it is eligible.

`SectionChunks` is the loop of `build_chunk_ranges`: `NextParagraph` and
`NextSentence` are its two bodies, `open` the pending range, `chunks` those cut,
`Store` the end of `write_document_sections` with the stream starts of
`plan_chunk_starts` and the relative indices of `chunk_layout`. What a record costs
is any value of `ParagraphCosts` or `SentenceCosts`, chosen per record: the code
measures the varints of its offsets. A record may cost less in a new chunk than in
the pending one, because its index is relative (`fresh <= cost`). `Page`, `Items`,
`PositionOf` and `Reassembled` are the reads, with the row each SQL statement picks
(`ORDER BY ... DESC LIMIT 1` is `LastBy`). Two assumptions: layouts are sorted
(segmentation emits no other; an unsorted one is a single chunk), and
`RoomAssumption`, that a sentence record and a paragraph record with its coverage
fit in the 64 bytes the code keeps: true of sections of up to about a million
characters. The budget is about the estimate the loop keeps, not the encoded blob.

### ReadWalk

A book is its sections in body order, `streams` their stored streams for the unit of
the walk. `FirstCall`, `Follow` and `Retry` are the calls of a client that goes on
with `next`, keeps its unit and direction, chooses any `max_chars` each time, repeats
a `too_long` with the count it is given and drops `max_chars` for an item no batch may
hold. Within a call `ForwardHead` and `BackwardHead` are the outer loop of
`Fill::forward` and `Fill::backward` up to the page they fetch, `ForwardRow` and
`BackwardRow` one row of the page. `Anchor`, `SteppedBack` and `FillFrom` are the
start of `execute`, `Answer` is `finish`. `trail` is auxiliary: all items so far.
Handles of other books and stale checksums are `HandleReads`' concern, and that a
page is what the whole stream holds there is `SectionChunks`'.


### SectionTree and TreeWalks

A section is the sequence of its children and its id is its path, so nothing has to
be said of names. `SectionTree` is how the store writes a tree (a row a section, with
its end and its parent) and reads it back (`rebuild`, children, ancestors), and how a
body order is validated and compressed to intervals. `TreeWalks` has two clients: of
`outline`, a row at a time off its stack (`SkipRow`, `ListRow`, `OutlineAnswer`), and
of `get_document_structure`, which lays the slice it took of a flattened scope out as
a forest (`PageRoots`). A client may use any page size for each page and another depth
than its cursor's.

### LexicalScan

A text is the tokens it contains, the tokens it consists of and whether the whole
query is in it. `PlanScan` orders the sections by their bound and deals them to
threads; `ScanItem` is one section or paragraph on one thread, skipped or scored
against the threshold that thread has; `FallBack`, `Merge`, `Relax`, `AnswerSearch` end
a pass. `SearchIsExact` compares with the definition of the best hits.

### UnitTools

`header` and `unitRows` are the two stores of one document, written one after the
other by an ingest at any time (`StoreUnits`, `StoreHeader`). A call is a sequence of
questions to them, a step each, in the order of the code, and ends in `reply`. `ticket`
is the cursor with all its claims; a client goes on, starts over, or changes its
arguments. `calm` is auxiliary: no ingest ran during any call of the walk.

### DocumentRows

The five tables of a document, with their shapes: a build that knew no header leaves
rows of the old shape, which `OpenRepository` drops. `Save` decides from the text-unit
store what it may leave out of the documents row; `Ask` is one of the questions,
answered by the code's own way through light and heavy metadata, header and rows.
`ReadersAgree` says every way gives what the version says.

### SegmentationRules and Segmentation

A text is a sequence of characters, a character a letter with or without case, a
mark, a blank, or a word that a rule asks for as a whole. `SegmentationRules` has the
paragraphs (blocks, blank lines, tables, fences), the sentence cuts with closers,
abbreviations, numbers and initials, and the guard that keeps merged or corrupted text
whole; `GuardCanFire` is the shortcut that skips it. `Segmentation` cuts a document
section by section with its validated block map and numbers the units.

### UnitRows

What a store of a segmented document writes: its key, a header a section, its text in
pieces of a bounded length and its boundaries in chunks of bounded size. Reads go
through `ChunkAtParagraph`, `ChunkAtSentence`, `LoadSlice` and `JoinedLayout` and derive
every unit again. `SweepUnits` deletes by key, and a later document may get the key.
Beside the rows, `memoryUnits` and `memorySets` are what the index of the trait's
defaults keeps; `StoreRebuilds` compares the two. A text is its characters; compression
is left out.

### FileListing

`disk` maps paths to files, directories and links; other processes change it between
any two steps. `BeginListing` resolves the roots and the path; `ReadDirectory` takes the
names of a directory; `TakeDocument` and `TakeChild` resolve one of them, `Measure` asks
later for the metadata of what it resolved to; `AnswerListing`
compares the scan with the cursor and cuts the page. `alive` and `steady` are auxiliary:
what was on the disk at some moment of the scan, and all along. `ListingsExact` has two parts:
`PagesAreOneListing` is about the pages, one with another and with what the last scan found,
`ListingsMatchDisk` about a scan and the disk. A link may take the path of a directory that a scan has yet to read: where it leads to
inside the roots, the scan then lists entries from outside its path. It may also take that of the directory of a name that
was resolved and not yet measured: the name is then listed with the size of what is behind the link (`LinkedIn` has both).

Still one step each: the resolution of the roots and the path of a call (`list_documents.rs:124`), the resolution
of a directory and the reading of its names (`list_documents.rs:193`, `197`, `203`), and the metadata and the resolution
of a root that `list_directory` lists itself (`list_directories.rs:180`, `275`).


## 3 Runs

Each cfg is `<run>.cfg`. Where a run has several components, a behaviour is of one of
them and the others stay where one of their own starts (`about` in `MCReading`, `cache`
in `MCCaches`).

| Run | Checks | Shows |
|---|---|---|
| `open_one_server` | `TypeOK`, `CompleteResult`, `EveryOpenAnswered`, `ImplementsPublishedDocument`, `UndisturbedIngestCompletes`, `TextLeftOutOnlyIfStored` | two server names of which one is up at a time (`OneServerSpec`), upgraded between restarts, two overlapping opens, deadlines and failures at any call: no result without its rows; every open answered; whatever rows earlier ingests left, one nothing overlaps repairs them; no documents row without its text unless that very text is stored as the row commits; refinement |
| `open_shared_violates_complete` | `CompleteResult` (violated) | what a second server breaks, see [7](#7-findings) |
| `handle_reads` | `SteadyCallsAreExact` | one server of one build whose opens take two media types: a call (open, read, section text, structure, search) during which a version stays published returns that version, or `stale_handle` for a handle of another |
| `handle_reads_torn` | `HandleReadsItsVersion` (violated) | a re-ingest between the checksum and the items |
| `structure_panic` | `StructureNeverPanics` (violated) | a re-ingest between the tree and the body order of a structure call |
| `search_textless` | `StoredTextIsParsed` (violated) | a re-ingest between the load and the scan of a search |
| `scan_cache_lost_section` | `NoPlannedSectionLost` (violated) | a warm empties the store a scan planned with |
| `caches` | `CacheAccounted`, `UntaintedScansExact`, `WarmsYield`; `QuietAnswersCurrent`, `FirstStoreSafe`; `ListingsExact` | the slot with a scan, a warm and a writer; two overlapping retrievals, refreshes, cancellations, crashes, a changing origin; the pages of a listing over a changing disk: one listing, of what was there |
| `raw_cache_interrupted` | `AnswersWhole` (violated) | an interrupted overwrite is returned as valid |
| `ocr_admission` | `FlightsOwned`, `OneWorker`, `ParsedOnce`, `EveryCallerAnswered` | three callers of one document who come and go over queued, running, hung, failed, expired and aborted flights |
| `ocr_checkpoints` | `NoPageRedone`, `EventuallyParsed` | a document of more pages than a call can recognise, over calls that time out, fail or are dropped: no page is recognised twice without a reason, and it is parsed in the end |
| `reading` | chunks: `ChunksPartition`, `ChunksWithinBudget`, `PagesMatchStream`, `PositionsInvertStream`, `ReassemblesLayout` | coarse, short and oversized paragraphs in any order: the rows partition the section, and every page, position and the layout read from them are those of the whole |
| | walk: `AnswersRun`, `WalkIsExact`, `BudgetHonoured`, `MarksRight`, `WalkEnds` | every small book from every handle, both units and directions, any budget: each item once, in order, in the budget, to the end |
| | tree: `ScopeListedOnce`, `PageForestExact`, `RowsNestBack`, `BoundaryExact` | every tree of up to four sections at any page size; every structure map of small ones, the broken ones too |
| | search: `SearchIsExact` | pruned and threaded searches find what an exhaustive one does, ties included |
| | units: `UnitPagesExact`, `TextPagesExact`, `ContextExact` | the v1 tools over a section that is re-ingested between and during their calls |
| | rows: `ReadersAgree` | versions saved over one another by builds of several shapes, every question |
| | segments: `SegmentationExact` | every text of up to four characters, longer ones for the rules that need them, maps of blocks |
| | unit rows: `StoreRebuilds` | documents stored, stored again, swept and given keys of others: the rows answer as an index that kept the units |

Every property of a passing run has a mutant in `PROJECT.json`: a definition of the
model changed the way a plausible bug would change its code (a dropped reset, a
swapped order, a wrong key), under which TLC finds the property violated in the
same configuration. The mutants sit before the definition they change, marked
*Mutant*.

Deadlock is checked in every run but `reading`, whose components stop when a section
is stored, a walk has ended or a search is answered, and `ocr_checkpoints`, which stops
when the document is parsed: the parsed cache answers from then on.


## 4 Bounds

| Constant | Value | Why it is enough |
|---|---|---|
| `Requests` (pipeline) | 2 | a transaction of one between any two of the other; a third adds an earlier remnant, which crashes and failures leave as well; the one-server theorems hold for any number |
| `Servers` | 1 or 2 | the theorems need one; the disagreement needs a second |
| `Builds`, `Versions`, `MediaTypes` | 2, 2, 1–2 | same version or another is all the code compares; one build has a deadline, the other has not |
| `StoreVersionOf` | equal, or one per build | stale results are swept or not |
| `Clients` | 1 | clients only read, so they do not interact |
| `Docs`, versions | 2, 3 in all | another document takes the slot; only one is re-stored and warmed |
| `N`, `Cap`, `Bytes`, `Estimate` | 2 sections, 16 | `small` fits for certain, `dense` fits although its estimate does not, `large` does not fit: the three cases of the cap |
| `StoreIds` | 3 | one per scan, slot and warm: as many as can be referenced; an `ASSUME` says so |
| `Writers` | 1 | a writer holds the mutex for its commit |
| `Requests`, `Responses` (raw cache) | 2, 2 (one without validators) | one overlap; changed, unchanged, not validatable |
| `begun` | counts to 2 | only "first store or not" is asked |
| `Callers`, `Keys` | 3, 1 | last waiter leaves while one joins and one starts anew |
| `Capacity`, `Tasks` | 2, 2 (real: 3) | one admitted, one queued, a third caller refused |
| `PageCount`, `PerCall` | 2, 1 | a document that one call cannot finish |
| `Drains`, `MaxFaults` | 2, 2 | the drain of a dropped call beside the one of the next; a fault that loses a page and one more while it is recovered. Faults are failing writes, refused results, a restart, and drops where a call waits only for files |
| `Sections` | up to 3 paragraphs of 0, 1, 2 or 7 sentences | 7 sentences are more than two mid chunks hold; before, after and between short and coarse paragraphs |
| `ParagraphCosts`, `SentenceCosts`, `HeadCost`, `TailRoom`, `Budget` | {1, 2}, {1, 2}, 1, 4, 9 | the real 8, 64 and 8 KiB keep the same order; a chunk holds two to four records, so every record can be the one that does not fit; the theorems hold for all costs |
| windows in `PagesMatchStream` | every position up to one past the end; limits 1, 2 and all | a page in one row, over a row boundary, and to the end |
| `Books` | up to 3 sections, each empty, one paragraph of 3 sentences, or prose and coarse | an empty section first, between and last; none readable; no section |
| `FetchChunk`, `MaxBatch`, `Backs` | 2, 4, {0, 1, 2} | a section longer than a page; items of 1 to 5 characters, so that some fit exactly, some never; `back` within a section, over a boundary, over the start |
| `Documents`, `Depths`, `PageSizes` | all trees of up to 4 sections, {1, 2, 9}, {1, 2, 3} | a page may end at, before and after the end of a subtree, and above a deeper one; permuted body orders of all, every map of up to two |
| `Contents`, `Limits`, `ThreadCounts`, `FlushFactor` | up to 3 sections and paragraphs, {1, 2}, {1, 2}, 1 | a tie at the limit, on one thread and over two; a bound above and below the threshold; buffers that are flushed at every hit |
| `Texts` (v1 tools), `ItemLimits`, `CharLimits`, `Windows` | two versions of a section, {1, 2}, {2, 3}, {0, 1} | a coarse paragraph that becomes prose moves every later position; pages that end within and at the end of a text |
| `DocVersions`, `MetaKeys`, `Widths` | 3 versions of 2 or 3 sections, 3 keys, {1, 5} | each entry absent, light or heavy; an order of its own, the plain one, a broken one |
| `Parsed`, `BlockMaps` | all texts of up to 4 of 6 characters, 20 longer ones | a rule looks at two characters before a mark and one after it; each special text is for the rules its comment names |
| `Ingests`, `ChunkChars`, `ChunkBytes`, `VarintBase`, `MaxKey` | 3 versions of 2 documents, 4, 80, 8, 2 | a paragraph over three chunks, slices over two pieces, numbers of one and two bytes, a key used again |
| `Asks`, `Disks`, `RootSets` | 8 calls, 1 disk, 4 sets of roots | nested roots, a root that is a link, no root; a file, a link, a directory with a file that may be emptied |
| `MaxCalls`, `MaxChanges`, `MaxResults`, `MaxEntries` | 2, 3, 2, 2 | a page and the next; two changes that keep the number of entries; three that replace a directory with a file in it by a link, before the file is measured |
| late writes | 1 per key | one write that outlived its flight, beside one flight |

Symmetry is used in `handle_reads_torn` and `structure_panic`, over sets whose members no
constant tells apart and in runs without liveness properties. `handle_reads` has a view
(`StepState` in `MCHandleReads`) instead: requests count as a set, an idle request or
client as one without variables, and `alone`, `answer` and `outcome` are left out, which
no guard and no step of the property's left side reads. Two keys in `OcrAdmission` give
5.6 million states, too many with a liveness property; its three invariants are proved
for any number of keys ([6](#6-proofs)).


## 5 Fairness

| Specification | Assumed | Because | Not assumed |
|---|---|---|---|
| `FairSpec` | `WF(Step(r))`, `SF(Decide(r))` | the blocking pool runs every job it got; a thread that blocks on the connection gets it in the end although others keep taking it, and its holder waits for no other job | that a client asks, a server starts or stops, a call fails, a deadline passes |
| `FairOcrSpec` | `WF(CallerStep(c))`, `WF(Expire(t))`, `WF(DropAborted(t))` | a caller that can go on does; the 60 s deadline of a flight is a timer; the runtime drops an aborted task at its next poll | that a worker ends or its cleanup is confirmed |
| `OcrCheckpoints` `FairSpec` | `WF` of removals, cleanups, drains and the steps of a call; `SF` of the permit, of each page and of the end of a call | jobs end; a call is dropped at its 60 s deadline or when its caller leaves, so among the calls that follow one another some get as far as any step, since only the recognition of a page takes long | that a call is never dropped, that a worker succeeds, that cleanup is confirmed |
| `WalkSpec` and `MCReading` | `WF(WalkNext)` | a call the server began is finished, and the client goes on with `next` and retries what it is told to | |
| `HandleSpec`, `ScanSpec`, `RawSpec`, `SectionChunks` `Spec`, and those of the other components | none | their properties are safety | |


## 6 Proofs

`OpenPipelineProofs` holds for all sets of servers, requests, builds, media types
and versions, under `OpenAssumption` (the constants have their types and the null
values are not among the others).

| Theorem | Statement | Inductive invariant |
|---|---|---|
| `TypeCorrect` | `Spec => []TypeOK` | `Typed`: `TypeOK`, and a request that is in a call has a running server; without it `Put` could store a row of the build `None` |
| `UndisturbedOpens` | `Spec => UndisturbedIngestCompletes` | `Undisturbed`: an ingest that is alone and past `Segment` finds its own version in `text`, and past `Insert` in `doc`. While it is alone no other request is in a call, so only its own steps write |
| `OneServerCompleteResult` | `Spec => []CompleteResult` | `CompleteInv`: `CompleteResult`, and every request in the middle of an ingest leaves no row of another version behind |
| `OneServerTextLeftOut` | `Spec => TextLeftOutOnlyIfStored` | the same |
| `OneServerImplementsPublishedDocument` | `Spec => Abstract!Spec` | the same; `StepRefines` maps each action to a step of `PublishedDocument` or a stutter |

The last three rest on two named hypotheses of the theorems: `OneServer` (at most
one server on the directory) and `OneVersionPerBuild` (the version depends on the
build, not on the media type). Both are needed: `open_shared_violates_complete`
breaks `CompleteResult` without the first, an ingest under another media type breaks
`TextLeftOutOnlyIfStored` without the second ([7](#7-findings)), and the code enforces
neither. The idea
of `CompleteInv` is that all ingests running at one time run in the same build and
so write the same version: every write to `text` and `doc` either keeps a published
document or replaces it by an identical one, and `Remove` comes before any of them
when the versions differ, i.e. after a restart with another build, when every job
of the old server is gone.

The theorems about `CompleteResult` are about the pipeline. A search may store a
textless segmentation beside it ([7](#7-findings), 6), which is another writer of `text`:
`HandleReads` composes the two, and there the property is not claimed.

The part of it about `HandleReads` needs none of the hypotheses of the one-server theorems: it holds
for any number of servers, builds, requests and clients.

| Theorem | Statement | Inductive invariant |
|---|---|---|
| `SteadyCallsExact` | `HandleSpec => SteadyCallsAreExact` | `HandleInv`: what is published is the version of some parse, and a call whose version stays published has only compared, seen and kept that version, and never turns to the index. The property is about a step, so it needs to know what the earlier statements of the call read; `CallKeepsTo` is that, stage by stage |

The argument is short because `steady` is dropped as soon as `published` changes: while
it holds, all three rows are of one version, whoever writes, so every statement finds it
(`PublishedRows`). What is left is that no stage carries anything else over.

`SectionChunksProofs` holds for every set of sections and of record costs, under
`SectionsAssumption`, `CostAssumption` and `RoomAssumption`.

| Theorem | Statement | Inductive invariant |
|---|---|---|
| `CutInvariant` | `Spec => []CutInv` | the chunks cut so far are linked and fit; the pending range continues them; together they reach the paragraph and the sentence the loop has reached |
| `ChunksAreTyped` | `Spec => []ChunksTypeOK` | `CutInv` |
| `ChunksPartitionSection` | `Spec => []ChunksPartition` | `CutInv`: the property alone says nothing of the pending range, so a flush could break it |
| `ChunksStayWithinBudget` | `Spec => []ChunksWithinBudget` | `CutInv`, whose `Pending` keeps the tail room of an open mid chunk free: that room is what the repeated record uses |
| `StoredChunks` | `Spec => [](PlaceInv /\ StoredInv)` | these two with `CutInv`: see below |

Each action is first shown to re-establish the invariant from any range that
continues the chunks (`NextParagraphCut`, `NextSentenceCut`, `StoreCut`); what a
flush gives is one lemma, `FlushPending`.

The second half of the module says, under the same assumptions, that the rows answer what the whole section
answers: whatever the section, and wherever the costs of its records make the loop cut it.

| Theorem | Statement |
|---|---|
| `ReassemblesStoredLayout` | `Spec => []ReassemblesLayout` |
| `PagesOfStream` | `Spec => []PagesMatchStream` |
| `EveryPageOfStream` | `Spec => []EveryPageMatches`: the same of every position and every limit, where TLC tries three limits |
| `PositionsOfStream` | `Spec => []PositionsInvertStream` |

The four follow from `StoredChunks` and need no step of their own. `CutInv` knows that the ranges
follow one another, which does not say *what* a range holds. `PlaceInv` does, with `Q` the
sentences up to and with each paragraph: a regular range starts at a paragraph's first sentence and
ends inside or at the end of its last one; a mid range lies inside one paragraph, and its
`firstSentence` is where (`InPlace`). It is inductive with `CutInv` because the loop's own `cursor`
is `Q[at - 1] + done`. `StoredInv` says the same of the stored rows: they are those of ranges that
tile the section (`Tiles`), each blob is the piece of the layout its range covers (`IsPiece`), and
each stream start counts the entries of the walk before the one the range begins at (`StartsAt`).

The stream starts are the hard part of `Store`, since `plan_chunk_starts` gives an entry to the
first chunk from a moving cursor on that holds it. `HoldsCovered` shows that a range holds exactly
the entries between where it begins and where it covers, so the cursor never runs ahead
(`OwnersAre`). A mid chunk that starts with the first sentence of its paragraph covers none of the
paragraph stream, and this is why that stream may skip mid chunks.

The reads then come down to counting. The walk of one blob is the run of the section's walk its
range covers (`LocalWalk`), what a policy keeps of a run is the run of what it keeps
(`KeptRun`), and the stream starts are partial sums (`StreamEndsAre`), so the rows in a row are the
stream in a row (`ListedIs`). For a position there is also the choice of the row: among the rows
that start at or before a unit, the last one by paragraph and then by sentence is the one whose
range has it (`ParagraphHolder`, `SentenceHolder`); a unit of the other stream, or past the end, is
in no row's entries.

`CacheProofs` has two parts. The one about `ScanTextCache` holds for any documents, versions, sections and actors, under
`ScanAssumption`: finitely many documents are opened, there are stores enough for
each warm, the slot and a scan, and the null value is no store and no text.

| Theorem | Statement | Inductive invariant |
|---|---|---|
| `WarmsGiveWay` | `ScanSpec => []WarmsYield` | `YieldInv`: a warm that has made its read while somebody waited is not at a place from which it makes another |
| `SearchesReadTheirVersion` | `ScanSpec => []UntaintedScansExact` | `TextInv`: every store an `Arc` is held to has the texts of its version alone, a scan past its check has the version that is committed, and a warm that checked writes to a store of the version it read. Without the part about stores no step of a scan could be shown; without the part about warms no `Insert` |
| `StoresAreAccounted` | `ScanSpec => []CacheAccounted` | `AccountInv`: a name of a store is free or its store is accounted, whoever holds it; what a scan or a warm is about to insert is a text of a version, into a section of the store. The steps rest on one fact: a held text is never replaced, so an insert adds one element to the set that is summed |

The one about `RawResourceCache` holds for any number of retrievals and responses, under
`RawAssumption` (absent, partial and mixed files are three things, and no response).

| Theorem | Statement | Inductive invariant |
|---|---|---|
| `FirstStoreIsSafe` | `RawSpec => []FirstStoreSafe` | `FirstInv`: until a store begins no file is there; after one began, the metadata is there only with the body it belongs to, and a retrieval between its two reads has read the metadata that is still there |
| `QuietAnswersAreCurrent` | `RawSpec => []QuietAnswersCurrent` | `SettledInv` and `QuietInv`: an entry nobody writes, whose last writer was alone, holds one response or none, and a retrieval nothing overlapped has read of it what it holds. Quietness is lost for ever at the first overlap, which is what makes the two invariants inductive together |

`OcrAdmissionProofs` holds for any finite sets of callers, keys and tasks and any
capacity, under `OcrAssumption` and `NoneAssumption` (the null value is no task, no key
and no stage).

| Theorem | Statement | Inductive invariant |
|---|---|---|
| `OneWorkerAlive` | `OcrSpec => []OneWorker` | `WorkerInv`: past the queue there is one task, and the permit says what is known of the process. A task that is dropped may leave the process to its cleanup, so the next task cannot be counted on to find none: the permit has to |
| `NothingParsedTwice` | `OcrSpec => []ParsedOnce` | `WorkerInv` and `ParsedOnce`: the file of a key becomes whole only by the one task past the queue or by a late write, and that one marks whom it overtook |
| `FlightsAreOwned` | `OcrSpec => []FlightsOwned` | `RegistryInv`: for each key the flight in the map is live, is that of no other key and counts the callers that wait for it; the property is about tasks and does not say that two keys never share a flight, without which a caller who leaves one could take the other's off the map |

`OcrCheckpointsProofs` holds for documents of any length, any number of pages a call can
recognise, any number of drains and of faults, under `CheckpointAssumption`.

| Theorem | Statement | Inductive invariant |
|---|---|---|
| `ResumeRedoesNothing` | `Spec => []NoPageRedone` | `CheckpointInv`: a kept page is *safe*, that is in the files beside the meta file, or a line in the output that the drain in the slot, or the one the call awaits, has yet to store with its meta file; a call past its load resumes it, and a worker is past it or resumes it. `CallInv` ties the slot, the call and the worker to one another: a drain that nobody will await saves no page |

It is the invariant that says why `AwaitDrain` has to come before `LoadMeta`: with the
wait left out, `KeptInv` fails at `LoadPages`.

`ReadWalkProofs` holds for every set of books (any number of sections, paragraphs and
sentences), any values of `FETCH_CHUNK`, `MAX_BATCH_CHARS` and `back`, and any lengths of the
units, under `ReadAssumption` (the constants have their types; a unit has a number of
characters).

| Theorem | Statement | What the invariant is needed for |
|---|---|---|
| `AnswersAreRuns` | `WalkSpec => []AnswersRun` | in the middle of a call the answer is the slice of the book between where the call filled from (`Origin`) and where it is, so the start, or the end, of an answer is known when it stops |
| `WalksAreExact` | `WalkSpec => []WalkIsExact` | what has been returned is a slice that ends at `Origin` until the call answers and at its place from then on; `next` names that place again (`ResumeIs`, `NextIs`), so the next call's `Origin` is where the last one stopped |
| `BudgetsAreHonoured` | `WalkSpec => []BudgetHonoured` | the row in hand is the item next to the place (`RowIs`), so the item that did not fit is the first of the next call |
| `MarksAreRight` | `WalkSpec => []MarksRight` | the banners and the anchor are those of the part collected so far, of which no item occurs twice (`NotYet`) |

All four rest on one invariant, `WalkInv`. A place past the last item of its section, where a
backward call from an unread item starts, is the exception its `PlaceOK` makes: such a place is
only there before the first row. `Retry` keeps `Origin` because a handle names one place at most
(`AnchorIs`), and that rests on the streams: the units of a section are distinct
(`StreamDistinct`), hence the items of the book are (`FlatIs`).

`FileListingProofs` holds for every disk, every set of roots, every call and every order of calls
and changes, under two assumptions. `DiskAssumption`: a path is that of an entry of its directory
(`IsDisk`), what a link leads to is no link, and the paths of files that come and go are not
those of directories. `CallAssumption`: the constants have their types, and only `list_documents`
goes down.

| Theorem | Statement | Inductive invariant |
|---|---|---|
| `ListingsAreWhole` | `ListSpec => []PagesAreOneListing` | `ListInv`: what is found has one entry a path; what the client has read is the cursor's manifest up to its `next`; a scan is for the first page or for the one after those. A page follows the ones before because a cursor is refused whose manifest is not what the scan found |
| `ListingsAreOfTheDisk` | `ListSpec => []ListingsMatchDisk` | `ExactInv`: see below |
| `ListingsAreExact` | `ListSpec => []ListingsExact` | the two above |

`ListingsMatchDisk` says nothing of a scan that is not over. `ScanInv` does: an entry in scope that was
there all along was found, or a directory or a name still to be read leads to it (`Covers`); what
is to be read is where a directory was at some moment of the scan (`AreAhead`), inside the roots,
and in scope unless a link took a path. A name that was resolved stands for what it stood for before
(`ResolvedAhead`), under the path it resolved to. Each action is shown to keep these as other processes
change the disk at any moment; a change that takes an entry away takes it out of `steady`. `RunInv` says that the
cursor names what the disk has as long as nothing changed since the first page, so that only a
change makes it stale. `Canonical` is a recursive function: that what it resolves to is there, is
no link and goes through none is by induction over the names (`CanonicalThere`, `CanonicalSelf`).
The order of the entries is a rank, the number of entries before each: every rank is taken once,
since the order of paths is a strict total one (`PathBeforeTotal`, `EveryRank`, `RanksSort`).

`StreamLemmas` has what the modules about walks, chunks and listings rest on. The model's operators are folds and concatenations, and what they return is induction over data.
The library's induction rules take an operator, which the provers cannot instantiate; but that
the naturals are well founded says without one that a *set* that holds 0 and every successor is
all of them (`SetInduction`), and a set can be given by the statement to prove. From this follow what a fold
over 1..n adds up to (`FoldIsSum`), where `FlattenSeq` puts each item (`Flattened`), and where
stepping back `n` times comes to (`SteppedBackIs`).

A sum over a *set* has no order to go along. The finite parts of a set are well founded by strict
inclusion (`LeastPart`): the function that `SumFunctionOnSet` chooses exists (`AdditiveExists`), is
the one sum whatever order it takes the elements in (`SumIs`), and grows by the value of an element
that is added (`SumGrows`).

Only model-checked:

- `EveryOpenAnswered`, `EveryCallerAnswered`, `EventuallyParsed`, `WalkEnds`: liveness under fairness is out of the prover's reach.
- `ReadersAgree`: not proved. It compares the readers of six tables, each with a join of its own.
- The properties of `UnitTools`, `UnitRows`, `Segmentation`, `TreeWalks` and `LexicalScan`:
  they compare two ways to compute the same sequence, each of which would need lemmas of its own.

`MCTreeWalks`, which enumerates trees, has the only recursive operator.


## 7 Findings

Six statements of the repository that its code does not keep. The quotations are
in `PROJECT.json`, under `findings`.

1. *A stored result may claim a document that is not there* (`open_document.rs:261`
   says a crash can never leave one). With two servers on a state directory the
   startup sweep of the second takes a document that is being ingested for an
   orphan, and the ingest then stores its result.
2. *A read can return another version under an old handle* (`short_handle.rs:5`).
   The checksum is compared once, the items are read by later calls.
3. *A scan can lose a section it planned* (`sqlite.rs:4559` says it cannot): a warm
   marks the store over the cap without the connection mutex; the search fails.
4. *An interrupted overwrite is returned as valid* (`file_cache.rs:82`): "body
   first, metadata last" protects only the first store of an entry.
5. *A structure call can panic* (`get_document_structure.rs:780` expects a place for
   every section): the tree and the body order come from two store calls, and a
   re-ingest of a version with fewer sections fits in between.
6. *A search can erase the text of a document* (`search_document.rs:168`). It loads the
   document without its text and, where the scan finds another version stored, stores
   that copy: the segmentation of empty sections, under the hash of the real one. The
   text is gone until the document is opened with `force_refresh`.

Within the model of `ScanTextCache` there is one more thing a reader should know:
a document that is re-stored and re-stored again at its first version while one
warm of it runs may have texts of the version in between trusted.
`UntaintedScansExact` leaves such scans out. The warm's measure also takes compressed
text to expand threefold, so a document that fits may be marked over the cap
(`sqlite.rs:507` says it would end in that state anyway); answers are not affected.

Met while proving `OneServerTextLeftOut`, and not a run: `sqlite.rs:893` says that no
other write of the process can land between the check of the stored text and the insert
of the documents row. The check reads a table that the text-unit store writes over a
connection of its own. In one server, with `MediaTypes = {m1, m2}` parsed to two versions,
one open stores its segmentation and decides to leave the text out (`Segment`, `Decide`),
an open of the same bytes under the other media type stores its own (`Segment`), and the
first inserts its row (`Insert`): the row has no text, and the text stored is the other's,
until `Check` of the first stores it again.

Met while modelling the checkpoints, and not a run: the comments at
`ocr_checkpoint.rs:235` and `layout_pdf.rs:941` say that success and every definitive
failure discard the pages. After a failure of the diagnostics limit the drain goes on
and `put_page` creates the directory again after it was removed; a dropped call may
leave its `remove_dir_all` running beside the drain of the next. The pages found so
are of the same key and as good as any, so `NoPageRedone` is about loss only.

Met while modelling `read`, and not a run: `short_handle.rs:76` says of the backward
cursor that a walk "needs nothing else", but `read` uses the `unit` argument and not
the cursor's (`read_reading.rs:243` takes its position alone). A client that walks
paragraphs backward has to repeat `unit`, as the client of `ReadWalk` does.


Met while modelling the stores, and not a run:

- `section_unit` and `section_stream_summary` fail as stale for a section the store does
  not have (`sqlite.rs:6156`); `ports.rs:759` says `Ok(None)`, as the default answers.
  `section_stream_items` answers an empty page instead of stale and does not compare the
  segmentation version. No production caller asks for a section it did not find first,
  and `StoreRebuilds` asks for stored sections.
- `replace_document`, `list_document` and `replace_document_sets` have no production
  caller; `UnitRows` has the first and the last for the rows they leave, and a list after
  a `replace_document` over a stored layout still answers from the layout.
- A documents row without a hash is not compared with the text store (`sqlite.rs:1626`):
  its section texts may be another version's. `ReadersAgree` leaves them out.
- A section row is looked up by hashes and compared by section id alone
  (`sqlite.rs:2245`): two documents whose ids hash alike would share rows.
- Opening a file of the old section-row shape drops the rows (`sqlite.rs:3070`); until the
  document is ingested again the readers of rows find no sections.
- The estimate of a mid chunk leaves out the record it repeats (`sqlite.rs:5431`);
  `RoomAssumption` says why that fits.
- `NormalizedTextRange` is deserialised without the check of its constructor
  (`normalized_text.rs:31`); `Segmentation` takes such ranges and refuses them where the
  validation does.
- An entry that goes away between its name and its size fails the whole listing
  (`list_documents.rs:206`), and so does a root that is no directory; `ListingsMatchDisk` allows
  these, a listing that is too long and a stale cursor, and nothing else, as reasons.
- A scan resolves a directory again before it reads it (`list_documents.rs:193`) and compares
  the result with the roots, not with the path it was asked for: where a link took the
  directory's place meanwhile, the answer has entries from elsewhere in the roots.
- The metadata of an entry is asked for by its canonical path (`list_documents.rs:233`,
  `list_directories.rs:232`) after that path was compared with the roots: where a link took
  the place of a directory on it meanwhile, the size listed is that of the file behind the link.


## 8 Not modelled

- *Parsers, layout projection, OCR evidence*: translations of file formats, about data
  TLC cannot enumerate. What the rest of the system asks of them is whether two versions
  are equal, which is what the models keep.
- *Tokens, snippets, Unicode tables and normalisation* of a text; the v2 `search` and
  `cite` tools, which resolve a handle like `read` does and project rows; the matching of
  a heading.
- *Source view, routing, landing pages, access policy, MCP transport, binaries,
  telemetry*: input and output without state between calls.
- *Resource budgets, ephemeral state directories*: planned.
- Inside the modelled parts: 16-bit checksum collisions (probability), orphan text-unit
  rows the sweep cannot see (space), redirects, media types and size limits of a response,
  other processes in `ScanTextCache`, the encoding and the checksum of cursors, the
  compression of chunks, and the SIGKILL of a worker on the non-systemd path, which is
  taken to work within the second the code waits for it. An eligible native block of blank
  space only gets neither a sentence nor a coarse entry (`text_unit_stream.rs:356`):
  `SectionStream` has no such paragraph. A listing's path is canonical or a link; the
  refusal of an empty one or one with `..` is left out.

`PROJECT.json` lists every component with its status.


## 9 Plan

Order: what a later module composes comes first, then what can lose or mix data.

1. `PublishedDocument`, `OpenPipeline`, `HandleReads` — done, with proofs.
2. `ScanTextCache`, `RawResourceCache`, `OcrAdmission`, `OcrCheckpoints` — done, with proofs.
3. `SectionStream`, `SectionChunks`, `ReadWalk` — done, with proofs.
4. `SectionTree`, `TreeWalks`, `LexicalScan`, `UnitTools`, `DocumentRows`, `Segmentation`,
   `UnitRows`, `FileListing` — done; proved of `FileListing`, not yet of the others.
5. The sweep over many documents with its limits, and orphan text rows.
6. `ResourceBudget`, `EphemeralState`, the v2 search and cite tools.
7. An abstract reader that delivers each unit once, which `ReadWalk` implements;
   redirect chains in `RawResourceCache`.

Theorems still worth proving: `ReadersAgree`; the exactness of a search and of a page of text
units.
