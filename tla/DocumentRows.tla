---------------------------- MODULE DocumentRows ----------------------------
(***************************************************************************)
(* One document in the repository's tables: its documents row, the two     *)
(* tables of large metadata entries, the header, the section rows and the  *)
(* body-order rows, next to the text-unit store, which has a connection of *)
(* its own. Which of the tables a document is in depends on the build that *)
(* saved it and on what the text-unit store held then; every reader has to *)
(* find it, whichever it is.                                               *)
(*                                                                         *)
(* A version is a document as it was parsed: its tree, the location of     *)
(* each section, its body order and its metadata. A value of it is named   *)
(* by the version and its place there; a hash is the version it is of. One *)
(* server has the file, so a question is answered in one step.             *)
(***************************************************************************)
EXTENDS SectionTree

CONSTANTS
  DocVersions,  \* [id, tree, places, epub, facts, meta, ocr]: see below
  MetaKeys,     \* keys of metadata entries; "ocr" is one that OCR writes
  Widths        \* limits of a range, and rows before and after in a window

VARIABLES
  docRow,     \* documents
  metaRows,   \* document_meta_v1 and document_meta_v2, sets of entries
  headerRow,  \* document_header_v1
  sectionTable, \* document_sections_v1: its shape and the document's rows
  orderTable,   \* document_body_order_rows_v1: its shape and the document's rows
  textUnits,  \* the version of the text-unit store and its segmentation
  running,    \* whether a server of this build has the file open
  reading     \* the last question and its answer

storeVars == <<docRow, metaRows, headerRow, sectionTable, orderTable, textUnits, running, reading>>

-----------------------------------------------------------------------------
(* Versions and their values                                               *)

\* A metadata entry: its key and the version whose value it holds.
Entry(v, key) == [key |-> key, of |-> v.id]
Entries(v, size) == {Entry(v, key) : key \in {k \in MetaKeys : v.meta[k] = size}}

Title(v, key) == <<v.id, key>>

\* The location of a section; places[key + 1] is the set of optional fields it has, and whether
\* its path is its title.
LocationOf(v, key) ==
  [f \in v.places[key + 1].fields \cup {"path"} |->
     IF f # "path" THEN <<v.id, key, f>>
     ELSE IF v.places[key + 1].titled THEN <<Title(v, key)>> ELSE <<Title(v, key), Title(v, 0)>>]

\* flatten_document, with what a row says of its section.
DocumentRows(v) ==
  LET rows == FlattenDocument(v.tree)
  IN  [i \in 1..Len(rows) |->
        [key |-> rows[i].key, id |-> rows[i].id, parent |-> rows[i].parent, end |-> rows[i].end,
         title |-> Title(v, i - 1), location |-> LocationOf(v, i - 1)]]

OrderFails(v) == BodyOrderFails(FlattenDocument(v.tree), v.epub, v.facts)
OrderIds(v) == BodyOrderIds(FlattenDocument(v.tree), v.epub, v.facts)
OrderKeys(v) == BodyOrderKeys(FlattenDocument(v.tree), OrderIds(v))

-----------------------------------------------------------------------------
(* The location of a stored section: flags, then the fields in a fixed     *)
(* order. A path that is the title is a flag.                              *)

LocationFields == <<"page", "chapter", "path", "anchor", "paragraph", "start", "end", "native">>

EncodeLocation(location, title) ==
  LET titled  == location.path = <<title>>
      present == IF titled THEN DOMAIN location \ {"path"} ELSE DOMAIN location
      written == SelectSeq(LocationFields, LAMBDA f : f \in present)
  IN  [flags  |-> (DOMAIN location \ {"path"}) \cup (IF titled THEN {"titled"} ELSE {}),
       fields |-> [i \in 1..Len(written) |-> location[written[i]]]]

DecodeLocation(stored, title) ==
  LET written == SelectSeq(LocationFields,
                   LAMBDA f : f \in stored.flags \/ (f = "path" /\ "titled" \notin stored.flags))
  IN  [f \in (stored.flags \ {"titled"}) \cup {"path"} |->
         IF f = "path" /\ "titled" \in stored.flags THEN <<title>>
         ELSE stored.fields[CHOOSE i \in 1..Len(written) : written[i] = f]]

StoredSections(v) ==
  [i \in 1..Len(DocumentRows(v)) |->
     [DocumentRows(v)[i] EXCEPT !.location = EncodeLocation(@, DocumentRows(v)[i].title)]]

IntoSectionRow(stored) == [stored EXCEPT !.location = DecodeLocation(@, stored.title)]

SectionRows == [i \in 1..Len(sectionTable.rows) |-> IntoSectionRow(sectionTable.rows[i])]

-----------------------------------------------------------------------------
(* Writers                                                                 *)

NoRow == [is |-> "none"]
NoUnitRows == [is |-> "none"]
Nothing == [asked |-> "nothing"]

\* section_text_is_stored.
TextIsStored(v) == textUnits = [is |-> "stored", of |-> v, segmentation |-> "current"]

\* StoredDocument::with_stores. The tree leaves the row with the text.
RowOf(v, textStored) ==
  [is |-> "row", of |-> v, hash |-> "stored", normalization |-> "current",
   content |-> IF textStored THEN "section_text" ELSE "inline",
   tree    |-> IF textStored THEN "section_rows" ELSE "inline",
   inline  |-> Entries(v, "light"),
   heavy   |-> IF Entries(v, "heavy") # {} THEN "v2" ELSE "inline"]

HeaderOf(v) ==
  [is |-> "row", of |-> v, count |-> Len(DocumentRows(v)), roots |-> Len(v.tree),
   failed |-> OrderFails(v)]

StoreSectionRows(v) ==
  /\ headerRow' = HeaderOf(v)
  /\ sectionTable' = [sectionTable EXCEPT !.rows = StoredSections(v)]
  /\ orderTable' = [orderTable EXCEPT !.rows = IF OrderFails(v) THEN <<>> ELSE OrderKeys(v)]

\* save_shared.
Save(v) ==
  /\ running /\ reading = Nothing
  /\ docRow' = RowOf(v, TextIsStored(v))
  /\ metaRows' = [v1 |-> {}, v2 |-> Entries(v, "heavy")]
  /\ StoreSectionRows(v)
  /\ UNCHANGED <<textUnits, running, reading>>

\* The text-unit store takes a version, by an ingest that may stop before it saves the document.
StoreText(v) ==
  /\ running /\ reading = Nothing
  /\ textUnits' = [is |-> "stored", of |-> v, segmentation |-> "current"]
  /\ UNCHANGED <<docRow, metaRows, headerRow, sectionTable, orderTable, running, reading>>

\* SqliteDocumentRepository::open: a table of an older shape is dropped and made anew, empty.
EnsureShape(table) == IF table.shape = "current" THEN table ELSE [shape |-> "current", rows |-> <<>>]

OpenRepository ==
  /\ ~running
  /\ running' = TRUE
  /\ sectionTable' = EnsureShape(sectionTable)
  /\ orderTable' = EnsureShape(orderTable)
  /\ UNCHANGED <<docRow, metaRows, headerRow, textUnits, reading>>

-----------------------------------------------------------------------------
(* The whole document                                                      *)

Stale == [no |-> "stale"]
Unknown == [no |-> "unknown"]
Failed == [no |-> "failed"]
Refusals == {Stale, Unknown, Failed}

\* A value is answered under its kind, so that no two kinds are compared.
Is(kind, value) == [k \in {kind} |-> value]

\* A set of at most one value, as an Option.
Optional(kind, found) == IF found = {} THEN Unknown ELSE Is(kind, CHOOSE one \in found : TRUE)

\* Mutant: the rows are taken as they are.
TreeIsTrusted == FALSE

\* load_section_tree: the header counts the rows.
TreeIsStale == headerRow # NoRow /\ headerRow.count # Len(sectionTable.rows)

\* load_document_metadata.
HeavyEntries ==
  CASE docRow.heavy = "v1" -> metaRows.v1
    [] docRow.heavy = "v2" -> metaRows.v2
    [] OTHER -> {}

\* load_document_section_text: units of the hash the row has, one layout a section.
TextIsStale(sections) ==
  \/ textUnits = NoUnitRows
  \/ docRow.hash = "stored" /\ textUnits.of # docRow.of
  \/ Len(DocumentRows(textUnits.of)) # Len(sections)

UnknownStore == "other" \in {docRow.content, docRow.tree, docRow.heavy}

\* The sections of a decoded document: their ids and locations, from the row or the section rows.
DecodedSections == IF docRow.tree = "inline" THEN DocumentRows(docRow.of) ELSE SectionRows

\* StoredDocument::into_document.
IntoDocument ==
  IF \/ docRow.normalization # "current" \/ UnknownStore
     \/ docRow.tree = "section_rows" /\ TreeIsStale
     \/ docRow.content = "section_text" /\ TextIsStale(DecodedSections)
  THEN Stale
  ELSE Is("document", [sections |-> DecodedSections,
           nested   |-> IF docRow.tree = "inline" THEN docRow.of.tree ELSE SectionTreeOf(SectionRows),
           meta     |-> docRow.inline \cup HeavyEntries,
           text     |-> IF docRow.content = "inline" THEN docRow.of.id ELSE textUnits.of.id])

\* load_document_row.
WholeDocument == IF docRow = NoRow THEN Unknown ELSE IntoDocument

\* StoredDocument::into_document_light: no text, and the light entries alone.
IntoDocumentLight ==
  IF \/ docRow.normalization # "current" \/ UnknownStore
     \/ docRow.tree = "section_rows" /\ TreeIsStale
  THEN Stale
  ELSE Is("document", [sections |-> DecodedSections,
           nested   |-> IF docRow.tree = "inline" THEN docRow.of.tree ELSE SectionTreeOf(SectionRows),
           meta     |-> docRow.inline \cap Entries(docRow.of, "light"),
           text     |-> "none"])

HasOcrMetadata ==
  \E entry \in docRow.inline \cup metaRows.v1 \cup metaRows.v2 : entry.key = "ocr"

LightTakesFullPath == docRow # NoRow /\ (docRow.hash = "none" \/ HasOcrMetadata)

\* get_light_with_hash.
LightDocument ==
  IF docRow = NoRow THEN Unknown
  ELSE IF LightTakesFullPath THEN WholeDocument ELSE IntoDocumentLight

\* load_stored_metadata: the light map first, then the store the row names.
MetadataEntry(key) ==
  IF docRow = NoRow THEN Unknown
  ELSE IF docRow.heavy = "other" THEN Stale
  ELSE LET inline == {entry \in docRow.inline : entry.key = key}
           heavy  == {entry \in HeavyEntries : entry.key = key}
       IN  Optional("entry", IF inline # {} THEN inline ELSE heavy)

-----------------------------------------------------------------------------
(* The header, the section rows and the body-order rows. A document saved  *)
(* before there was a header is answered from the whole document.          *)

HasSectionRows == headerRow # NoRow

DocumentSections == WholeDocument.document.sections

\* What a reader computes from the decoded document, none when there is no document.
FromDocument(computed, none) ==
  IF WholeDocument \notin Refusals THEN computed
  ELSE IF WholeDocument = Unknown THEN none ELSE WholeDocument

DocumentHeader ==
  IF headerRow # NoRow
  THEN Is("header", [of |-> headerRow.of.id, count |-> headerRow.count, roots |-> headerRow.roots])
  ELSE FromDocument(Is("header", [of |-> docRow.of.id, count |-> Len(DocumentSections),
                       roots |-> Len(WholeDocument.document.nested)]), Unknown)

RowWithId(rows, id) == Optional("row", SectionById(rows, id))
RowWithKey(rows, key) == Optional("row", {row \in ToSet(rows) : row.key = key})
RowsBetween(rows, first, last, limit) ==
  LET found == SectionsInKeyRange(rows, first, last)
  IN  Is("rows", SubSeq(found, 1, Min({limit, Len(found)})))
ChildRows(rows, parent, limit) ==
  LET found == SectionChildren(rows, parent)
  IN  Is("rows", SubSeq(found, 1, Min({limit, Len(found)})))
AncestorRows(rows, key) ==
  IF RowWithKey(rows, key) = Unknown THEN Is("rows", <<>>)
  ELSE LET keys == SectionAncestors(rows, key)
       IN  Is("rows", [i \in 1..Len(keys) |-> RowAt(rows, keys[i])])

\* What the rows answer, when they find anything or the document has rows; else what it answers.
RowOrDocument(ofRows, ofDocument, none) ==
  IF ofRows # none \/ HasSectionRows THEN ofRows ELSE FromDocument(ofDocument, none)

NoneFound == Is("rows", <<>>)

SectionWithId(id) ==
  RowOrDocument(RowWithId(SectionRows, id), RowWithId(DocumentSections, id), Unknown)
SectionWithKey(key) ==
  RowOrDocument(RowWithKey(SectionRows, key), RowWithKey(DocumentSections, key), Unknown)
SectionsInRange(first, last, limit) ==
  RowOrDocument(RowsBetween(SectionRows, first, last, limit),
                RowsBetween(DocumentSections, first, last, limit), NoneFound)
ChildrenOf(parent, limit) ==
  RowOrDocument(ChildRows(SectionRows, parent, limit), ChildRows(DocumentSections, parent, limit), NoneFound)
AncestorsOf(key) ==
  RowOrDocument(AncestorRows(SectionRows, key), AncestorRows(DocumentSections, key), NoneFound)

\* stored_or_computed_body_order_keys: a failed order keeps its error in the header.
BodyOrder ==
  IF HasSectionRows THEN IF headerRow.failed THEN Failed ELSE Is("keys", orderTable.rows)
  ELSE FromDocument(IF OrderFails(docRow.of) THEN Failed ELSE Is("keys", OrderKeys(docRow.of)), Unknown)

\* load_body_order_len: the header's count where the order is readable, else the rows.
StoredOrderLength ==
  IF HasSectionRows /\ ~headerRow.failed /\ orderTable.rows # <<>> THEN headerRow.count
  ELSE Len(orderTable.rows)

WindowIn(keys, len, key, before, after) ==
  LET ord   == BodyOrderPosition(keys, key)
      start == Max({0, ord - before})
      end   == Min({ord + after, len - 1})
  IN  Is("window", [ord |-> ord, len |-> len, window |-> [i \in 1..end + 1 - start |-> <<start + i - 1, keys[start + i]>>]])

\* An order without the answer: its error, or none; without rows, what is computed of the order.
OrderOr(computed, none) ==
  IF HasSectionRows THEN IF BodyOrder = Failed THEN Failed ELSE none
  ELSE IF BodyOrder \in Refusals THEN BodyOrder ELSE computed

BodyOrderWindow(key, before, after) ==
  LET keys == BodyOrder.keys
  IN  IF key \in ToSet(orderTable.rows)
      THEN WindowIn(orderTable.rows, StoredOrderLength, key, before, after)
      ELSE OrderOr(IF key \in ToSet(keys) THEN WindowIn(keys, Len(keys), key, before, after) ELSE Unknown,
                   Unknown)

OrderPosition(key) ==
  LET keys == BodyOrder.keys
  IN  IF key \in ToSet(orderTable.rows) THEN Is("number", BodyOrderPosition(orderTable.rows, key))
      ELSE OrderOr(IF key \in ToSet(keys) THEN Is("number", BodyOrderPosition(keys, key)) ELSE Unknown,
                   Unknown)

BodyOrderAt(ord) ==
  LET keys == BodyOrder.keys
  IN  IF ord < Len(orderTable.rows) THEN Is("number", orderTable.rows[ord + 1])
      ELSE OrderOr(IF ord < Len(keys) THEN Is("number", keys[ord + 1]) ELSE Unknown, Unknown)

BodyOrderLen ==
  IF StoredOrderLength > 0 THEN Is("number", StoredOrderLength)
  ELSE OrderOr(Is("number", Len(BodyOrder.keys)), Is("number", StoredOrderLength))

-----------------------------------------------------------------------------
(* The text of one section                                                 *)

HasSection(rows, key) == key \in {rows[i].key : i \in 1..Len(rows)}

\* section_text_place.
TextPlace(key) ==
  IF docRow = NoRow THEN "missing"
  ELSE IF textUnits = NoUnitRows THEN "inline"
  ELSE IF docRow.hash = "stored" /\ textUnits.of # docRow.of THEN "stale"
  ELSE IF textUnits.segmentation # "current" THEN "stale"
  ELSE IF HasSection(DocumentRows(textUnits.of), key) THEN "stored" ELSE "missing"

InlineText(key) ==
  IF WholeDocument \in Refusals THEN WholeDocument
  ELSE IF HasSection(WholeDocument.document.sections, key) THEN Is("text", <<WholeDocument.document.text, key>>)
  ELSE Unknown

\* load_one_section_text; its length is that of the same text.
SectionTextAt(key) ==
  CASE TextPlace(key) = "missing" -> Unknown
    [] TextPlace(key) = "inline"  -> InlineText(key)
    [] TextPlace(key) = "stored"  -> Is("text", <<textUnits.of.id, key>>)
    [] OTHER -> Stale

-----------------------------------------------------------------------------
(* Questions. A whole decode of a row without a hash stores it.            *)

AllKeys == 0..Max({Len(FlattenDocument(v.tree)) : v \in DocVersions})
AllIds == UNION {{row.id : row \in ToSet(FlattenDocument(v.tree))} : v \in DocVersions}

Decodes(asked) ==
  CASE asked = "whole" -> TRUE
    [] asked = "light" -> LightTakesFullPath
    [] asked = "text"  -> textUnits = NoUnitRows
    [] asked = "metadata" -> FALSE
    [] OTHER -> ~HasSectionRows

Reply(asked, of, answer) ==
  /\ reading = Nothing
  /\ reading' = [asked |-> asked, of |-> of, answer |-> answer]
  /\ docRow' = IF docRow # NoRow /\ docRow.hash = "none" /\ Decodes(asked) /\ WholeDocument \notin Refusals
               THEN [docRow EXCEPT !.hash = "stored"] ELSE docRow
  /\ UNCHANGED <<metaRows, headerRow, sectionTable, orderTable, textUnits, running>>

AskDocument ==
  \/ Reply("whole", [of |-> "all"], WholeDocument)
  \/ Reply("light", [of |-> "all"], LightDocument)
  \/ \E key \in MetaKeys : Reply("metadata", [entry |-> key], MetadataEntry(key))
  \/ \E key \in AllKeys : Reply("text", [key |-> key], SectionTextAt(key))

AskSections ==
  \/ Reply("header", [of |-> "all"], DocumentHeader)
  \/ \E id \in AllIds : Reply("by_id", [id |-> id], SectionWithId(id))
  \/ \E key \in AllKeys : Reply("by_key", [key |-> key], SectionWithKey(key))
  \/ \E key \in AllKeys : Reply("ancestors", [key |-> key], AncestorsOf(key))
  \/ \E first, last \in AllKeys, limit \in Widths :
       Reply("range", [first |-> first, last |-> last, limit |-> limit], SectionsInRange(first, last, limit))
  \/ \E parent \in AllKeys \cup {NoKey}, limit \in Widths :
       Reply("children", [parent |-> parent, limit |-> limit], ChildrenOf(parent, limit))

AskOrder ==
  \/ Reply("order", [of |-> "all"], BodyOrder)
  \/ Reply("order_len", [of |-> "all"], BodyOrderLen)
  \/ \E key \in AllKeys : Reply("position", [key |-> key], OrderPosition(key))
  \/ \E ord \in AllKeys : Reply("at", [ord |-> ord], BodyOrderAt(ord))
  \/ \E key \in AllKeys, before, after \in Widths :
       Reply("window", [key |-> key, before |-> before, after |-> after], BodyOrderWindow(key, before, after))

Ask == running /\ (AskDocument \/ AskSections \/ AskOrder)

\* The caller has its answer.
Return ==
  /\ reading # Nothing /\ reading' = Nothing
  /\ UNCHANGED <<docRow, metaRows, headerRow, sectionTable, orderTable, textUnits, running>>

-----------------------------------------------------------------------------
(* What an older build left, and steps                                     *)

\* A row of a build before the header: with the text inline or in the text-unit store, the
\* entries inline or in a table. The first of them had no hash, or no normalization version.
LegacyRows ==
  {row \in [is : {"row"}, of : DocVersions, hash : {"none", "stored"},
            normalization : {"none", "old", "current"}, content : {"inline", "section_text"},
            tree : {"inline"}, heavy : {"inline", "v1", "v2"}] :
     /\ "none" \in {row.hash, row.normalization} => row.content = "inline" /\ row.heavy = "inline"
     /\ row.heavy # "inline" => Entries(row.of, "heavy") # {}}

WithEntries(row) ==
  [row EXCEPT !.inline = IF row.heavy = "inline" THEN Entries(row.of, "light") \cup Entries(row.of, "heavy")
                         ELSE Entries(row.of, "light")]

LegacyInit ==
  \E row \in LegacyRows :
    /\ docRow = WithEntries([f \in DOMAIN row \cup {"inline"} |-> IF f = "inline" THEN {} ELSE row[f]])
    /\ metaRows = [v1 |-> IF row.heavy = "v1" THEN Entries(row.of, "heavy") ELSE {},
                   v2 |-> IF row.heavy = "v2" THEN Entries(row.of, "heavy") ELSE {}]
    /\ headerRow = NoRow
    /\ sectionTable = [shape |-> "current", rows |-> <<>>]
    /\ orderTable = [shape |-> "current", rows |-> <<>>]

\* A document with a header. Before the header had a column for it, a failed order was elsewhere,
\* and the order rows had the older shape; a later build may name a store this one does not know.
HeadedInit ==
  \E v \in DocVersions, textStored \in BOOLEAN, sections, orders \in {"old", "current"},
     unknown \in {"none", "content", "tree", "heavy"} :
    /\ docRow = [f \in DOMAIN RowOf(v, textStored) |->
                   IF f = unknown THEN "other" ELSE RowOf(v, textStored)[f]]
    /\ metaRows = [v1 |-> {}, v2 |-> Entries(v, "heavy")]
    /\ headerRow = [HeaderOf(v) EXCEPT !.failed = @ /\ orders = "current"]
    /\ sectionTable = [shape |-> sections, rows |-> StoredSections(v)]
    /\ orderTable = [shape |-> orders, rows |-> IF OrderFails(v) THEN <<>> ELSE OrderKeys(v)]

FreshInit ==
  /\ docRow = NoRow /\ metaRows = [v1 |-> {}, v2 |-> {}] /\ headerRow = NoRow
  /\ sectionTable = [shape |-> "current", rows |-> <<>>]
  /\ orderTable = [shape |-> "current", rows |-> <<>>]

StoreInit ==
  /\ LegacyInit \/ HeadedInit \/ FreshInit
  /\ textUnits \in {NoUnitRows} \cup
                   [is : {"stored"}, of : DocVersions, segmentation : {"old", "current"}]
  /\ running = FALSE /\ reading = Nothing

StoreNext == OpenRepository \/ Ask \/ Return \/ \E v \in DocVersions : Save(v) \/ StoreText(v)

-----------------------------------------------------------------------------
(* Properties *)

\* What a document answers by its tree alone: a section is found by its path.
IsChild(row, rows, parent) ==
  IF parent = NoKey THEN Len(row.id) = 1
  ELSE parent < Len(rows) /\ Len(row.id) > 1 /\ Front(row.id) = rows[parent + 1].id

Above(rows, key) ==
  IF key >= Len(rows) THEN <<>>
  ELSE [n \in 1..Len(rows[key + 1].id) - 1 |->
          CHOOSE row \in ToSet(rows) : row.id = SubSeq(rows[key + 1].id, 1, n)]

Few(rows, limit) == SubSeq(rows, 1, Min({limit, Len(rows)}))

Around(keys, key, before, after) ==
  LET at == CHOOSE i \in 1..Len(keys) : keys[i] = key
  IN  [ord |-> at - 1, len |-> Len(keys),
       window |-> SelectSeq([i \in 1..Len(keys) |-> <<i - 1, keys[i]>>],
                    LAMBDA entry : entry[1] + 1 \in at - before..at + after)]

WholeOf(v) ==
  [sections |-> DocumentRows(v), nested |-> v.tree,
   meta |-> Entries(v, "light") \cup Entries(v, "heavy"), text |-> v.id]

LightOf(v) == [WholeOf(v) EXCEPT !.meta = Entries(v, "light"), !.text = "none"]

SectionAnswers(v, asked, of) ==
  LET rows == DocumentRows(v) IN
  CASE asked = "header"    -> {Is("header", [of |-> v.id, count |-> Len(rows), roots |-> Len(v.tree)])}
    [] asked = "by_id"     -> {Optional("row", {row \in ToSet(rows) : row.id = of.id})}
    [] asked = "by_key"    -> {IF of.key < Len(rows) THEN Is("row", rows[of.key + 1]) ELSE Unknown}
    [] asked = "ancestors" -> {Is("rows", Above(rows, of.key))}
    [] asked = "range"     -> {Is("rows", Few(SubSeq(rows, of.first + 1, Min({of.last + 1, Len(rows)})), of.limit))}
    [] asked = "children"  ->
         {Is("rows", Few(SelectSeq(rows, LAMBDA row : IsChild(row, rows, of.parent)), of.limit))}

OrderAnswers(v, asked, of) ==
  LET keys == OrderKeys(v) IN
  IF OrderFails(v) THEN {Failed}
  ELSE CASE asked = "order"     -> {Is("keys", keys)}
         [] asked = "order_len" -> {Is("number", Len(keys))}
         [] asked = "at"        -> {IF of.ord < Len(keys) THEN Is("number", keys[of.ord + 1]) ELSE Unknown}
         [] asked = "position"  -> {IF of.key \in ToSet(keys) THEN Is("number", BodyOrderPosition(keys, of.key)) ELSE Unknown}
         [] asked = "window"    ->
              {IF of.key \in ToSet(keys) THEN Is("window", Around(keys, of.key, of.before, of.after)) ELSE Unknown}

DocumentAnswers(v, asked, of) ==
  CASE asked = "whole"    -> {Is("document", WholeOf(v))}
    [] asked = "light"    -> IF v.meta["ocr"] # "absent" THEN {Is("document", WholeOf(v))}
                             ELSE {Is("document", WholeOf(v)), Is("document", LightOf(v))}
    [] asked = "metadata" -> {IF v.meta[of.entry] = "absent" THEN Unknown ELSE Is("entry", Entry(v, of.entry))}
    [] asked = "text"     -> {IF of.key < Len(DocumentRows(v)) THEN Is("text", <<v.id, of.key>>) ELSE Unknown}

AnswersOf(v, asked, of) ==
  IF asked \in {"whole", "light", "metadata", "text"} THEN DocumentAnswers(v, asked, of)
  ELSE IF asked \in {"order", "order_len", "at", "position", "window"} THEN OrderAnswers(v, asked, of)
  ELSE SectionAnswers(v, asked, of)

\* Opening dropped rows of an older shape, and the document was not saved since.
RowsWereDropped ==
  headerRow # NoRow /\ (\/ Len(sectionTable.rows) # headerRow.count
                        \/ ~headerRow.failed /\ Len(orderTable.rows) # headerRow.count)

TextIsOfAnother ==
  \/ docRow.content = "section_text" /\ textUnits = NoUnitRows
  \/ textUnits # NoUnitRows /\ (textUnits.of # docRow.of \/ textUnits.segmentation # "current")

\* Every reader answers what the saved version says, in whatever tables an older build or this one
\* left it, and refuses a document as stale only when its row is of another normalization or an
\* unknown store, or its text is not there. Where opening the file dropped rows, this is claimed of
\* the readers that decode the row: the others find a document without sections. A row without a
\* hash is not compared with the text store, so its section texts are left out.
ReadersAgree ==
  reading # Nothing /\ docRow # NoRow =>
    \/ reading.answer \in AnswersOf(docRow.of, reading.asked, reading.of)
    \/ reading.answer = Stale /\ (\/ docRow.normalization # "current" \/ UnknownStore
                                  \/ TextIsOfAnother \/ RowsWereDropped)
    \/ RowsWereDropped /\ reading.asked \notin {"whole", "light", "metadata", "header", "text"}
    \/ reading.asked = "text" /\ docRow.hash = "none" /\ TextIsOfAnother
=============================================================================
