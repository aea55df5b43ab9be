------------------------------ MODULE TreeWalks ------------------------------
(***************************************************************************)
(* The two tools that list the section tree page by page, each with a      *)
(* client that follows its cursor: `outline` (v2), which pops a row at a   *)
(* time off a stack of siblings and skips to its cursor's position, and    *)
(* get_document_structure (v1), which lays a slice of the flattened scope  *)
(* out as a forest. The document stays the same during a walk; what a      *)
(* re-ingest does between two store calls is HandleReads' concern. The v1  *)
(* tool also resolves one named section to its boundary in the body order. *)
(***************************************************************************)
EXTENDS SectionTree

CONSTANTS
  Documents,   \* the documents a walk may be over
  BodyOrders(_), \* for the ids of a document: its kind and its structure map
  Depths,      \* the depths a client asks for
  PageSizes    \* the limits a client asks for

ASSUME TreeAssumption ==
  /\ Depths \subseteq Nat \ {0}
  /\ PageSizes \subseteq Nat \ {0}

VARIABLES
  tree,      \* the document
  scope,     \* the key of the section the walk is below or at, NoKey for all
  depth,     \* the depth of the call in hand
  tool,      \* the tool that lists it, or "boundary"
  body,      \* whether the document is an EPUB, and the facts of its structure map
  tpc,       \* where the call is: start, skip, list, answered or refused
  limit,     \* how many rows the page may hold
  skip,      \* how many rows are left to skip
  stack,     \* the rows outline has still to pop, each with its level
  listed,    \* the keys of the page
  pages,     \* the forest of the page, as structure lays it out
  resume,    \* the cursor of the answer, or NoCursor
  boundary,  \* the boundary of the named section
  visited    \* auxiliary: every key the walk has returned

request == <<tree, scope, tool, body>>
shownPage == <<listed, pages, resume>>
treeVars == <<request, depth, tpc, limit, skip, stack, shownPage, boundary, visited>>

treeRows == FlattenDocument(tree)

treeIds == [i \in 1..Len(treeRows) |-> treeRows[i].id]

NoCursor == [at |-> 0]
NoBoundary == [intervals |-> <<>>, endExclusive |-> {}]

\* Both cursors carry the scope, the depth and the position; structure's also
\* the number of entries.
CursorAt(position, total) == [scope |-> scope, depth |-> depth, at |-> position, total |-> total]

TreeInit ==
  /\ tree \in Documents
  /\ scope \in {NoKey} \cup {treeRows[i].key : i \in 1..Len(treeRows)}
  /\ depth \in Depths
  /\ \/ tool \in {"outline", "structure"} /\ body = [epub |-> FALSE, facts |-> <<>>]
     \/ tool = "boundary" /\ scope # NoKey /\ depth = Min(Depths) /\ body \in BodyOrders(ToSet(treeIds))
  /\ tpc = "start"
  /\ limit = 0 /\ skip = 0
  /\ stack = <<>> /\ listed = <<>> /\ pages = <<>>
  /\ resume = NoCursor
  /\ boundary = NoBoundary
  /\ visited = <<>>

-----------------------------------------------------------------------------
(* outline                                                                 *)

\* Preorder::push_children: reversed, so that the first child is popped first.
PushChildren(rest, parent, level) ==
  rest \o Reverse([i \in 1..Len(SectionChildren(treeRows, parent)) |->
                     [key |-> SectionChildren(treeRows, parent)[i].key, level |-> level]])

\* Mutant: a cursor is good for any depth.
OutlineCallUnchecked(cursor, d, size) ==
  /\ tool = "outline"
  /\ depth' = d
  /\ listed' = <<>>
  /\ limit' = size
  /\ tpc' = "skip"
  /\ skip' = cursor.at
  /\ stack' = PushChildren(<<>>, scope, 1)
  /\ UNCHANGED <<request, pages, resume, boundary, visited>>

\* OutlineReadingUseCase::execute: the check binds a cursor to scope and depth.
OutlineCall(cursor, d, size) ==
  /\ tool = "outline"
  /\ depth' = d
  /\ listed' = <<>>
  /\ limit' = size
  /\ IF cursor # NoCursor /\ cursor.depth # d
       THEN tpc' = "refused" /\ UNCHANGED <<skip, stack>>
       ELSE /\ tpc' = "skip"
            /\ skip' = cursor.at
            /\ stack' = PushChildren(<<>>, scope, 1)
  /\ UNCHANGED <<request, pages, resume, boundary, visited>>

\* Preorder::next: pops a row and pushes its children, down to the depth.
Pop ==
  LET top == Last(stack)
  IN  stack' = IF top.level < depth THEN PushChildren(Front(stack), top.key, top.level + 1)
               ELSE Front(stack)

SkipRow ==
  /\ tpc = "skip" /\ skip > 0
  /\ IF stack = <<>> THEN tpc' = "refused" /\ UNCHANGED <<skip, stack>>
     ELSE /\ Pop
          /\ skip' = skip - 1
          /\ UNCHANGED tpc
  /\ UNCHANGED <<request, depth, limit, shownPage, boundary, visited>>

ListRow ==
  /\ tpc = "list" \/ (tpc = "skip" /\ skip = 0)
  /\ Len(listed) < limit /\ stack # <<>>
  /\ Pop
  /\ listed' = Append(listed, Last(stack).key)
  /\ tpc' = "list"
  /\ UNCHANGED <<request, depth, limit, skip, pages, resume, boundary, visited>>

\* One row past the page decides whether there is a cursor.
OutlineAnswer ==
  /\ tpc = "list" \/ (tpc = "skip" /\ skip = 0)
  /\ Len(listed) = limit \/ stack = <<>>
  /\ tpc' = "answered"
  /\ visited' = visited \o listed
  /\ resume' = IF stack = <<>> THEN NoCursor
               ELSE CursorAt((IF resume = NoCursor THEN 0 ELSE resume.at) + Len(listed), 0)
  /\ UNCHANGED <<request, depth, limit, skip, stack, listed, pages, boundary>>

-----------------------------------------------------------------------------
(* get_document_structure                                                  *)

\* flatten_requested_scope: the section itself, or every root, and what is
\* below it within the depth.
RECURSIVE FlattenScope(_, _, _)
FlattenScope(siblings, level, d) ==
  IF siblings = <<>> THEN <<>>
  ELSE LET row   == Head(siblings)
           below == SectionChildren(treeRows, row.key)
           entry == [key |-> row.key, parent |-> row.parent,
                     children |-> IF level < d THEN {below[i].key : i \in 1..Len(below)} ELSE {}]
       IN  <<entry>> \o (IF level < d THEN FlattenScope(below, level + 1, d) ELSE <<>>) \o
           FlattenScope(Tail(siblings), level, d)

ScopeEntries(d) ==
  FlattenScope(IF scope = NoKey THEN SectionChildren(treeRows, NoKey)
               ELSE <<RowAt(treeRows, scope)>>, 1, d)

\* Mutant: only the siblings of the first entry of a page are roots.
SiblingRoots(page, parents) ==
  {e \in ToSet(page) : e.parent \notin parents /\ e.parent = Head(page).parent}

\* project_page_forest: an entry is a root when its parent is not on the page.
PageRoots(page, parents) == {e \in ToSet(page) : e.parent \notin parents}

\* build_page_outline, for the entries of the page with one parent in order.
RECURSIVE PageOutline(_, _)
PageOutline(page, entries) ==
  [i \in 1..Len(entries) |->
    [key |-> entries[i].key,
     complete |-> entries[i].children \subseteq {e.key : e \in ToSet(page)},
     children |-> PageOutline(page, SelectSeq(page, LAMBDA e : e.parent = entries[i].key))]]

PageForest(page) ==
  LET roots == PageRoots(page, {e.key : e \in ToSet(page)})
  IN  PageOutline(page, SelectSeq(page, LAMBDA e : e \in roots))

\* The call takes its scope from the cursor; a depth that differs is refused.
StructureCall(cursor, d, size) ==
  LET entries == ScopeEntries(d)
      end     == Min({cursor.at + size, Len(entries)})
      page    == SubSeq(entries, cursor.at + 1, end)
  IN  /\ tool = "structure"
      /\ depth' = d
      /\ limit' = size
      /\ IF cursor # NoCursor /\ (cursor.depth # d \/ cursor.total # Len(entries))
           THEN /\ tpc' = "refused"
                /\ listed' = <<>>
                /\ UNCHANGED <<pages, resume, boundary, visited>>
           ELSE /\ tpc' = "answered"
                /\ listed' = [i \in 1..Len(page) |-> page[i].key]
                /\ pages' = PageForest(page)
                /\ visited' = visited \o listed'
                /\ resume' = IF end = Len(entries) THEN NoCursor
                             ELSE [scope |-> scope, depth |-> d, at |-> end,
                                   total |-> Len(entries)]
      /\ UNCHANGED <<request, skip, stack, boundary>>

\* resolve_named_section, of a heading that names one section.
ResolveBoundary ==
  /\ tool = "boundary" /\ tpc = "start"
  /\ IF BodyOrderFails(treeRows, body.epub, body.facts)
       THEN tpc' = "refused" /\ UNCHANGED boundary
       ELSE LET ids == BodyOrderIds(treeRows, body.epub, body.facts)
            IN  /\ tpc' = "answered"
                /\ boundary' = NamedBoundary(treeRows, BodyOrderKeys(treeRows, ids), scope)
  /\ UNCHANGED <<request, depth, limit, skip, stack, shownPage, visited>>

-----------------------------------------------------------------------------

TreeCall(cursor, d, size) == OutlineCall(cursor, d, size) \/ StructureCall(cursor, d, size)

FirstPage == tpc = "start" /\ \E size \in PageSizes : TreeCall(NoCursor, depth, size)

\* The client follows the cursor, with the depth it began with or another one.
NextPage ==
  /\ tpc = "answered" /\ resume # NoCursor
  /\ \E d \in Depths, size \in PageSizes : TreeCall(resume, d, size)

TreeNext == FirstPage \/ NextPage \/ SkipRow \/ ListRow \/ OutlineAnswer \/ ResolveBoundary

TreeSpec == TreeInit /\ [][TreeNext]_treeVars

-----------------------------------------------------------------------------
(* Properties *)

\* The keys below the scope, or at it for structure, down to the depth.
InScope(row) ==
  LET base  == IF scope = NoKey THEN <<>> ELSE RowAt(treeRows, scope).id
      level == Len(row.id) - Len(base) + (IF tool = "structure" /\ scope # NoKey THEN 1 ELSE 0)
  IN  IsPrefix(base, row.id) /\ level \in 1..depth

KeysOf(rows) == [i \in 1..Len(rows) |-> rows[i].key]

ScopeKeys == KeysOf(SelectSeq(treeRows, InScope))

\* Whatever page sizes a client asks for, following the cursor lists every section of the scope
\* once, in document order, and the cursor is absent exactly when the last one has been listed; a
\* cursor never continues a listing of another depth.
ScopeListedOnce ==
  (tpc = "answered" /\ tool # "boundary") =>
    /\ IsPrefix(visited, ScopeKeys) /\ IsSuffix(listed, visited)
    /\ Len(listed) <= limit
    /\ (resume = NoCursor) <=> (visited = ScopeKeys)

\* The sections of a structure page, as the client reads the forest.
RECURSIVE ForestKeys(_)
ForestKeys(forest) ==
  IF forest = <<>> THEN <<>>
  ELSE <<Head(forest).key>> \o ForestKeys(Head(forest).children) \o ForestKeys(Tail(forest))

RECURSIVE ForestNodes(_)
ForestNodes(forest) ==
  ToSet(forest) \cup UNION {ForestNodes(forest[i].children) : i \in 1..Len(forest)}

\* A structure page laid out as a forest holds each entry of the page once, in document order,
\* under its parent when that is on the page too; a node says that its children are complete
\* exactly when the answer shows all of them that the depth allows.
PageForestExact ==
  (tpc = "answered" /\ tool = "structure") =>
    /\ ForestKeys(pages) = listed
    /\ \A node \in ForestNodes(pages) :
         LET shown == {node.children[i].key : i \in 1..Len(node.children)}
             all   == {treeRows[i].key : i \in {j \in 1..Len(treeRows) :
                        treeRows[j].parent = node.key /\ treeRows[j].key \in ToSet(ScopeKeys)}}
         IN  /\ shown = all \cap ToSet(listed)
             /\ node.complete <=> (shown = all)

RECURSIVE NodeAt(_, _)
NodeAt(siblings, id) == IF Len(id) = 1 THEN siblings[id[1]] ELSE NodeAt(siblings[id[1]], Tail(id))

\* The rows hold the tree: the document read back nests as it was stored, by the end keys and by
\* the parent keys, and the ancestors of a section are the sections its id passes through.
RowsNestBack ==
  /\ SectionTreeOf(treeRows) = tree
  /\ \A row \in ToSet(treeRows) :
       /\ NestByParents(Subtree(treeRows, row), 1)[1] = NodeAt(tree, row.id)
       /\ [i \in 1..Len(row.id) - 1 |->
             RowAt(treeRows, SectionAncestors(treeRows, row.key)[i]).id] =
            [i \in 1..Len(row.id) - 1 |-> SubSeq(row.id, 1, i)]

\* A structure map is taken exactly when it gives every section one place of its own. The boundary
\* of a named section then covers the places of its subtree and no other, in as few intervals as
\* there are, and ends at the section that is read next, which is outside of the subtree.
BoundaryExact ==
  (tool = "boundary" /\ tpc # "start") =>
    LET facts  == ToSet(body.facts)
        total  == Len(treeRows)
        placed == /\ Len(body.facts) = total
                  /\ {f.id : f \in facts} = ToSet(treeIds)
                  /\ {f.order : f \in facts} = 0..total - 1
        place(row) == IF body.epub THEN (CHOOSE f \in facts : f.id = row.id).order ELSE row.key
        within == {place(row) : row \in {r \in ToSet(treeRows) :
                                         IsPrefix(RowAt(treeRows, scope).id, r.id)}}
        covered == UNION {interval.start..interval.end - 1 : interval \in ToSet(boundary.intervals)}
    IN  /\ (tpc = "refused") <=> (body.epub /\ ~placed)
        /\ tpc = "answered" =>
             /\ covered = within
             /\ \A i \in 1..Len(boundary.intervals) - 1 :
                  boundary.intervals[i].end < boundary.intervals[i + 1].start
             /\ boundary.endExclusive =
                  {row.key : row \in {r \in ToSet(treeRows) :
                     /\ Len(boundary.intervals) = 1
                     /\ place(r) = boundary.intervals[1].end}}

==============================================================================
