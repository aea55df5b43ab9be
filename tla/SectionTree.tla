----------------------------- MODULE SectionTree -----------------------------
(***************************************************************************)
(* The section tree of a document and its body order, as the store keeps   *)
(* them: one row a section in depth-first order, one row a section in      *)
(* reading order. Every reader of the tree answers from these rows.        *)
(*                                                                         *)
(* A section is the sequence of its children and a document the sequence   *)
(* of its roots; a section's id is its path, its index at each level. The  *)
(* title, the level and the location are left out: nothing here depends on *)
(* them. A section that has no parent has the parent key NoKey.            *)
(***************************************************************************)
EXTENDS Integers, Sequences, FiniteSets, FiniteSetsExt, SequencesExt

NoKey == -1

RECURSIVE FlattenSiblings(_, _, _, _, _)
\* Mutant: a subtree ends after the children of its section.
FlattenToChildren(siblings, index, parentId, parent, key) ==
  IF index > Len(siblings) THEN <<>>
  ELSE LET id    == Append(parentId, index)
           below == FlattenSiblings(siblings[index], 1, id, key, key + 1)
           row   == [key |-> key, id |-> id, parent |-> parent,
                     end |-> key + Len(siblings[index])]
       IN  <<row>> \o below \o
           FlattenSiblings(siblings, index + 1, parentId, parent, key + 1 + Len(below))

\* section_rows::flatten_document: the siblings from the index on, the first
\* of them at the key.
FlattenSiblings(siblings, index, parentId, parent, key) ==
  IF index > Len(siblings) THEN <<>>
  ELSE LET id    == Append(parentId, index)
           below == FlattenSiblings(siblings[index], 1, id, key, key + 1)
           row   == [key |-> key, id |-> id, parent |-> parent, end |-> key + Len(below)]
       IN  <<row>> \o below \o
           FlattenSiblings(siblings, index + 1, parentId, parent, key + 1 + Len(below))

FlattenDocument(document) == FlattenSiblings(document, 1, <<>>, NoKey, 0)

-----------------------------------------------------------------------------
(* What the repository answers from the rows                               *)

SectionById(rows, id) == {rows[i] : i \in {j \in 1..Len(rows) : rows[j].id = id}}

\* section_by_key; the keys count the rows from 0.
RowAt(rows, key) == rows[key + 1]

SectionsInKeyRange(rows, first, last) ==
  SelectSeq(rows, LAMBDA row : row.key >= first /\ row.key <= last)

SectionChildren(rows, parent) == SelectSeq(rows, LAMBDA row : row.parent = parent)

\* Root first, without the section itself.
RECURSIVE SectionAncestors(_, _)
SectionAncestors(rows, key) ==
  LET parent == RowAt(rows, key).parent
  IN  IF parent = NoKey THEN <<>> ELSE SectionAncestors(rows, parent) \o <<parent>>

\* DocumentView::subtree: one key range.
Subtree(rows, row) == SectionsInKeyRange(rows, row.key, row.end)

\* build_section_children: nests the rows from the index up to the end key;
\* the next sibling follows the subtree of the one before it.
RECURSIVE NestByEndKeys(_, _, _)
NestByEndKeys(rows, index, end) ==
  IF index > Len(rows) \/ rows[index].key > end THEN <<>>
  ELSE <<NestByEndKeys(rows, index + 1, rows[index].end)>> \o
       NestByEndKeys(rows, rows[index].end + 2, end)

\* load_section_tree.
SectionTreeOf(rows) ==
  IF rows = <<>> THEN <<>> ELSE NestByEndKeys(rows, 1, Last(rows).key)

\* subtree_from_rows: a section and the index after its subtree, nested by the
\* parent keys of the rows that follow.
RECURSIVE NestChildren(_, _, _), NestByParents(_, _)
NestByParents(rows, index) == NestChildren(rows, rows[index].key, <<<<>>, index + 1>>)
NestChildren(rows, parent, built) ==
  IF built[2] > Len(rows) \/ rows[built[2]].parent # parent THEN built
  ELSE LET child == NestByParents(rows, built[2])
       IN  NestChildren(rows, parent, <<Append(built[1], child[1]), child[2]>>)

-----------------------------------------------------------------------------
(* The body order                                                          *)

\* epub_body_order takes the facts of the structure map, other documents have
\* the order of the tree. A fact is the id of a section and its place.
SortedFacts(facts) == SortSeq(facts, LAMBDA a, b : a.order < b.order)

BodyOrderIds(rows, epub, facts) ==
  IF epub THEN [i \in 1..Len(facts) |-> SortedFacts(facts)[i].id]
          ELSE [i \in 1..Len(rows) |-> rows[i].id]

\* The places must be contiguous, and every section named exactly once.
BodyOrderFails(rows, epub, facts) ==
  LET ids == BodyOrderIds(rows, epub, facts)
  IN  \/ epub /\ \E i \in 1..Len(facts) : SortedFacts(facts)[i].order # i - 1
      \/ Len(ids) # Len(rows)
      \/ ToSet(ids) # {rows[i].id : i \in 1..Len(rows)}

\* body_order_keys: position i of the order holds the i-th key.
BodyOrderKeys(rows, ids) ==
  [i \in 1..Len(ids) |-> (CHOOSE row \in SectionById(rows, ids[i]) : TRUE).key]

\* The position of a section in the body order, counted from 0.
BodyOrderPosition(keys, key) == (CHOOSE i \in 1..Len(keys) : keys[i] = key) - 1

-----------------------------------------------------------------------------
(* The boundary of a named section in the body order                       *)

\* collect_scope_body_orders, sorted: where the section and what is below it are.
ScopeOrders(rows, keys, key) ==
  LET below == Subtree(rows, RowAt(rows, key))
  IN  SetToSortSeq({BodyOrderPosition(keys, row.key) : row \in ToSet(below)}, LAMBDA a, b : a < b)

\* Mutant: an interval goes on over a gap of one.
IntervalsOverGap(orders) ==
  LET extend(intervals, order) ==
        IF intervals # <<>> /\ order <= Last(intervals).end + 1
          THEN Append(Front(intervals), [Last(intervals) EXCEPT !.end = order + 1])
          ELSE Append(intervals, [start |-> order, end |-> order + 1])
  IN  FoldLeft(extend, <<>>, orders)

\* compress_body_order_intervals.
BodyOrderIntervals(orders) ==
  LET extend(intervals, order) ==
        IF intervals # <<>> /\ order = Last(intervals).end
          THEN Append(Front(intervals), [Last(intervals) EXCEPT !.end = order + 1])
          ELSE Append(intervals, [start |-> order, end |-> order + 1])
  IN  FoldLeft(extend, <<>>, orders)

\* build_named_boundary: the section after a single interval, as a set of at
\* most one; several intervals have none.
NamedBoundary(rows, keys, key) ==
  LET intervals == BodyOrderIntervals(ScopeOrders(rows, keys, key))
      next      == intervals[1].end + 1
  IN  [intervals |-> intervals,
       endExclusive |-> IF Len(intervals) = 1 /\ next <= Len(keys) THEN {keys[next]} ELSE {}]

==============================================================================
