--------------------------- MODULE ReadWalkProofs ---------------------------
(***************************************************************************)
(* Proofs about the v2 `read` walk, for books of any size: every answer is *)
(* a run of the book, following `next` returns the rest of it exactly once *)
(* in order, a budget is kept and filled, and the marks are right.         *)
(***************************************************************************)
EXTENDS ReadWalk, StreamLemmas

-----------------------------------------------------------------------------
(* The book of a walk *)

\* What no step of a walk changes.
BookOK ==
  /\ book \in Books
  /\ kind \in Kinds
  /\ direction \in {"forward", "backward"}
  /\ streams = [sec \in 1..Len(book) |-> Stream(book[sec], kind, "preserve_source")]

ItemSet == [sec : Nat, unit : Units]

\* Sections and their streams have the types they should.
LEMMA BookTyped ==
  ASSUME BookOK
  PROVE  /\ book \in Seq(Seq(Nat)) /\ Len(book) \in Nat
         /\ \A sec \in 1..Len(book) :
              /\ IsStream(streams[sec], kind)
              /\ streams[sec] \in Seq(Entries)
              /\ Total(sec) \in Nat
              /\ \A i \in 1..Total(sec) :
                   /\ streams[sec][i] \in Entries
                   /\ Item(sec, streams[sec][i]) \in ItemSet
                   /\ Chars(Item(sec, streams[sec][i])) \in Nat
<1>1. book \in Seq(Seq(Nat)) /\ Len(book) \in Nat
  BY ReadAssumption DEF BookOK
<1>2. ASSUME NEW sec \in 1..Len(book)
      PROVE  /\ IsStream(streams[sec], kind)
             /\ streams[sec] \in Seq(Entries)
             /\ Total(sec) \in Nat
  <2>1. book[sec] \in Seq(Nat)
    BY <1>1
  <2>2. streams[sec] = Stream(book[sec], kind, "preserve_source")
    BY DEF BookOK
  <2>3. IsStream(streams[sec], kind)
    BY <2>1, <2>2, StreamDistinct DEF BookOK
  <2> QED
    BY <2>3 DEF IsStream, Total
<1>3. ASSUME NEW sec \in 1..Len(book), NEW i \in 1..Total(sec)
      PROVE  /\ streams[sec][i] \in Entries
             /\ Item(sec, streams[sec][i]) \in ItemSet
             /\ Chars(Item(sec, streams[sec][i])) \in Nat
  <2>1. streams[sec][i] \in Entries
    BY <1>2 DEF Total
  <2>2. Item(sec, streams[sec][i]) = [sec |-> sec, unit |-> streams[sec][i].unit]
    BY DEF Item, UnitItem
  <2>3. sec \in Nat /\ streams[sec][i].unit \in Units
    BY <1>1, <2>1 DEF Entries
  <2>4. CharCount(book[sec], streams[sec][i].unit) \in Nat
    <3>1. streams[sec] = Stream(book[sec], kind, "preserve_source")
      BY DEF BookOK
    <3> QED
      BY <3>1, ReadAssumption DEF BookOK, Total
  <2> QED
    BY <2>1, <2>2, <2>3, <2>4 DEF ItemSet, Chars
<1> QED
  BY <1>1, <1>2, <1>3

Totals == [sec \in 1..Len(book) |-> Total(sec)]

\* Before counts the items of the sections before one.
LEMMA BeforeIs ==
  ASSUME BookOK, NEW P, IsPartialSums(P, Totals, Len(book)), NEW sec \in 1..Len(book) + 1
  PROVE  Before(sec) = P[sec - 1]
<1> DEFINE n == sec - 1
           list == [s \in 1..sec - 1 |-> s]
           w == [s \in 1..n |-> Total(s)]
           IsFoldOfList(f) ==
             f = [s \in SUBSET DOMAIN list |->
                    IF s = {} THEN 0 ELSE f[s \ {Max(s)}] + Total(list[Max(s)])]
           c == CHOOSE f : IsFoldOfList(f)
<1>1. n \in Nat /\ n \in 0..Len(book) /\ Len(book) \in Nat
  BY BookTyped
<1>2. Before(sec) = c[DOMAIN list]
  BY DEF Before, FoldLeft, MapThenFoldSet
<1>3. DOMAIN list = 1..n
  OBVIOUS
<1>4. w \in [1..n -> Nat]
  <2>1. \A s \in 1..n : Total(s) \in Nat
    BY <1>1, BookTyped
  <2> QED
    BY <2>1
<1>5. ASSUME NEW s \in SUBSET (1..n), s # {}
      PROVE  Total(list[Max(s)]) = w[Max(s)]
  <2>1. Max(s) \in 1..n
    <3>1. s \subseteq 0..n
      OBVIOUS
    <3> QED
      BY <3>1, <1>1, <1>5, MaxOf
  <2>2. list[Max(s)] = Max(s) /\ w[Max(s)] = Total(Max(s))
    BY <2>1
  <2> QED
    BY <2>2
<1>6. \A f : IsFoldOfList(f) <=> FoldsWeights(f, w, n)
  <2> HIDE DEF list, w, n
  <2> QED BY <1>3, <1>5 DEF FoldsWeights
<1>7. FoldsWeights(c, w, n)
  <2>1. \E f : FoldsWeights(f, w, n)
    <3> HIDE DEF w, n
    <3> QED BY <1>1, <1>4, FoldsWeightsExists
  <2>2. \E f : IsFoldOfList(f)
    <3> HIDE DEF IsFoldOfList
    <3> QED BY <1>6, <2>1
  <2>3. IsFoldOfList(c)
    <3> HIDE DEF IsFoldOfList
    <3> QED BY <2>2
  <2> HIDE DEF IsFoldOfList, c
  <2> QED
    BY <1>6, <2>3
<1>8. IsPartialSums([k \in 0..n |-> P[k]], w, n)
  <2>1. \A k \in 1..n : P[k] = P[k - 1] + w[k]
    <3> TAKE k \in 1..n
    <3>1. k \in 1..Len(book) /\ Totals[k] = w[k]
      BY <1>1 DEF Totals
    <3> QED
      BY <3>1 DEF IsPartialSums
  <2>2. \A k \in 0..n : P[k] \in Nat
    BY <1>1 DEF IsPartialSums
  <2>3. P[0] = 0
    BY DEF IsPartialSums
  <2> HIDE DEF w, n
  <2> QED
    BY <1>1, <2>1, <2>2, <2>3 DEF IsPartialSums
<1>9. c[1..n] = [k \in 0..n |-> P[k]][n]
  <2> HIDE DEF w, n, c
  <2> QED BY <1>1, <1>4, <1>7, <1>8, FoldIsSum
<1> QED
  BY <1>1, <1>2, <1>3, <1>9

\* The book in reading order: a section's items are its stream's, after those of the sections
\* before it, and no item is there twice.
LEMMA FlatIs ==
  ASSUME BookOK
  PROVE  /\ Flat \in Seq(ItemSet) /\ Len(Flat) \in Nat
         /\ Before(1) = 0 /\ Before(Len(book) + 1) = Len(Flat)
         /\ \A sec \in 1..Len(book) + 1 : Before(sec) \in Nat
         /\ \A sec \in 1..Len(book) : Before(sec + 1) = Before(sec) + Total(sec)
         /\ \A a \in 1..Len(book) + 1, b \in 1..Len(book) + 1 : a <= b => Before(a) <= Before(b)
         /\ \A sec \in 1..Len(book) : \A i \in 1..Total(sec) :
              Flat[Before(sec) + i] = Item(sec, streams[sec][i])
         /\ \A a \in 1..Len(Flat) : Flat[a] \in ItemSet /\ Chars(Flat[a]) \in Nat
         /\ \A a, b \in 1..Len(Flat) : Flat[a] = Flat[b] => a = b
<1> DEFINE n == Len(book)
           seqs == [sec \in 1..Len(book) |-> [i \in 1..Total(sec) |-> Item(sec, streams[sec][i])]]
           K == [x \in ItemSet |-> x]
<1>1. n \in Nat /\ Totals \in [1..n -> Nat]
  BY BookTyped DEF Totals
<1>2. PICK P : IsPartialSums(P, Totals, n)
  BY <1>1, PartialSumsExist
<1>3. \A sec \in 1..n + 1 : Before(sec) = P[sec - 1] /\ sec - 1 \in 0..n
  BY <1>1, <1>2, BeforeIs
<1>4. \A sec \in 1..n :
        /\ Total(sec) \in Nat
        /\ seqs[sec] \in Seq(ItemSet) /\ Len(seqs[sec]) = Total(sec)
        /\ \A i \in 1..Total(sec) : seqs[sec][i] = Item(sec, streams[sec][i])
  <2> TAKE sec \in 1..n
  <2>1. Total(sec) \in Nat /\ \A i \in 1..Total(sec) : Item(sec, streams[sec][i]) \in ItemSet
    BY BookTyped
  <2> QED
    BY <2>1
<1>5. seqs \in Seq(Seq(ItemSet)) /\ Len(seqs) = n
  BY <1>1, <1>4
<1>6. LensOf(seqs) = Totals
  <2>1. \A sec \in 1..n : Len(seqs[sec]) = Total(sec)
    BY <1>4
  <2> HIDE DEF seqs
  <2> QED
    BY <1>5, <2>1 DEF LensOf, Totals
<1>7. Flat = FlattenSeq(seqs)
  BY DEF Flat
<1>8. IsJoin(Flat, seqs, n, P, ItemSet)
  <2> HIDE DEF seqs, n
  <2> QED BY <1>2, <1>5, <1>6, <1>7, Flattened
<1> HIDE DEF seqs
<1>9. DiffersInAll(K, seqs)
  <2> SUFFICES ASSUME NEW k \in 1..Len(seqs), NEW l \in 1..Len(seqs), NEW i \in 1..Len(seqs[k]),
                      NEW j \in 1..Len(seqs[l]), K[seqs[k][i]] = K[seqs[l][j]]
               PROVE  k = l /\ i = j
    BY DEF DiffersInAll
  <2>1. /\ k \in 1..n /\ i \in 1..Total(k) /\ seqs[k][i] = Item(k, streams[k][i])
        /\ l \in 1..n /\ j \in 1..Total(l) /\ seqs[l][j] = Item(l, streams[l][j])
    BY <1>4, <1>5
  <2>2. Item(k, streams[k][i]) \in ItemSet /\ Item(l, streams[l][j]) \in ItemSet
    BY <2>1, BookTyped
  <2>3. Item(k, streams[k][i]) = Item(l, streams[l][j])
    BY <2>1, <2>2
  <2>4. Item(k, streams[k][i]).sec = k /\ Item(k, streams[k][i]).unit = streams[k][i].unit
    BY DEF Item, UnitItem
  <2>5. Item(l, streams[l][j]).sec = l /\ Item(l, streams[l][j]).unit = streams[l][j].unit
    BY DEF Item, UnitItem
  <2>6. k = l /\ streams[k][i].unit = streams[k][j].unit
    BY <2>3, <2>4, <2>5
  <2>7. IsStream(streams[k], kind)
    BY <2>1, BookTyped
  <2> QED
    BY <2>1, <2>6, <2>7 DEF IsStream, Total
<1>10. /\ FlattenSeq(seqs) \in Seq(ItemSet)
       /\ Differs(K, FlattenSeq(seqs))
       /\ IsAmong(FlattenSeq(seqs), seqs)
  <2> HIDE DEF K
  <2> QED BY <1>5, <1>9, FlattenDistinct
<1>11. Flat \in Seq(ItemSet) /\ Len(Flat) = P[n]
  BY <1>8 DEF IsJoin
<1>12. Before(1) = 0 /\ Before(n + 1) = Len(Flat)
  BY <1>1, <1>2, <1>3, <1>11 DEF IsPartialSums
<1>13. \A sec \in 1..n + 1 : Before(sec) \in Nat
  BY <1>2, <1>3 DEF IsPartialSums
<1>14. \A sec \in 1..n : Before(sec + 1) = Before(sec) + Total(sec)
  <2> TAKE sec \in 1..n
  <2>1. Before(sec + 1) = P[sec] /\ Before(sec) = P[sec - 1]
    BY <1>1, <1>3
  <2>2. Totals[sec] = Total(sec)
    BY DEF Totals
  <2> QED
    BY <1>2, <2>1, <2>2 DEF IsPartialSums
<1>15. ASSUME NEW a \in 1..n + 1, NEW b \in 1..n + 1, a <= b
       PROVE  Before(a) <= Before(b)
  <2>1. a - 1 \in 0..n /\ b - 1 \in (a - 1)..n
    BY <1>1, <1>15
  <2>2. P[a - 1] <= P[b - 1]
    BY <1>1, <1>2, <2>1, PartialSumsGrow
  <2> QED
    BY <1>3, <2>2
<1>16. \A sec \in 1..n : \A i \in 1..Total(sec) : Flat[Before(sec) + i] = Item(sec, streams[sec][i])
  <2> TAKE sec \in 1..n
  <2> TAKE i \in 1..Total(sec)
  <2>1. i \in 1..Len(seqs[sec])
    BY <1>4
  <2>2. Before(sec) = P[sec - 1]
    BY <1>1, <1>3
  <2>3. Flat[P[sec - 1] + i] = seqs[sec][i]
    BY <1>8, <2>1 DEF IsJoin
  <2> QED
    BY <1>4, <2>2, <2>3
<1>17. \A a \in 1..Len(Flat) : Flat[a] \in ItemSet /\ Chars(Flat[a]) \in Nat
  <2> TAKE a \in 1..Len(Flat)
  <2>1. PICK k \in 1..Len(seqs) : \E i \in 1..Len(seqs[k]) : Flat[a] = seqs[k][i]
    BY <1>7, <1>10 DEF IsAmong
  <2>2. PICK i \in 1..Len(seqs[k]) : Flat[a] = seqs[k][i]
    BY <2>1
  <2>3. k \in 1..n /\ i \in 1..Total(k) /\ Flat[a] = Item(k, streams[k][i])
    BY <1>4, <1>5, <2>2
  <2> QED
    BY <2>3, BookTyped
<1>18. \A a, b \in 1..Len(Flat) : Flat[a] = Flat[b] => a = b
  <2> TAKE a, b \in 1..Len(Flat)
  <2>1. K[Flat[a]] = Flat[a] /\ K[Flat[b]] = Flat[b]
    BY <1>17
  <2> QED
    BY <1>7, <1>10, <2>1 DEF Differs
<1>19. Len(Flat) \in Nat
  BY <1>11
<1> QED
  BY <1>11, <1>12, <1>13, <1>14, <1>15, <1>16, <1>17, <1>18, <1>19

\* Empty sections do not move the count.
LEMMA EmptyBetween ==
  ASSUME BookOK, NEW a \in 1..Len(book) + 1, NEW b \in 1..Len(book) + 1, a <= b,
         \A sec \in 1..Len(book) : a <= sec /\ sec < b => Total(sec) = 0
  PROVE  Before(a) = Before(b)
<1> DEFINE T == {k \in 0..Len(book) : a <= k + 1 /\ k + 1 <= b => Before(k + 1) = Before(a)}
<1>0. Len(book) \in Nat /\ Before(a) \in Nat
  BY BookTyped, FlatIs
<1>1. 0 \in T
  BY <1>0
<1>2. ASSUME NEW k \in 0..Len(book), k < Len(book), k \in T PROVE k + 1 \in T
  <2>1. k + 1 \in 1..Len(book) /\ k + 1 \in Nat
    BY <1>0, <1>2
  <2>2. Before((k + 1) + 1) = Before(k + 1) + Total(k + 1)
    BY <2>1, FlatIs
  <2>3. CASE a = (k + 1) + 1
    BY <2>1, <2>3
  <2>4. CASE a <= k + 1
    <3>1. (k + 1) + 1 <= b => Total(k + 1) = 0 /\ Before(k + 1) = Before(a)
      BY <1>2, <2>1, <2>4
    <3> QED
      BY <1>0, <2>1, <2>2, <3>1
  <2>5. CASE (k + 1) + 1 < a
    BY <2>1, <2>5
  <2> QED
    BY <2>1, <2>3, <2>4, <2>5
<1>3. \A k \in 0..Len(book) : k \in T
  <2> HIDE DEF T
  <2> QED BY <1>0, <1>1, <1>2, BoundedInduction
<1>4. b - 1 \in 0..Len(book) /\ (b - 1) + 1 = b
  BY <1>0
<1>5. a <= (b - 1) + 1 /\ (b - 1) + 1 <= b
  BY <1>0
<1>6. Before((b - 1) + 1) = Before(a)
  BY <1>3, <1>4, <1>5
<1> QED
  BY <1>4, <1>6

-----------------------------------------------------------------------------
(* Places *)

\* A place between two items, or at an end, of a section.
Valid(at) ==
  /\ at \in [sec : 1..Len(book), pos : Nat]
  /\ at.pos <= Total(at.sec)

\* How many items are before a place, and which items it lies between.
LEMMA ItemsBeforeIs ==
  ASSUME BookOK, NEW at, Valid(at)
  PROVE  /\ ItemsBefore(at) = Before(at.sec) + at.pos
         /\ ItemsBefore(at) \in Nat /\ ItemsBefore(at) <= Len(Flat)
         /\ at.pos < Total(at.sec) => /\ ItemsBefore(at) < Len(Flat)
                                      /\ Flat[ItemsBefore(at) + 1] = Item(at.sec, streams[at.sec][at.pos + 1])
         /\ at.pos > 0 => Flat[ItemsBefore(at)] = Item(at.sec, streams[at.sec][at.pos])
<1>1. /\ at.sec \in 1..Len(book) /\ at.pos \in Nat /\ Total(at.sec) \in Nat
      /\ at.pos <= Total(at.sec) /\ Len(book) \in Nat
  BY BookTyped DEF Valid
<1>2. Min({at.pos, Total(at.sec)}) = at.pos
  BY <1>1, MinOfTwo
<1>3. ItemsBefore(at) = Before(at.sec) + at.pos
  BY <1>2 DEF ItemsBefore
<1>4. /\ at.sec \in 1..Len(book) + 1 /\ at.sec + 1 \in 1..Len(book) + 1
      /\ Len(book) + 1 \in 1..Len(book) + 1 /\ at.sec + 1 <= Len(book) + 1
  BY <1>1
<1>5. /\ Before(at.sec) \in Nat /\ Before(at.sec + 1) = Before(at.sec) + Total(at.sec)
      /\ Before(at.sec + 1) <= Before(Len(book) + 1) /\ Before(Len(book) + 1) = Len(Flat)
      /\ Before(at.sec + 1) \in Nat
  BY <1>1, <1>4, FlatIs
<1>6. \A i \in 1..Total(at.sec) : Flat[Before(at.sec) + i] = Item(at.sec, streams[at.sec][i])
  BY <1>1, FlatIs
<1>7. at.pos < Total(at.sec) =>
        Flat[ItemsBefore(at) + 1] = Item(at.sec, streams[at.sec][at.pos + 1])
  <2> SUFFICES ASSUME at.pos < Total(at.sec)
               PROVE  Flat[ItemsBefore(at) + 1] = Item(at.sec, streams[at.sec][at.pos + 1])
    OBVIOUS
  <2>1. at.pos + 1 \in 1..Total(at.sec) /\ ItemsBefore(at) + 1 = Before(at.sec) + (at.pos + 1)
    BY <1>1, <1>3, <1>5
  <2> QED
    BY <1>6, <2>1
<1>8. at.pos > 0 => Flat[ItemsBefore(at)] = Item(at.sec, streams[at.sec][at.pos])
  BY <1>1, <1>3, <1>6
<1>9. /\ ItemsBefore(at) \in Nat /\ ItemsBefore(at) <= Len(Flat)
      /\ at.pos < Total(at.sec) => ItemsBefore(at) < Len(Flat)
  BY <1>1, <1>3, <1>5, FlatIs
<1> QED
  BY <1>3, <1>7, <1>8, <1>9

\* The arithmetic of a place.
LEMMA ValidFacts ==
  ASSUME BookOK, NEW at, Valid(at)
  PROVE  /\ Len(book) \in Nat
         /\ at.sec \in 1..Len(book) /\ at.sec + 1 \in 1..Len(book) + 1
         /\ at.sec - 1 \in 0..Len(book) /\ (at.sec - 1) + 1 = at.sec
         /\ at.pos \in Nat /\ Total(at.sec) \in Nat /\ at.pos <= Total(at.sec)
         /\ Before(at.sec) \in Nat /\ Before(at.sec + 1) = Before(at.sec) + Total(at.sec)
         /\ ItemsBefore(at) = Before(at.sec) + at.pos
<1>1. at.sec \in 1..Len(book) /\ at.pos \in Nat /\ at.pos <= Total(at.sec)
  BY DEF Valid
<1>2. Len(book) \in Nat /\ Total(at.sec) \in Nat
  BY <1>1, BookTyped
<1>3. /\ at.sec \in 1..Len(book) + 1 /\ at.sec + 1 \in 1..Len(book) + 1
      /\ at.sec - 1 \in 0..Len(book) /\ (at.sec - 1) + 1 = at.sec
  BY <1>1, <1>2
<1>4. Before(at.sec) \in Nat /\ Before(at.sec + 1) = Before(at.sec) + Total(at.sec)
  BY <1>1, <1>3, FlatIs
<1>5. ItemsBefore(at) = Before(at.sec) + at.pos
  BY ItemsBeforeIs
<1> QED
  BY <1>1, <1>2, <1>3, <1>4, <1>5

\* The next section that has items, from one on.
LEMMA NextSection ==
  ASSUME BookOK, NEW sec \in 1..Len(book) + 1
  PROVE  \/ NextNonEmpty(sec) = {} /\ Before(sec) = Len(Flat)
         \/ \E s \in 1..Len(book) :
              NextNonEmpty(sec) = {s} /\ sec <= s /\ Total(s) > 0 /\ Before(s) = Before(sec)
<1> DEFINE full == {s \in sec..Len(book) : Total(s) > 0}
<1>0. /\ Len(book) \in Nat /\ Len(book) + 1 \in 1..Len(book) + 1
      /\ \A s \in 1..Len(book) : Total(s) \in Nat
  BY BookTyped
<1>1. CASE full = {}
  <2>1. NextNonEmpty(sec) = {}
    BY <1>1 DEF NextNonEmpty
  <2>2. \A s \in 1..Len(book) : sec <= s /\ s < Len(book) + 1 => Total(s) = 0
    BY <1>0, <1>1
  <2>3. Before(sec) = Before(Len(book) + 1)
    BY <1>0, <2>2, EmptyBetween
  <2> QED
    BY <2>1, <2>3, FlatIs
<1>2. CASE full # {}
  <2>1. full \subseteq Nat
    BY <1>0
  <2>2. Min(full) \in full /\ \A y \in full : Min(full) <= y
    <3> HIDE DEF full
    <3> QED BY <1>2, <2>1, MinOf
  <2>3. NextNonEmpty(sec) = {Min(full)}
    BY <1>2 DEF NextNonEmpty
  <2>4. /\ Min(full) \in 1..Len(book) /\ Min(full) \in 1..Len(book) + 1
        /\ sec <= Min(full) /\ Total(Min(full)) > 0
    BY <1>0, <2>2
  <2>5. \A s \in 1..Len(book) : sec <= s /\ s < Min(full) => Total(s) = 0
    <3> TAKE s \in 1..Len(book)
    <3>1. sec <= s /\ s < Min(full) => s \notin full
      BY <1>0, <2>2, <2>4
    <3> QED
      BY <1>0, <3>1
  <2>6. Before(sec) = Before(Min(full))
    BY <2>4, <2>5, EmptyBetween
  <2> QED
    BY <2>3, <2>4, <2>6
<1> QED
  BY <1>1, <1>2

\* The last section that has items, up to one.
LEMMA PrevSection ==
  ASSUME BookOK, NEW sec \in 0..Len(book)
  PROVE  \/ PrevNonEmpty(sec) = {} /\ Before(sec + 1) = 0
         \/ \E s \in 1..Len(book) :
              /\ PrevNonEmpty(sec) = {s} /\ s <= sec /\ Total(s) > 0
              /\ Before(s) + Total(s) = Before(sec + 1)
<1> DEFINE full == {s \in 1..sec : Total(s) > 0}
<1>0. /\ Len(book) \in Nat /\ 1 \in 1..Len(book) + 1 /\ sec + 1 \in 1..Len(book) + 1
      /\ \A s \in 1..Len(book) : Total(s) \in Nat
  BY BookTyped
<1>1. CASE full = {}
  <2>1. PrevNonEmpty(sec) = {}
    BY <1>1 DEF PrevNonEmpty
  <2>2. \A s \in 1..Len(book) : 1 <= s /\ s < sec + 1 => Total(s) = 0
    BY <1>0, <1>1
  <2>3. 1 <= sec + 1
    OBVIOUS
  <2>4. Before(1) = Before(sec + 1)
    BY <1>0, <2>2, <2>3, EmptyBetween
  <2> QED
    BY <2>1, <2>4, FlatIs
<1>2. CASE full # {}
  <2>1. full \subseteq 0..sec
    OBVIOUS
  <2>2. Max(full) \in full /\ \A y \in full : y <= Max(full)
    <3>1. sec \in Nat
      BY <1>0
    <3> HIDE DEF full
    <3> QED BY <1>2, <2>1, <3>1, MaxOf
  <2>3. PrevNonEmpty(sec) = {Max(full)}
    BY <1>2 DEF PrevNonEmpty
  <2>4. /\ Max(full) \in 1..Len(book) /\ Max(full) + 1 \in 1..Len(book) + 1
        /\ Max(full) <= sec /\ Max(full) + 1 <= sec + 1 /\ Total(Max(full)) > 0
    BY <1>0, <2>2
  <2>5. \A s \in 1..Len(book) : Max(full) + 1 <= s /\ s < sec + 1 => Total(s) = 0
    <3> TAKE s \in 1..Len(book)
    <3>1. Max(full) + 1 <= s /\ s < sec + 1 => s \notin full /\ s \in 1..sec
      BY <1>0, <2>2, <2>4
    <3> QED
      BY <1>0, <3>1
  <2>6. Before(Max(full) + 1) = Before(sec + 1)
    BY <1>0, <2>4, <2>5, EmptyBetween
  <2>7. Before(Max(full) + 1) = Before(Max(full)) + Total(Max(full))
    BY <2>4, FlatIs
  <2> QED
    BY <2>3, <2>4, <2>6, <2>7
<1> QED
  BY <1>1, <1>2

\* Where a forward answer resumes: the next item, unless the book ends.
LEMMA ForwardNextIs ==
  ASSUME BookOK, NEW at, Valid(at)
  PROVE  \/ ForwardNext(at) = {} /\ ItemsBefore(at) = Len(Flat)
         \/ \E p : /\ ForwardNext(at) = {p} /\ Valid(p) /\ p.pos < Total(p.sec)
                   /\ ItemsBefore(p) = ItemsBefore(at)
<1>1. /\ at.sec \in 1..Len(book) /\ at.pos \in Nat /\ Total(at.sec) \in Nat
      /\ at.pos <= Total(at.sec) /\ Len(book) \in Nat /\ at.sec + 1 \in 1..Len(book) + 1
      /\ ItemsBefore(at) = Before(at.sec) + at.pos
      /\ Before(at.sec) \in Nat /\ Before(at.sec + 1) = Before(at.sec) + Total(at.sec)
  BY ValidFacts
<1>2. CASE at.pos < Total(at.sec)
  BY <1>2 DEF ForwardNext
<1>3. CASE ~(at.pos < Total(at.sec))
  <2>1. ForwardNext(at) = {Place(sec, 0) : sec \in NextNonEmpty(at.sec + 1)}
    BY <1>3 DEF ForwardNext
  <2>2. ItemsBefore(at) = Before(at.sec + 1)
    BY <1>1, <1>3
  <2>3. CASE NextNonEmpty(at.sec + 1) = {} /\ Before(at.sec + 1) = Len(Flat)
    BY <2>1, <2>2, <2>3
  <2>4. ASSUME NEW s \in 1..Len(book), NextNonEmpty(at.sec + 1) = {s}, Total(s) > 0,
               Before(s) = Before(at.sec + 1)
        PROVE  \E p : /\ ForwardNext(at) = {p} /\ Valid(p) /\ p.pos < Total(p.sec)
                      /\ ItemsBefore(p) = ItemsBefore(at)
    <3>1. ForwardNext(at) = {Place(s, 0)}
      BY <2>1, <2>4
    <3>2. Total(s) \in Nat /\ Before(s) \in Nat
      <4>1. Total(s) \in Nat
        BY BookTyped
      <4>2. s \in 1..Len(book) + 1
        BY <1>1
      <4> QED
        BY <4>1, <4>2, FlatIs
    <3>3. Valid(Place(s, 0)) /\ Place(s, 0).pos < Total(Place(s, 0).sec)
          /\ Place(s, 0).sec = s /\ Place(s, 0).pos = 0
      BY <2>4, <3>2 DEF Valid, Place
    <3>4. ItemsBefore(Place(s, 0)) = ItemsBefore(at)
      BY <2>2, <2>4, <3>2, <3>3, ItemsBeforeIs
    <3> QED
      BY <3>1, <3>3, <3>4
  <2> QED
    BY <1>1, <2>3, <2>4, NextSection
<1> QED
  BY <1>2, <1>3

\* Where a backward answer resumes: after the item before, unless there is none.
LEMMA BackwardNextIs ==
  ASSUME BookOK, NEW at, Valid(at)
  PROVE  \/ BackwardNext(at) = {} /\ ItemsBefore(at) = 0
         \/ \E p : /\ BackwardNext(at) = {p} /\ Valid(p) /\ p.pos > 0
                   /\ ItemsBefore(p) = ItemsBefore(at)
<1>1. /\ at.sec \in 1..Len(book) /\ at.pos \in Nat /\ Total(at.sec) \in Nat
      /\ at.pos <= Total(at.sec) /\ Len(book) \in Nat /\ at.sec - 1 \in 0..Len(book)
      /\ (at.sec - 1) + 1 = at.sec
      /\ ItemsBefore(at) = Before(at.sec) + at.pos
  BY ValidFacts
<1>2. CASE at.pos > 0
  BY <1>2 DEF BackwardNext
<1>3. CASE ~(at.pos > 0)
  <2>1. BackwardNext(at) = {Place(sec, Total(sec)) : sec \in PrevNonEmpty(at.sec - 1)}
    BY <1>3 DEF BackwardNext
  <2>2. Before((at.sec - 1) + 1) = Before(at.sec) /\ Before(at.sec) \in Nat
    BY <1>1, FlatIs
  <2>3. ItemsBefore(at) = Before((at.sec - 1) + 1)
    BY <1>1, <1>3, <2>2
  <2>4. CASE PrevNonEmpty(at.sec - 1) = {} /\ Before((at.sec - 1) + 1) = 0
    BY <2>1, <2>3, <2>4
  <2>5. ASSUME NEW s \in 1..Len(book), PrevNonEmpty(at.sec - 1) = {s}, Total(s) > 0,
               Before(s) + Total(s) = Before((at.sec - 1) + 1)
        PROVE  \E p : /\ BackwardNext(at) = {p} /\ Valid(p) /\ p.pos > 0
                      /\ ItemsBefore(p) = ItemsBefore(at)
    <3>1. BackwardNext(at) = {Place(s, Total(s))}
      BY <2>1, <2>5
    <3>2. Total(s) \in Nat
      BY BookTyped
    <3>3. Valid(Place(s, Total(s))) /\ Place(s, Total(s)).pos > 0
          /\ Place(s, Total(s)).sec = s /\ Place(s, Total(s)).pos = Total(s)
      BY <2>5, <3>2 DEF Valid, Place
    <3>4. ItemsBefore(Place(s, Total(s))) = ItemsBefore(at)
      BY <2>3, <2>5, <3>3, ItemsBeforeIs
    <3> QED
      BY <3>1, <3>3, <3>4
  <2> QED
    BY <1>1, <2>4, <2>5, PrevSection
<1> QED
  BY <1>2, <1>3

\* One step back: the item before, unless there is none.
LEMMA StepBackIs ==
  ASSUME BookOK, NEW at, Valid(at)
  PROVE  \/ StepBack(at) = {} /\ ItemsBefore(at) = 0
         \/ \E p : /\ StepBack(at) = {p} /\ Valid(p) /\ p.pos < Total(p.sec)
                   /\ ItemsBefore(at) > 0 /\ ItemsBefore(p) = ItemsBefore(at) - 1
<1>1. /\ at.sec \in 1..Len(book) /\ at.pos \in Nat /\ Total(at.sec) \in Nat
      /\ at.pos <= Total(at.sec) /\ Len(book) \in Nat /\ at.sec - 1 \in 0..Len(book)
      /\ (at.sec - 1) + 1 = at.sec
      /\ ItemsBefore(at) = Before(at.sec) + at.pos /\ Before(at.sec) \in Nat
  BY ValidFacts
<1>2. CASE at.pos > 0
  <2> DEFINE p == Place(at.sec, at.pos - 1)
  <2>1. StepBack(at) = {p}
    BY <1>2 DEF StepBack
  <2>2. p.sec = at.sec /\ p.pos = at.pos - 1 /\ p \in [sec : 1..Len(book), pos : Nat]
    BY <1>1, <1>2 DEF Place
  <2>3. Valid(p) /\ p.pos < Total(p.sec)
    BY <1>1, <1>2, <2>2 DEF Valid
  <2>4. ItemsBefore(p) = Before(p.sec) + p.pos
    BY <2>3, ItemsBeforeIs
  <2> HIDE DEF p
  <2> QED
    BY <1>1, <1>2, <2>1, <2>2, <2>3, <2>4
<1>3. CASE ~(at.pos > 0)
  <2>1. StepBack(at) = {Place(sec, Total(sec) - 1) : sec \in PrevNonEmpty(at.sec - 1)}
    BY <1>3 DEF StepBack
  <2>2. Before((at.sec - 1) + 1) = Before(at.sec)
    BY <1>1
  <2>3. ItemsBefore(at) = Before((at.sec - 1) + 1)
    BY <1>1, <1>3, <2>2
  <2>4. CASE PrevNonEmpty(at.sec - 1) = {} /\ Before((at.sec - 1) + 1) = 0
    BY <2>1, <2>3, <2>4
  <2>5. ASSUME NEW s \in 1..Len(book), PrevNonEmpty(at.sec - 1) = {s}, Total(s) > 0,
               Before(s) + Total(s) = Before((at.sec - 1) + 1)
        PROVE  \E p : /\ StepBack(at) = {p} /\ Valid(p) /\ p.pos < Total(p.sec)
                      /\ ItemsBefore(at) > 0 /\ ItemsBefore(p) = ItemsBefore(at) - 1
    <3> DEFINE p == Place(s, Total(s) - 1)
    <3>1. StepBack(at) = {p}
      BY <2>1, <2>5
    <3>2. Total(s) \in Nat /\ Before(s) \in Nat
      <4>1. Total(s) \in Nat
        BY BookTyped
      <4>2. s \in 1..Len(book) + 1
        BY <1>1
      <4> QED
        BY <4>1, <4>2, FlatIs
    <3>3. p.sec = s /\ p.pos = Total(s) - 1 /\ p \in [sec : 1..Len(book), pos : Nat]
      BY <2>5, <3>2 DEF Place
    <3>4. Valid(p) /\ p.pos < Total(p.sec)
      BY <3>2, <3>3 DEF Valid
    <3>5. ItemsBefore(p) = Before(p.sec) + p.pos
      BY <3>4, ItemsBeforeIs
    <3> HIDE DEF p
    <3> QED
      BY <2>3, <2>5, <3>1, <3>2, <3>3, <3>4, <3>5
  <2> QED
    BY <1>1, <2>4, <2>5, PrevSection
<1> QED
  BY <1>2, <1>3

Places == {p \in [sec : 1..Len(book), pos : Nat] : p.pos <= Total(p.sec)}

\* A step back that stays where it is at the start of the book.
OneStep(at) == IF StepBack(at) = {} THEN at ELSE CHOOSE p \in StepBack(at) : TRUE

FoldsSteps(f, at, n) ==
  f = [s \in SUBSET (1..n) |-> IF s = {} THEN at ELSE OneStep(f[s \ {Max(s)}])]

\* A step back loses one item, or stays at the start of the book.
LEMMA OneStepIs ==
  ASSUME BookOK, NEW at, Valid(at)
  PROVE  /\ Valid(OneStep(at))
         /\ \/ OneStep(at) = at /\ ItemsBefore(at) = 0
            \/ /\ ItemsBefore(at) > 0 /\ ItemsBefore(OneStep(at)) = ItemsBefore(at) - 1
               /\ OneStep(at).pos < Total(OneStep(at).sec)
<1>1. CASE StepBack(at) = {} /\ ItemsBefore(at) = 0
  BY <1>1 DEF OneStep
<1>2. ASSUME NEW p, StepBack(at) = {p}, Valid(p), p.pos < Total(p.sec),
             ItemsBefore(at) > 0, ItemsBefore(p) = ItemsBefore(at) - 1
      PROVE  /\ Valid(OneStep(at))
             /\ ItemsBefore(OneStep(at)) = ItemsBefore(at) - 1
             /\ OneStep(at).pos < Total(OneStep(at).sec)
  <2>1. OneStep(at) = p
    BY <1>2 DEF OneStep
  <2> QED
    BY <1>2, <2>1
<1> QED
  BY <1>1, <1>2, StepBackIs

\* The fold that steps back exists.
LEMMA FoldsStepsExists ==
  ASSUME BookOK, NEW at, Valid(at), NEW n \in Nat
  PROVE  \E f : FoldsSteps(f, at, n)
<1> DEFINE g == [x \in Places \X (1..n) |-> OneStep(x[1])]
<1>1. at \in Places
  BY DEF Valid, Places
<1>2. g \in [Places \X (1..n) -> Places]
  <2> SUFFICES ASSUME NEW x \in Places \X (1..n) PROVE OneStep(x[1]) \in Places
    OBVIOUS
  <2>1. Valid(x[1])
    BY DEF Valid, Places
  <2>2. Valid(OneStep(x[1]))
    BY <2>1, OneStepIs
  <2> QED
    BY <2>2 DEF Valid, Places
<1>3. PICK f : IsFold(f, n, Places, at, g)
  <2> HIDE DEF g
  <2> QED BY <1>1, <1>2, FoldExists, Zenon
<1>4. ASSUME NEW s \in SUBSET (1..n)
      PROVE  f[s] = IF s = {} THEN at ELSE OneStep(f[s \ {Max(s)}])
  <2>1. CASE s = {}
    BY <2>1, <1>3 DEF IsFold
  <2>2. CASE s # {}
    <3>1. Max(s) \in s
      <4>1. s \subseteq 0..n
        OBVIOUS
      <4> QED
        BY <4>1, <2>2, MaxOf
    <3>2. s \ {Max(s)} \in SUBSET (1..n)
      OBVIOUS
    <3>3. <<f[s \ {Max(s)}], Max(s)>> \in Places \X (1..n)
      BY <1>3, <3>1, <3>2 DEF IsFold
    <3> QED
      BY <1>3, <2>2, <3>3 DEF IsFold
  <2> QED
    BY <2>1, <2>2
<1>5. FoldsSteps(f, at, n)
  BY <1>3, <1>4 DEF FoldsSteps, IsFold
<1> QED
  BY <1>5

\* What `back` steps come to: that many items before, or the start of the book.
SteppedTo(p, at, n) ==
  /\ Valid(p)
  /\ ItemsBefore(p) = IF n > ItemsBefore(at) THEN 0 ELSE ItemsBefore(at) - n
  /\ n = 0 => p = at
  /\ p.pos < Total(p.sec) \/ (p = at /\ (n = 0 \/ ItemsBefore(at) = 0))

\* The loop over `back` comes to where `back` steps come to.
LEMMA SteppedBackIs ==
  ASSUME BookOK, NEW at, Valid(at), NEW n \in Nat
  PROVE  SteppedTo(SteppedBack(at, n), at, n)
<1> DEFINE list == [i \in 1..n |-> i]
           IsFoldOfList(f) ==
             f = [s \in SUBSET DOMAIN list |-> IF s = {} THEN at ELSE OneStep(f[s \ {Max(s)}])]
           c == CHOOSE f : IsFoldOfList(f)
           T == {k \in 0..n : SteppedTo(c[1..k], at, k)}
<1>1. SteppedBack(at, n) = c[DOMAIN list]
  BY DEF SteppedBack, FoldLeft, MapThenFoldSet, OneStep
<1>2. DOMAIN list = 1..n
  OBVIOUS
<1>3. FoldsSteps(c, at, n)
  <2>1. \A f : IsFoldOfList(f) <=> FoldsSteps(f, at, n)
    <3> HIDE DEF list
    <3> QED BY <1>2 DEF FoldsSteps
  <2>2. \E f : FoldsSteps(f, at, n)
    BY FoldsStepsExists
  <2>3. \E f : IsFoldOfList(f)
    <3> HIDE DEF IsFoldOfList
    <3> QED BY <2>1, <2>2
  <2>4. IsFoldOfList(c)
    <3> HIDE DEF IsFoldOfList
    <3> QED BY <2>3
  <2> HIDE DEF IsFoldOfList, c
  <2> QED
    BY <2>1, <2>4
<1>0. ItemsBefore(at) \in Nat
  BY ItemsBeforeIs
<1> HIDE DEF c
<1>4. 0 \in T
  <2>1. 1..0 = {} /\ {} \in SUBSET (1..n)
    OBVIOUS
  <2>2. c[1..0] = at
    BY <1>3, <2>1 DEF FoldsSteps
  <2>3. SteppedTo(at, at, 0)
    BY <1>0 DEF SteppedTo
  <2> QED
    BY <2>2, <2>3
<1>5. ASSUME NEW k \in 0..n, k < n, k \in T PROVE k + 1 \in T
  <2>1. 1..k + 1 \in SUBSET (1..n) /\ 1..k + 1 # {}
    <3>1. k + 1 \in 1..n /\ k + 1 \in 1..k + 1
      BY <1>5
    <3>2. \A i \in 1..k + 1 : i \in 1..n
      BY <3>1
    <3> QED
      BY <3>1, <3>2
  <2>2. Max(1..k + 1) = k + 1
    BY MaxOfInterval
  <2>3. (1..k + 1) \ {k + 1} = 1..k
    OBVIOUS
  <2>4. c[1..k + 1] = OneStep(c[1..k])
    BY <1>3, <2>1, <2>2, <2>3 DEF FoldsSteps
  <2>5. SteppedTo(c[1..k], at, k)
    BY <1>5
  <2> DEFINE p == c[1..k]
             q == c[1..k + 1]
  <2>6. Valid(p) /\ q = OneStep(p)
    BY <2>4, <2>5 DEF SteppedTo
  <2> HIDE DEF p, q
  <2>7. /\ Valid(q) /\ ItemsBefore(p) \in Nat
        /\ \/ q = p /\ ItemsBefore(p) = 0
           \/ /\ ItemsBefore(p) > 0 /\ ItemsBefore(q) = ItemsBefore(p) - 1
              /\ q.pos < Total(q.sec)
    BY <2>6, OneStepIs, ItemsBeforeIs
  <2>8. /\ ItemsBefore(p) = IF k > ItemsBefore(at) THEN 0 ELSE ItemsBefore(at) - k
        /\ p.pos < Total(p.sec) \/ (p = at /\ (k = 0 \/ ItemsBefore(at) = 0))
    BY <2>5 DEF SteppedTo, p
  <2>9. ItemsBefore(q) = IF k + 1 > ItemsBefore(at) THEN 0 ELSE ItemsBefore(at) - (k + 1)
    BY <1>0, <1>5, <2>7, <2>8
  <2>10. q.pos < Total(q.sec) \/ (q = at /\ ItemsBefore(at) = 0)
    BY <1>0, <1>5, <2>7, <2>8
  <2>11. SteppedTo(q, at, k + 1)
    BY <1>5, <2>7, <2>9, <2>10 DEF SteppedTo
  <2> QED
    BY <1>5, <2>11 DEF q
<1>6. n \in T
  <2> HIDE DEF T
  <2> QED BY <1>4, <1>5, BoundedInduction
<1> QED
  BY <1>1, <1>2, <1>6

-----------------------------------------------------------------------------
(* What `from` names *)

HandleOK(h) ==
  \/ h = DocumentHandle
  \/ \E sec \in 1..Len(book) : h = SectionHandle(sec)
  \/ \E sec \in 1..Len(book) : \E unit \in Units : h = UnitHandle(sec, unit)
  \/ \E sec \in 1..Len(book) : \E pos \in 0..Total(sec) : h = Cursor(sec, pos)

\* What a client may start from is a handle of the book, and no cursor.
LEMMA HandlesAreOK ==
  ASSUME BookOK, NEW h \in HandlesOf(book)
  PROVE  HandleOK(h) /\ h.to # "cursor"
<1>1. book \in Seq(Seq(Nat)) /\ Len(book) \in Nat
  BY BookTyped
<1>2. CASE h = DocumentHandle
  BY <1>2 DEF HandleOK, DocumentHandle
<1>3. ASSUME NEW sec \in 1..Len(book), h = SectionHandle(sec)
      PROVE  HandleOK(h) /\ h.to # "cursor"
  BY <1>3 DEF HandleOK, SectionHandle
<1>4. ASSUME NEW sec \in 1..Len(book), NEW unit \in Units, h = UnitHandle(sec, unit)
      PROVE  HandleOK(h) /\ h.to # "cursor"
  BY <1>4 DEF HandleOK, UnitHandle
<1>5. ASSUME NEW sec \in 1..Len(book), NEW p \in 1..Len(book[sec]) + 1
      PROVE  Paragraph(p) \in Units
  <2>1. Len(book[sec]) \in Nat
    BY <1>1
  <2> QED
    BY <2>1 DEF Paragraph, Units
<1>6. ASSUME NEW sec \in 1..Len(book), NEW p \in 1..Len(book[sec]),
             NEW s \in 1..book[sec][p] + 1
      PROVE  Sentence(p, s) \in Units
  <2>1. Len(book[sec]) \in Nat /\ book[sec][p] \in Nat
    BY <1>1
  <2> QED
    BY <2>1 DEF Sentence, Units
<1>7. \/ h = DocumentHandle
      \/ \E sec \in 1..Len(book) :
           \/ h = SectionHandle(sec)
           \/ \E p \in 1..Len(book[sec]) + 1 : h = UnitHandle(sec, Paragraph(p))
           \/ \E p \in 1..Len(book[sec]) : \E s \in 1..book[sec][p] + 1 :
                h = UnitHandle(sec, Sentence(p, s))
  BY DEF HandlesOf
<1> QED
  BY <1>2, <1>3, <1>4, <1>5, <1>6, <1>7

\* A unit is at one position of a stream at most.
LEMMA PositionIs ==
  ASSUME BookOK, NEW sec \in 1..Len(book), NEW unit
  PROVE  /\ \A pos \in StreamPosition(sec, unit) :
              pos \in Nat /\ pos < Total(sec) /\ streams[sec][pos + 1].unit = unit
         /\ \A a, b \in StreamPosition(sec, unit) : a = b
         /\ \A pos \in Nat : pos < Total(sec) /\ streams[sec][pos + 1].unit = unit =>
              pos \in StreamPosition(sec, unit)
<1>1. IsStream(streams[sec], kind) /\ Total(sec) \in Nat
  BY BookTyped
<1>2. \A pos \in StreamPosition(sec, unit) :
        pos \in Nat /\ pos < Total(sec) /\ streams[sec][pos + 1].unit = unit
  <2> TAKE pos \in StreamPosition(sec, unit)
  <2>1. PICK i \in 1..Total(sec) : pos = i - 1 /\ streams[sec][i].unit = unit
    BY DEF StreamPosition
  <2> QED
    BY <1>1, <2>1
<1>3. \A a, b \in StreamPosition(sec, unit) : a = b
  <2> TAKE a, b \in StreamPosition(sec, unit)
  <2>1. a + 1 \in 1..Total(sec) /\ b + 1 \in 1..Total(sec) /\ a \in Nat /\ b \in Nat
    BY <1>1, <1>2
  <2>2. a + 1 = b + 1
    BY <1>1, <1>2, <2>1 DEF IsStream, Total
  <2> QED
    BY <2>1, <2>2
<1>4. \A pos \in Nat : pos < Total(sec) /\ streams[sec][pos + 1].unit = unit =>
        pos \in StreamPosition(sec, unit)
  <2> SUFFICES ASSUME NEW pos \in Nat, pos < Total(sec), streams[sec][pos + 1].unit = unit
               PROVE  pos \in StreamPosition(sec, unit)
    OBVIOUS
  <2>1. pos + 1 \in 1..Total(sec) /\ (pos + 1) - 1 = pos
    BY <1>1
  <2> QED
    BY <2>1 DEF StreamPosition
<1> QED
  BY <1>2, <1>3, <1>4

\* A handle names one valid place at most.
LEMMA AnchorIs ==
  ASSUME BookOK, book # <<>>, NEW h, HandleOK(h), NEW at \in Anchor(h)
  PROVE  Valid(at) /\ \A b \in Anchor(h) : b = at
<1>0. Len(book) \in Nat /\ 1 \in 1..Len(book) /\ \A sec \in 1..Len(book) : Total(sec) \in Nat
  BY BookTyped
<1>1. ASSUME NEW sec \in 1..Len(book), NEW pos \in 0..Total(sec)
      PROVE  Valid(Place(sec, pos))
  BY <1>0 DEF Valid, Place
<1>2. CASE h = DocumentHandle
  <2>1. Anchor(h) = IF NextNonEmpty(1) = {} THEN {Place(1, 0)}
                    ELSE {Place(sec, 0) : sec \in NextNonEmpty(1)}
    BY <1>2 DEF Anchor, DocumentHandle
  <2>2. CASE NextNonEmpty(1) = {}
    BY <1>0, <1>1, <2>1, <2>2
  <2>3. ASSUME NEW s \in 1..Len(book), NextNonEmpty(1) = {s}
        PROVE  Valid(at) /\ \A b \in Anchor(h) : b = at
    BY <1>0, <1>1, <2>1, <2>3
  <2> QED
    BY <1>0, <2>2, <2>3, NextSection
<1>3. ASSUME NEW sec \in 1..Len(book), h = SectionHandle(sec)
      PROVE  Valid(at) /\ \A b \in Anchor(h) : b = at
  <2>1. Anchor(h) = {Place(sec, 0)}
    BY <1>3 DEF Anchor, SectionHandle
  <2> QED
    BY <1>0, <1>1, <2>1
<1>4. ASSUME NEW sec \in 1..Len(book), NEW pos \in 0..Total(sec), h = Cursor(sec, pos)
      PROVE  Valid(at) /\ \A b \in Anchor(h) : b = at
  <2>1. Anchor(h) = {Place(sec, pos)}
    BY <1>4 DEF Anchor, Cursor
  <2> QED
    BY <1>1, <2>1
<1>5. ASSUME NEW sec \in 1..Len(book), NEW unit \in Units, h = UnitHandle(sec, unit)
      PROVE  Valid(at) /\ \A b \in Anchor(h) : b = at
  <2>1. \E u : Anchor(h) = {Place(sec, pos) : pos \in StreamPosition(sec, u)}
    BY <1>5 DEF Anchor, UnitHandle
  <2>2. PICK u : Anchor(h) = {Place(sec, pos) : pos \in StreamPosition(sec, u)}
    BY <2>1
  <2>3. PICK pos \in StreamPosition(sec, u) : at = Place(sec, pos)
    BY <2>2
  <2>4. pos \in 0..Total(sec)
    BY <1>0, PositionIs
  <2>5. \A q \in StreamPosition(sec, u) : q = pos
    BY PositionIs
  <2> QED
    BY <1>1, <2>2, <2>3, <2>4, <2>5
<1> QED
  BY <1>2, <1>3, <1>4, <1>5 DEF HandleOK

\* The handle a forward answer resumes with names the item it is to resume at.
LEMMA ResumeIs ==
  ASSUME BookOK, NEW at, Valid(at), at.pos < Total(at.sec)
  PROVE  Anchor(UnitHandle(at.sec, streams[at.sec][at.pos + 1].unit)) = {at}
<1> DEFINE sec == at.sec
           unit == streams[at.sec][at.pos + 1].unit
           p == unit.para
<1>1. sec \in 1..Len(book) /\ at.pos \in Nat /\ Total(sec) \in Nat /\ at.pos + 1 \in 1..Total(sec)
  BY BookTyped DEF Valid
<1>2. at = Place(sec, at.pos)
  BY DEF Valid, Place
<1>3. unit \in Units /\ (kind = "paragraph" => unit.sent = 0)
  <2>1. streams[sec][at.pos + 1] \in Entries /\ IsStream(streams[sec], kind)
    BY <1>1, BookTyped
  <2> QED
    BY <1>1, <2>1 DEF IsStream, Total, Entries
<1>4. unit.sent = 0 => unit = Paragraph(p)
  BY <1>3 DEF Units, Paragraph
<1>5. StreamPosition(sec, unit) = {at.pos}
  BY <1>1, PositionIs
<1> HIDE DEF sec, unit
<1>6. Anchor(UnitHandle(sec, unit)) = {Place(sec, pos) : pos \in StreamPosition(sec, unit)}
  <2>1. CASE kind = "paragraph"
    BY <1>3, <1>4, <2>1 DEF Anchor, UnitHandle
  <2>2. CASE kind # "paragraph" /\ unit.sent # 0
    BY <2>2 DEF Anchor, UnitHandle
  <2>3. CASE kind # "paragraph" /\ unit.sent = 0
    BY <1>4, <1>5, <2>3 DEF Anchor, UnitHandle
  <2> QED
    BY <2>1, <2>2, <2>3
<1>7. Anchor(UnitHandle(sec, unit)) = {at}
  BY <1>2, <1>5, <1>6
<1> QED
  BY <1>7 DEF sec, unit

-----------------------------------------------------------------------------
(* The characters of an answer *)

CharsOK(list) ==
  /\ list \in Seq(ItemSet)
  /\ \A i \in 1..Len(list) : Chars(list[i]) \in Nat

CharsOf(list) == [i \in 1..Len(list) |-> Chars(list[i])]

\* The sum of an answer is the last of its partial sums.
LEMMA SumIs ==
  ASSUME NEW list, CharsOK(list), NEW P, IsPartialSums(P, CharsOf(list), Len(list))
  PROVE  SumChars(list) = P[Len(list)]
<1> DEFINE n == Len(list)
           w == CharsOf(list)
           IsFoldOfList(f) ==
             f = [s \in SUBSET DOMAIN list |->
                    IF s = {} THEN 0 ELSE f[s \ {Max(s)}] + Chars(list[Max(s)])]
           c == CHOOSE f : IsFoldOfList(f)
<1>1. n \in Nat /\ DOMAIN list = 1..n
  BY DEF CharsOK
<1>2. SumChars(list) = c[DOMAIN list]
  BY DEF SumChars, FoldLeft, MapThenFoldSet
<1>4. w \in [1..n -> Nat]
  BY DEF CharsOK, CharsOf
<1>5. ASSUME NEW s \in SUBSET (1..n), s # {}
      PROVE  Chars(list[Max(s)]) = w[Max(s)]
  <2>1. Max(s) \in 1..n
    <3>1. s \subseteq 0..n
      OBVIOUS
    <3> QED
      BY <3>1, <1>1, <1>5, MaxOf
  <2> QED
    BY <2>1 DEF CharsOf
<1>6. \A f : IsFoldOfList(f) <=> FoldsWeights(f, w, n)
  <2> HIDE DEF w, n
  <2> QED BY <1>1, <1>5 DEF FoldsWeights
<1>7. FoldsWeights(c, w, n)
  <2>1. \E f : FoldsWeights(f, w, n)
    <3> HIDE DEF w, n
    <3> QED BY <1>1, <1>4, FoldsWeightsExists
  <2>2. \E f : IsFoldOfList(f)
    <3> HIDE DEF IsFoldOfList
    <3> QED BY <1>6, <2>1
  <2>3. IsFoldOfList(c)
    <3> HIDE DEF IsFoldOfList
    <3> QED BY <2>2
  <2> HIDE DEF IsFoldOfList, c
  <2> QED
    BY <1>6, <2>3
<1>8. c[1..n] = P[n]
  <2>1. IsPartialSums(P, w, n)
    OBVIOUS
  <2> HIDE DEF w, n, c
  <2> QED BY <1>1, <1>4, <1>7, <2>1, FoldIsSum
<1> QED
  BY <1>1, <1>2, <1>8

\* The partial sums of an answer exist.
LEMMA SumsExist ==
  ASSUME NEW list, CharsOK(list)
  PROVE  \E P : IsPartialSums(P, CharsOf(list), Len(list))
<1>1. Len(list) \in Nat /\ CharsOf(list) \in [1..Len(list) -> Nat]
  BY DEF CharsOK, CharsOf
<1> QED
  BY <1>1, PartialSumsExist

\* An empty answer has no characters.
LEMMA SumOfNone == SumChars(<<>>) = 0
<1>1. CharsOK(<<>>) /\ Len(<<>>) = 0
  BY DEF CharsOK
<1>2. PICK P : IsPartialSums(P, CharsOf(<<>>), Len(<<>>))
  BY <1>1, SumsExist
<1> QED
  BY <1>1, <1>2, SumIs DEF IsPartialSums

\* A row taken forward adds its characters.
LEMMA SumOfAppend ==
  ASSUME NEW list, CharsOK(list), NEW x \in ItemSet, Chars(x) \in Nat
  PROVE  /\ SumChars(list) \in Nat
         /\ CharsOK(Append(list, x))
         /\ SumChars(Append(list, x)) = SumChars(list) + Chars(x)
<1> DEFINE n == Len(list)
           longer == Append(list, x)
<1>1. /\ n \in Nat /\ longer \in Seq(ItemSet) /\ Len(longer) = n + 1
      /\ \A i \in 1..n : longer[i] = list[i]
      /\ longer[n + 1] = x
  BY DEF CharsOK
<1> HIDE DEF longer
<1>2. CharsOK(longer)
  BY <1>1 DEF CharsOK
<1>3. PICK P : IsPartialSums(P, CharsOf(list), n)
  BY SumsExist
<1> DEFINE Q == [k \in 0..n + 1 |-> IF k = n + 1 THEN P[n] + Chars(x) ELSE P[k]]
<1>4. IsPartialSums(Q, CharsOf(longer), n + 1)
  <2>1. P \in [0..n -> Nat] /\ P[0] = 0
    BY <1>3 DEF IsPartialSums
  <2>2. Q \in [0..n + 1 -> Nat] /\ Q[0] = 0
    BY <1>1, <2>1
  <2>3. ASSUME NEW k \in 1..n + 1 PROVE Q[k] = Q[k - 1] + CharsOf(longer)[k]
    <3>1. CASE k = n + 1
      BY <1>1, <3>1 DEF CharsOf
    <3>2. CASE k # n + 1
      <4>1. k \in 1..n /\ k - 1 \in 0..n
        BY <1>1, <3>2
      <4>2. P[k] = P[k - 1] + CharsOf(list)[k]
        BY <1>3, <4>1 DEF IsPartialSums
      <4>3. CharsOf(longer)[k] = CharsOf(list)[k]
        BY <1>1, <4>1 DEF CharsOf
      <4>4. Q[k] = P[k] /\ Q[k - 1] = P[k - 1]
        BY <1>1, <4>1
      <4> QED
        BY <4>2, <4>3, <4>4
    <3> QED
      BY <3>1, <3>2
  <2> HIDE DEF Q
  <2> QED
    BY <2>2, <2>3 DEF IsPartialSums
<1>5. SumChars(longer) = Q[n + 1] /\ SumChars(list) = P[n]
  <2> HIDE DEF Q
  <2> QED BY <1>1, <1>2, <1>3, <1>4, SumIs
<1>6. Q[n + 1] = P[n] + Chars(x) /\ P[n] \in Nat
  BY <1>1, <1>3 DEF IsPartialSums
<1> QED
  BY <1>2, <1>5, <1>6 DEF longer

\* A row taken backward adds its characters.
LEMMA SumOfPrepend ==
  ASSUME NEW list, CharsOK(list), NEW x \in ItemSet, Chars(x) \in Nat
  PROVE  /\ CharsOK(<<x>> \o list)
         /\ SumChars(<<x>> \o list) = SumChars(list) + Chars(x)
<1> DEFINE n == Len(list)
           longer == <<x>> \o list
<1>1. /\ n \in Nat /\ longer \in Seq(ItemSet) /\ Len(longer) = n + 1
      /\ \A i \in 1..n : longer[i + 1] = list[i]
      /\ longer[1] = x
  BY DEF CharsOK
<1> HIDE DEF longer
<1>2. CharsOK(longer)
  <2> SUFFICES ASSUME NEW i \in 1..n + 1 PROVE Chars(longer[i]) \in Nat
    BY <1>1 DEF CharsOK
  <2>1. CASE i = 1
    BY <1>1, <2>1
  <2>2. CASE i # 1
    <3>1. i - 1 \in 1..n /\ (i - 1) + 1 = i
      BY <1>1, <2>2
    <3>2. longer[i] = list[i - 1]
      BY <1>1, <3>1
    <3> QED
      BY <3>1, <3>2 DEF CharsOK
  <2> QED
    BY <2>1, <2>2
<1>3. PICK P : IsPartialSums(P, CharsOf(list), n)
  BY SumsExist
<1> DEFINE Q == [k \in 0..n + 1 |-> IF k = 0 THEN 0 ELSE P[k - 1] + Chars(x)]
<1>4. IsPartialSums(Q, CharsOf(longer), n + 1)
  <2>1. P \in [0..n -> Nat] /\ P[0] = 0
    BY <1>3 DEF IsPartialSums
  <2>2. Q \in [0..n + 1 -> Nat] /\ Q[0] = 0
    BY <1>1, <2>1
  <2>3. ASSUME NEW k \in 1..n + 1 PROVE Q[k] = Q[k - 1] + CharsOf(longer)[k]
    <3>1. CASE k = 1
      <4>1. Q[1] = Chars(x) /\ Q[0] = 0 /\ CharsOf(longer)[1] = Chars(x)
        BY <1>1, <2>1 DEF CharsOf
      <4> QED
        BY <3>1, <4>1
    <3>2. CASE k # 1
      <4>1. k - 1 \in 1..n /\ (k - 1) - 1 \in 0..n /\ k - 1 \in 0..n + 1 /\ (k - 1) + 1 = k
        BY <1>1, <3>2
      <4>2. P[k - 1] = P[(k - 1) - 1] + CharsOf(list)[k - 1]
        BY <1>3, <4>1 DEF IsPartialSums
      <4>3. CharsOf(longer)[k] = CharsOf(list)[k - 1]
        BY <1>1, <4>1 DEF CharsOf
      <4>4. Q[k] = P[k - 1] + Chars(x) /\ Q[k - 1] = P[(k - 1) - 1] + Chars(x)
        BY <1>1, <4>1
      <4>5. P[(k - 1) - 1] \in Nat /\ CharsOf(list)[k - 1] \in Nat
        BY <2>1, <4>1 DEF CharsOf, CharsOK
      <4> HIDE DEF Q
      <4> QED
        BY <4>2, <4>3, <4>4, <4>5
    <3> QED
      BY <3>1, <3>2
  <2> HIDE DEF Q
  <2> QED
    BY <2>2, <2>3 DEF IsPartialSums
<1>5. SumChars(longer) = Q[n + 1] /\ SumChars(list) = P[n]
  <2> HIDE DEF Q
  <2> QED BY <1>1, <1>2, <1>3, <1>4, SumIs
<1>6. Q[n + 1] = P[n] + Chars(x)
  BY <1>1
<1> QED
  BY <1>2, <1>5, <1>6 DEF longer

-----------------------------------------------------------------------------
(* Slices of the book *)

\* The items lo + 1 .. hi of the book.
IsSlice(list, lo, hi) ==
  /\ lo \in Nat /\ hi \in Nat /\ lo <= hi /\ hi <= Len(Flat)
  /\ list \in Seq(ItemSet)
  /\ Len(list) = hi - lo
  /\ \A i \in 1..Len(list) : list[i] = Flat[lo + i]

\* Nothing is a slice at any place.
LEMMA SliceOfNone ==
  ASSUME BookOK, NEW lo \in Nat, lo <= Len(Flat)
  PROVE  IsSlice(<<>>, lo, lo)
BY DEF IsSlice

\* A slice grows forward by the item after it.
LEMMA SliceAppend ==
  ASSUME BookOK, NEW list, NEW lo, NEW hi, IsSlice(list, lo, hi), hi < Len(Flat),
         NEW x, x = Flat[hi + 1]
  PROVE  IsSlice(Append(list, x), lo, hi + 1) /\ x \in ItemSet
<1>1. /\ Flat \in Seq(ItemSet) /\ Len(Flat) \in Nat /\ lo \in Nat /\ hi \in Nat /\ lo <= hi
      /\ list \in Seq(ItemSet) /\ Len(list) = hi - lo
  BY FlatIs DEF IsSlice
<1>2. hi + 1 \in 1..Len(Flat) /\ x \in ItemSet
  BY <1>1, FlatIs
<1>3. /\ Append(list, x) \in Seq(ItemSet) /\ Len(Append(list, x)) = Len(list) + 1
      /\ \A i \in 1..Len(list) : Append(list, x)[i] = list[i]
      /\ Append(list, x)[Len(list) + 1] = x
  BY <1>1, <1>2, AppendProperties
<1>4. \A i \in 1..Len(Append(list, x)) : Append(list, x)[i] = Flat[lo + i]
  <2> TAKE i \in 1..Len(Append(list, x))
  <2>1. CASE i = Len(list) + 1
    <3>1. lo + i = hi + 1
      BY <1>1, <2>1
    <3> QED
      BY <1>3, <2>1, <3>1
  <2>2. CASE i # Len(list) + 1
    <3>1. i \in 1..Len(list)
      BY <1>1, <1>3, <2>2
    <3> QED
      BY <1>3, <3>1 DEF IsSlice
  <2> QED
    BY <2>1, <2>2
<1> QED
  BY <1>1, <1>2, <1>3, <1>4 DEF IsSlice

\* A slice grows backward by the item before it.
LEMMA SlicePrepend ==
  ASSUME BookOK, NEW list, NEW lo, NEW hi, IsSlice(list, lo, hi), lo > 0,
         NEW x, x = Flat[lo]
  PROVE  IsSlice(<<x>> \o list, lo - 1, hi) /\ x \in ItemSet
<1> DEFINE longer == <<x>> \o list
<1>1. /\ Flat \in Seq(ItemSet) /\ Len(Flat) \in Nat /\ lo \in Nat /\ hi \in Nat /\ lo <= hi
      /\ list \in Seq(ItemSet) /\ Len(list) = hi - lo /\ hi <= Len(Flat)
  BY FlatIs DEF IsSlice
<1>2. lo \in 1..Len(Flat) /\ x \in ItemSet
  BY <1>1, FlatIs
<1>3. /\ longer \in Seq(ItemSet) /\ Len(longer) = Len(list) + 1 /\ longer[1] = x
      /\ \A i \in 1..Len(list) : longer[i + 1] = list[i]
  BY <1>1, <1>2
<1>4. \A i \in 1..Len(longer) : longer[i] = Flat[(lo - 1) + i]
  <2> TAKE i \in 1..Len(longer)
  <2>1. CASE i = 1
    <3>1. (lo - 1) + i = lo
      BY <1>1, <2>1
    <3> QED
      BY <1>3, <2>1, <3>1
  <2>2. CASE i # 1
    <3>1. i - 1 \in 1..Len(list) /\ (i - 1) + 1 = i /\ lo + (i - 1) = (lo - 1) + i
      BY <1>1, <1>3, <2>2
    <3>2. list[i - 1] = Flat[lo + (i - 1)]
      BY <3>1 DEF IsSlice
    <3>3. longer[i] = list[i - 1]
      BY <1>3, <3>1
    <3> QED
      BY <3>1, <3>2, <3>3
  <2> QED
    BY <2>1, <2>2
<1> HIDE DEF longer
<1>5. IsSlice(longer, lo - 1, hi)
  BY <1>1, <1>2, <1>3, <1>4 DEF IsSlice
<1> QED
  BY <1>2, <1>5 DEF longer

\* Two slices that meet are one.
LEMMA SliceJoin ==
  ASSUME BookOK, NEW a, NEW b, NEW lo, NEW mid, NEW hi, IsSlice(a, lo, mid), IsSlice(b, mid, hi)
  PROVE  IsSlice(a \o b, lo, hi)
<1> DEFINE all == a \o b
<1>1. /\ Len(Flat) \in Nat /\ lo \in Nat /\ mid \in Nat /\ hi \in Nat /\ lo <= mid /\ mid <= hi
      /\ a \in Seq(ItemSet) /\ Len(a) = mid - lo /\ b \in Seq(ItemSet) /\ Len(b) = hi - mid
      /\ hi <= Len(Flat)
  BY FlatIs DEF IsSlice
<1>2. /\ all \in Seq(ItemSet)
      /\ Len(all) = Len(a) + Len(b)
      /\ \A i \in 1..Len(a) + Len(b) : all[i] = IF i <= Len(a) THEN a[i] ELSE b[i - Len(a)]
  BY <1>1, ConcatProperties
<1> HIDE DEF all
<1>3. \A i \in 1..Len(all) : all[i] = Flat[lo + i]
  <2> TAKE i \in 1..Len(all)
  <2>1. CASE i <= Len(a)
    <3>1. i \in 1..Len(a)
      BY <1>1, <1>2, <2>1
    <3> QED
      BY <1>2, <2>1, <3>1 DEF IsSlice
  <2>2. CASE ~(i <= Len(a))
    <3>1. i - Len(a) \in 1..Len(b) /\ mid + (i - Len(a)) = lo + i
      BY <1>1, <1>2, <2>2
    <3>2. b[i - Len(a)] = Flat[mid + (i - Len(a))]
      BY <3>1 DEF IsSlice
    <3> QED
      BY <1>2, <2>2, <3>1, <3>2
  <2> QED
    BY <2>1, <2>2
<1>4. IsSlice(all, lo, hi)
  BY <1>1, <1>2, <1>3 DEF IsSlice
<1> QED
  BY <1>4 DEF all

\* A slice is a run of the book, its characters are counted, and it has no item twice.
LEMMA SliceFacts ==
  ASSUME BookOK, NEW list, NEW lo, NEW hi, IsSlice(list, lo, hi)
  PROVE  /\ IsRun(list, Flat, lo + 1)
         /\ CharsOK(list)
         /\ \A i, j \in 1..Len(list) : list[i] = list[j] => i = j
<1>1. /\ Flat \in Seq(ItemSet) /\ Len(Flat) \in Nat /\ lo \in Nat /\ hi \in Nat /\ lo <= hi
      /\ list \in Seq(ItemSet) /\ Len(list) = hi - lo /\ hi <= Len(Flat)
      /\ \A i \in 1..Len(list) : list[i] = Flat[lo + i] /\ lo + i \in 1..Len(Flat)
  BY FlatIs DEF IsSlice
<1>2. CharsOK(list)
  BY <1>1, FlatIs DEF CharsOK
<1>3. ASSUME NEW i \in 1..Len(list), NEW j \in 1..Len(list), list[i] = list[j]
      PROVE  i = j
  <2>1. lo + i = lo + j
    BY <1>1, <1>3, FlatIs
  <2> QED
    BY <1>1, <2>1
<1>4. IsRun(list, Flat, lo + 1)
  <2> DEFINE m == lo + 1
             n == m + Len(list) - 1
             run == SubSeq(Flat, m, n)
  <2>1. m \in Int /\ n \in Int /\ n = hi /\ \A i \in m..n : Flat[i] \in ItemSet
    BY <1>1, FlatIs
  <2>2. /\ run \in Seq(ItemSet)
        /\ Len(run) = IF m <= n THEN n - m + 1 ELSE 0
        /\ \A i \in 1..n - m + 1 : run[i] = Flat[m + i - 1]
    <3> HIDE DEF m, n
    <3> QED BY <2>1, SubSeqProperties
  <2>3. Len(run) = Len(list) /\ n - m + 1 = Len(list)
    <3>1. n - m + 1 = Len(list)
      BY <1>1
    <3> HIDE DEF run
    <3> QED
      BY <1>1, <2>1, <2>2, <3>1
  <2>4. \A i \in 1..Len(list) : m + i - 1 = lo + i
    BY <1>1
  <2> HIDE DEF m, n, run
  <2>5. \A i \in 1..Len(list) : run[i] = list[i]
    BY <1>1, <2>2, <2>3, <2>4
  <2>6. run = list
    BY <1>1, <2>2, <2>3, <2>5, SeqEqual
  <2> QED
    BY <2>6 DEF IsRun, run, m, n
<1> QED
  BY <1>2, <1>3, <1>4

-----------------------------------------------------------------------------
(* The machine *)

\* What depends on the book alone keeps its value.
LEMMA SameBook ==
  ASSUME UNCHANGED walk
  PROVE  /\ BookOK' <=> BookOK
         /\ Flat' = Flat
         /\ \A sec : Total(sec)' = Total(sec)
         /\ \A at : ItemsBefore(at)' = ItemsBefore(at)
         /\ \A at : Valid(at)' <=> Valid(at)
         /\ \A at : ForwardNext(at)' = ForwardNext(at)
         /\ \A at : BackwardNext(at)' = BackwardNext(at)
         /\ \A h : Anchor(h)' = Anchor(h)
         /\ \A h : HandleOK(h)' <=> HandleOK(h)
         /\ \A h, at, back : FillFrom(h, at, back)' = FillFrom(h, at, back)
         /\ \A x : Chars(x)' = Chars(x)
         /\ \A list : SumChars(list)' = SumChars(list)
         /\ \A list, lo, hi : IsSlice(list, lo, hi)' <=> IsSlice(list, lo, hi)
<1>1. BookOK' <=> BookOK
  BY DEF walk, BookOK
<1>2. Flat' = Flat
  BY DEF walk, Flat, Total, Item, UnitItem
<1>3. \A sec : Total(sec)' = Total(sec)
  BY DEF walk, Total
<1>4. \A at : ItemsBefore(at)' = ItemsBefore(at)
  BY DEF walk, ItemsBefore, Before, Total, FoldLeft, MapThenFoldSet
<1>5. \A at : Valid(at)' <=> Valid(at)
  BY DEF walk, Valid, Total
<1>6. \A at : ForwardNext(at)' = ForwardNext(at)
  BY DEF walk, ForwardNext, NextNonEmpty, Total, Place
<1>7. \A at : BackwardNext(at)' = BackwardNext(at)
  BY DEF walk, BackwardNext, PrevNonEmpty, Total, Place
<1>8. \A h : Anchor(h)' = Anchor(h)
  BY DEF walk, Anchor, NextNonEmpty, StreamPosition, Total, Place
<1>9. \A h : HandleOK(h)' <=> HandleOK(h)
  BY DEF walk, HandleOK, Cursor, Total
<1>10. \A h, at, back : FillFrom(h, at, back)' = FillFrom(h, at, back)
  <2>1. \A at, back : SteppedBack(at, back)' = SteppedBack(at, back)
    BY DEF walk, SteppedBack, StepBack, PrevNonEmpty, Total, FoldLeft, MapThenFoldSet
  <2> QED
    BY <2>1 DEF walk, FillFrom
<1>11. \A x : Chars(x)' = Chars(x)
  BY DEF walk, Chars
<1>12. \A list : SumChars(list)' = SumChars(list)
  BY DEF walk, SumChars, Chars, FoldLeft, MapThenFoldSet
<1>13. \A list, lo, hi : IsSlice(list, lo, hi)' <=> IsSlice(list, lo, hi)
  BY <1>2 DEF IsSlice
<1> QED
  BY <1>1, <1>2, <1>3, <1>4, <1>5, <1>6, <1>7, <1>8, <1>9, <1>10, <1>11, <1>12, <1>13

IsFirst(x) == x = Item(x.sec, streams[x.sec][1])

BannersOf(list) ==
  {[at |-> i - 1, sec |-> list[i].sec] : i \in {j \in 1..Len(list) : IsFirst(list[j])}}

\* The indices of the items equal to one, from 0.
PlacesOf(list, x) == {i - 1 : i \in {j \in 1..Len(list) : list[j] = x}}

BannerSet == [at : Nat, sec : Nat]

ValuesOf(list) == {list[i] : i \in 1..Len(list)}

\* How the banners and the places of an item change with a row taken forward.
LEMMA MarksAppend ==
  ASSUME NEW list \in Seq(ItemSet), NEW x \in ItemSet
  PROVE  /\ BannersOf(Append(list, x)) =
              BannersOf(list) \cup (IF IsFirst(x) THEN {[at |-> Len(list), sec |-> x.sec]} ELSE {})
         /\ \A y : PlacesOf(Append(list, x), y) =
              PlacesOf(list, y) \cup (IF x = y THEN {Len(list)} ELSE {})
<1> DEFINE longer == Append(list, x)
           n == Len(list)
<1>1. /\ n \in Nat /\ Len(longer) = n + 1
      /\ \A i \in 1..n : longer[i] = list[i]
      /\ longer[n + 1] = x
  BY AppendProperties
<1> HIDE DEF longer, n
<1>2. \A j : j \in 1..n + 1 <=> j \in 1..n \/ j = n + 1
  BY <1>1
<1>3. (n + 1) - 1 = n
  BY <1>1
<1>4. BannersOf(longer) =
        BannersOf(list) \cup (IF IsFirst(x) THEN {[at |-> n, sec |-> x.sec]} ELSE {})
  <2>1. {j \in 1..Len(longer) : IsFirst(longer[j])} =
          {j \in 1..n : IsFirst(list[j])} \cup (IF IsFirst(x) THEN {n + 1} ELSE {})
    BY <1>1, <1>2
  <2>2. \A j \in {i \in 1..n : IsFirst(list[i])} : longer[j] = list[j]
    BY <1>1
  <2> QED
    BY <1>1, <1>3, <2>1, <2>2 DEF BannersOf, n
<1>5. \A y : PlacesOf(longer, y) = PlacesOf(list, y) \cup (IF x = y THEN {n} ELSE {})
  <2> TAKE y
  <2>1. {j \in 1..Len(longer) : longer[j] = y} =
          {j \in 1..n : list[j] = y} \cup (IF x = y THEN {n + 1} ELSE {})
    BY <1>1, <1>2
  <2> QED
    BY <1>1, <1>3, <2>1 DEF PlacesOf, n
<1> QED
  BY <1>4, <1>5 DEF longer, n

\* How they change with a row taken backward: all of them move by one.
LEMMA MarksPrepend ==
  ASSUME NEW list \in Seq(ItemSet), NEW x \in ItemSet
  PROVE  /\ BannersOf(<<x>> \o list) =
              {[b EXCEPT !.at = @ + 1] : b \in BannersOf(list)} \cup
              (IF IsFirst(x) THEN {[at |-> 0, sec |-> x.sec]} ELSE {})
         /\ \A y : PlacesOf(<<x>> \o list, y) =
              {i + 1 : i \in PlacesOf(list, y)} \cup (IF x = y THEN {0} ELSE {})
<1> DEFINE longer == <<x>> \o list
           n == Len(list)
<1>1. /\ n \in Nat /\ Len(longer) = n + 1
      /\ \A i \in 1..n : longer[i + 1] = list[i]
      /\ longer[1] = x
  OBVIOUS
<1> HIDE DEF longer, n
<1>2. \A j : j \in 1..n + 1 <=> j = 1 \/ \E i \in 1..n : j = i + 1
  <2>1. 1 \in 1..n + 1 /\ \A i \in 1..n : i + 1 \in 1..n + 1
    BY <1>1
  <2>2. ASSUME NEW j \in 1..n + 1, j # 1 PROVE \E i \in 1..n : j = i + 1
    <3>1. j - 1 \in 1..n /\ j = (j - 1) + 1
      BY <1>1, <2>2
    <3> QED
      BY <3>1
  <2> QED
    BY <2>1, <2>2
<1>4. BannersOf(longer) =
        {[b EXCEPT !.at = @ + 1] : b \in BannersOf(list)} \cup
        (IF IsFirst(x) THEN {[at |-> 0, sec |-> x.sec]} ELSE {})
  <2> DEFINE firsts == {j \in 1..n : IsFirst(list[j])}
  <2>1. {j \in 1..Len(longer) : IsFirst(longer[j])} =
          {j + 1 : j \in firsts} \cup (IF IsFirst(x) THEN {1} ELSE {})
    <3>1. ASSUME NEW j \in 1..n + 1, IsFirst(longer[j])
          PROVE  j \in {k + 1 : k \in firsts} \cup (IF IsFirst(x) THEN {1} ELSE {})
      <4>1. CASE j = 1
        BY <1>1, <3>1, <4>1
      <4>2. ASSUME NEW i \in 1..n, j = i + 1 PROVE j \in {k + 1 : k \in firsts}
        BY <1>1, <3>1, <4>2
      <4> QED
        BY <1>2, <4>1, <4>2
    <3>2. ASSUME NEW k \in firsts PROVE k + 1 \in 1..n + 1 /\ IsFirst(longer[k + 1])
      <4>1. k + 1 \in 1..n + 1 /\ longer[k + 1] = list[k]
        BY <1>1, <1>2
      <4> QED
        BY <4>1
    <3>3. IsFirst(x) => 1 \in 1..n + 1 /\ IsFirst(longer[1])
      BY <1>1, <1>2
    <3> HIDE DEF firsts
    <3> QED
      BY <1>1, <3>1, <3>2, <3>3
  <2>2. {[b EXCEPT !.at = @ + 1] : b \in BannersOf(list)} =
          {[at |-> j, sec |-> list[j].sec] : j \in firsts}
    <3>1. \A j \in firsts :
            [[at |-> j - 1, sec |-> list[j].sec] EXCEPT !.at = @ + 1] = [at |-> j, sec |-> list[j].sec]
      BY <1>1
    <3>2. BannersOf(list) = {[at |-> j - 1, sec |-> list[j].sec] : j \in firsts}
      BY DEF BannersOf, n
    <3> DEFINE up(b) == [b EXCEPT !.at = @ + 1]
               low(j) == [at |-> j - 1, sec |-> list[j].sec]
               high(j) == [at |-> j, sec |-> list[j].sec]
    <3>3. \A j \in firsts : up(low(j)) = high(j)
      BY <3>1
    <3>4. BannersOf(list) = {low(j) : j \in firsts}
      BY <3>2
    <3> HIDE DEF firsts, up, low, high
    <3>5. {up(b) : b \in BannersOf(list)} = {high(j) : j \in firsts}
      BY <3>3, <3>4
    <3> QED
      BY <3>5 DEF up, high
  <2>3. {[at |-> i - 1, sec |-> longer[i].sec] : i \in {j + 1 : j \in firsts}} =
          {[at |-> j, sec |-> list[j].sec] : j \in firsts}
    <3>1. \A j \in firsts : (j + 1) - 1 = j /\ longer[j + 1] = list[j]
      BY <1>1
    <3> HIDE DEF firsts
    <3> QED
      BY <3>1
  <2>4. BannersOf(longer) =
          {[at |-> i - 1, sec |-> longer[i].sec] : i \in {j + 1 : j \in firsts}} \cup
          {[at |-> i - 1, sec |-> longer[i].sec] : i \in (IF IsFirst(x) THEN {1} ELSE {})}
    <3>1. BannersOf(longer) = {[at |-> i - 1, sec |-> longer[i].sec] :
                                 i \in {j \in 1..Len(longer) : IsFirst(longer[j])}}
      BY DEF BannersOf
    <3> HIDE DEF firsts
    <3> QED
      BY <2>1, <3>1
  <2>5. {[at |-> i - 1, sec |-> longer[i].sec] : i \in (IF IsFirst(x) THEN {1} ELSE {})} =
          IF IsFirst(x) THEN {[at |-> 0, sec |-> x.sec]} ELSE {}
    BY <1>1
  <2> HIDE DEF firsts
  <2> QED
    BY <2>2, <2>3, <2>4, <2>5
<1>5. \A y : PlacesOf(longer, y) = {i + 1 : i \in PlacesOf(list, y)} \cup (IF x = y THEN {0} ELSE {})
  <2> TAKE y
  <2> DEFINE same == {j \in 1..n : list[j] = y}
  <2>1. {j \in 1..Len(longer) : longer[j] = y} =
          {j + 1 : j \in same} \cup (IF x = y THEN {1} ELSE {})
    <3>1. ASSUME NEW j \in 1..n + 1, longer[j] = y
          PROVE  j \in {k + 1 : k \in same} \cup (IF x = y THEN {1} ELSE {})
      <4>1. CASE j = 1
        BY <1>1, <3>1, <4>1
      <4>2. ASSUME NEW i \in 1..n, j = i + 1 PROVE j \in {k + 1 : k \in same}
        BY <1>1, <3>1, <4>2
      <4> QED
        BY <1>2, <4>1, <4>2
    <3>2. ASSUME NEW k \in same PROVE k + 1 \in 1..n + 1 /\ longer[k + 1] = y
      <4>1. k + 1 \in 1..n + 1 /\ longer[k + 1] = list[k]
        BY <1>1, <1>2
      <4> QED
        BY <4>1
    <3>3. x = y => 1 \in 1..n + 1 /\ longer[1] = y
      BY <1>1, <1>2
    <3> HIDE DEF same
    <3> QED
      BY <1>1, <3>1, <3>2, <3>3
  <2>2. {i + 1 : i \in PlacesOf(list, y)} = same
    <3>1. \A j \in same : (j - 1) + 1 = j
      BY <1>1
    <3>2. PlacesOf(list, y) = {j - 1 : j \in same}
      BY DEF PlacesOf, n
    <3> HIDE DEF same
    <3> QED
      BY <3>1, <3>2
  <2>3. {i - 1 : i \in {j + 1 : j \in same}} = same
    <3>1. \A j \in same : (j + 1) - 1 = j
      BY <1>1
    <3> HIDE DEF same
    <3> QED
      BY <3>1
  <2>4. PlacesOf(longer, y) = {i - 1 : i \in {j + 1 : j \in same}} \cup
                              {i - 1 : i \in (IF x = y THEN {1} ELSE {})}
    <3>1. PlacesOf(longer, y) = {i - 1 : i \in {j \in 1..Len(longer) : longer[j] = y}}
      BY DEF PlacesOf
    <3> HIDE DEF same
    <3> QED
      BY <2>1, <3>1
  <2>5. {i - 1 : i \in (IF x = y THEN {1} ELSE {})} = IF x = y THEN {0} ELSE {}
    OBVIOUS
  <2> HIDE DEF same
  <2> QED
    BY <2>2, <2>3, <2>4, <2>5
<1> QED
  BY <1>4, <1>5 DEF longer, n

\* A banner is added to those recorded.
LEMMA ValuesAppend ==
  ASSUME NEW list \in Seq(BannerSet), NEW b \in BannerSet
  PROVE  Append(list, b) \in Seq(BannerSet) /\ ValuesOf(Append(list, b)) = ValuesOf(list) \cup {b}
<1>1. /\ Append(list, b) \in Seq(BannerSet) /\ Len(Append(list, b)) = Len(list) + 1
      /\ \A i \in 1..Len(list) : Append(list, b)[i] = list[i]
      /\ Append(list, b)[Len(list) + 1] = b
      /\ Len(list) \in Nat
  BY AppendProperties
<1>2. \A j : j \in 1..Len(list) + 1 <=> j \in 1..Len(list) \/ j = Len(list) + 1
  BY <1>1
<1> QED
  BY <1>1, <1>2 DEF ValuesOf

\* The banners of a backward batch move by one.
LEMMA ValuesShift ==
  ASSUME NEW list \in Seq(BannerSet),
         NEW moved, moved = [i \in 1..Len(list) |-> [list[i] EXCEPT !.at = @ + 1]]
  PROVE  /\ moved \in Seq(BannerSet)
         /\ ValuesOf(moved) = {[b EXCEPT !.at = @ + 1] : b \in ValuesOf(list)}
<1>1. \A i \in 1..Len(list) : [list[i] EXCEPT !.at = @ + 1] \in BannerSet
  <2> TAKE i \in 1..Len(list)
  <2> DEFINE b == list[i]
  <2>1. b \in BannerSet
    OBVIOUS
  <2> HIDE DEF b
  <2>2. b.at + 1 \in Nat
    BY <2>1 DEF BannerSet
  <2>3. [b EXCEPT !.at = b.at + 1] \in BannerSet
    BY <2>1, <2>2 DEF BannerSet
  <2> QED
    BY <2>3 DEF b
<1>2. moved \in Seq(BannerSet) /\ Len(moved) = Len(list)
  BY <1>1
<1> QED
  BY <1>2 DEF ValuesOf


-----------------------------------------------------------------------------
(* The invariant *)

\* A page of the stream of a section, from a position on.
IsPage(page, sec, lo) ==
  /\ page \in Seq(Entries)
  /\ lo + Len(page) <= Total(sec)
  /\ \A i \in 1..Len(page) : page[i] = streams[sec][lo + i]

\* A backward call that starts past the last item of a section.
PastEnd(at) ==
  /\ at \in [sec : 1..Len(book), pos : Nat]
  /\ at.pos = Total(at.sec) + 1

\* How many items come before the place a call fills from.
Origin == ItemsBefore(FillFrom(from, anchorAt, call.back))

AnchorItem == Item(anchorAt.sec, streams[anchorAt.sec][anchorAt.pos + 1])

\* What an answer that stopped at a place says to continue from.
Resume(at) == IF direction = "forward" THEN ForwardNext(at) ELSE BackwardNext(at)

NextFrom(resume) ==
  IF resume = {} THEN NoNext
  ELSE LET at == CHOOSE p \in resume : TRUE
       IN  IF direction = "forward" THEN UnitHandle(at.sec, streams[at.sec][at.pos + 1].unit)
           ELSE Cursor(at.sec, at.pos)

\* An answer that does not end the walk stopped for its budget.
BudgetSpent ==
  LET continues == IF direction = "forward"
                     THEN Flat[ItemsBefore(place) + 1] ELSE Flat[ItemsBefore(place)]
  IN  IF call.max # 0 THEN SumChars(items) + Chars(continues) > call.max
      ELSE Len(items) = call.back + 1

CallOK ==
  /\ call \in [max : Nat, back : Nat]
  /\ HandleOK(from)
  /\ from.to = "cursor" => call.back = 0
  /\ anchorAt \in Anchor(from)

PlaceOK ==
  Valid(place) \/ (direction = "backward" /\ pc = "head" /\ items = <<>> /\ PastEnd(place))

PageOK ==
  pc \in {"rows", "failed"} =>
    /\ fetched # <<>>
    /\ IF direction = "forward" THEN IsPage(fetched, place.sec, place.pos)
       ELSE /\ Len(fetched) <= place.pos
            /\ IsPage(fetched, place.sec, place.pos - Len(fetched))

ItemsOK ==
  IF direction = "forward" THEN IsSlice(items, Origin, ItemsBefore(place))
  ELSE IsSlice(items, ItemsBefore(place), Origin)

BudgetOK ==
  IF call.max # 0 THEN SumChars(items) <= call.max ELSE Len(items) <= call.back + 1

MarksOK ==
  /\ banners \in Seq(BannerSet)
  /\ ValuesOf(banners) = BannersOf(items)
  /\ anchor = IF call.back > 0 /\ anchorAt.pos < Total(anchorAt.sec)
                THEN PlacesOf(items, AnchorItem) ELSE {}

\* How far the answers of the walk have got.
Reached == IF pc = "answered" THEN ItemsBefore(place) ELSE Origin

TrailAt(reached) ==
  \E other \in 0..Len(Flat) :
    IF direction = "forward" THEN IsSlice(trail, other, reached) ELSE IsSlice(trail, reached, other)

TrailOK == TrailAt(Reached)

NextOK ==
  pc = "answered" => /\ next = NextFrom(Resume(place))
                     /\ next # NoNext => BudgetSpent

CallInv == CallOK /\ PlaceOK /\ PageOK /\ ItemsOK /\ BudgetOK /\ MarksOK /\ TrailOK /\ NextOK

InCall == book # <<>> /\ pc \in {"head", "rows", "answered", "failed"}

WalkInv ==
  /\ BookOK
  /\ pc \in {"start", "head", "rows", "answered", "failed", "unknown"}
  /\ pc = "start" => from \in HandlesOf(book) /\ trail = <<>>
  /\ book = <<>> => pc \in {"start", "answered"} /\ next = NoNext /\ trail = <<>>
  /\ InCall => CallInv

\* What the parts of the invariant ask of the book keeps its value.
LEMMA SameParts ==
  ASSUME UNCHANGED walk
  PROVE  /\ \A at : PastEnd(at)' <=> PastEnd(at)
         /\ \A page, sec, lo : IsPage(page, sec, lo)' <=> IsPage(page, sec, lo)
         /\ \A at : Resume(at)' = Resume(at)
         /\ \A resume : NextFrom(resume)' = NextFrom(resume)
         /\ \A list : BannersOf(list)' = BannersOf(list)
         /\ HandlesOf(book)' = HandlesOf(book)
         /\ trail' = trail => \A reached : TrailAt(reached)' <=> TrailAt(reached)
<1>1. \A at : PastEnd(at)' <=> PastEnd(at)
  BY DEF walk, PastEnd, Total
<1>2. \A page, sec, lo : IsPage(page, sec, lo)' <=> IsPage(page, sec, lo)
  BY DEF walk, IsPage, Total
<1>3. \A at : Resume(at)' = Resume(at)
  BY SameBook DEF walk, Resume
<1>4. \A resume : NextFrom(resume)' = NextFrom(resume)
  BY DEF walk, NextFrom, Cursor
<1>5. \A list : BannersOf(list)' = BannersOf(list)
  BY DEF walk, BannersOf, IsFirst, Item, UnitItem
<1>6. HandlesOf(book)' = HandlesOf(book)
  BY DEF walk
<1>7. trail' = trail => \A reached : TrailAt(reached)' <=> TrailAt(reached)
  BY SameBook DEF walk, TrailAt
<1> QED
  BY <1>1, <1>2, <1>3, <1>4, <1>5, <1>6, <1>7

\* A place one past the last item of its section counts as the end of the section.
LEMMA PastEndIs ==
  ASSUME BookOK, NEW at, PastEnd(at)
  PROVE  /\ Valid(Place(at.sec, Total(at.sec)))
         /\ ItemsBefore(Place(at.sec, Total(at.sec))) = ItemsBefore(at)
         /\ at.sec \in 1..Len(book) /\ at.pos \in Nat /\ Total(at.sec) \in Nat
<1>1. at.sec \in 1..Len(book) /\ at.pos \in Nat /\ Total(at.sec) \in Nat /\ at.pos = Total(at.sec) + 1
  BY BookTyped DEF PastEnd
<1>2. Valid(Place(at.sec, Total(at.sec)))
  BY <1>1 DEF Valid, Place
<1>3. Min({at.pos, Total(at.sec)}) = Total(at.sec)
  BY <1>1, MinOfTwo
<1>4. Min({Total(at.sec), Total(at.sec)}) = Total(at.sec)
  BY <1>1, MinOfTwo
<1>5. ItemsBefore(Place(at.sec, Total(at.sec))) = ItemsBefore(at)
  BY <1>3, <1>4 DEF ItemsBefore, Place
<1> QED
  BY <1>1, <1>2, <1>5

\* Two places with the same item are the same place.
LEMMA SamePlace ==
  ASSUME BookOK, NEW a, NEW b, Valid(a), Valid(b), a.pos < Total(a.sec), b.pos < Total(b.sec),
         Item(a.sec, streams[a.sec][a.pos + 1]) = Item(b.sec, streams[b.sec][b.pos + 1])
  PROVE  a = b
<1>1. a.sec = b.sec
  <2> DEFINE u == streams[a.sec][a.pos + 1]
             v == streams[b.sec][b.pos + 1]
  <2>1. Item(a.sec, u).sec = a.sec /\ Item(b.sec, v).sec = b.sec
    BY DEF Item, UnitItem
  <2> QED
    BY <2>1
<1>2. /\ ItemsBefore(a) \in Nat /\ ItemsBefore(a) < Len(Flat)
      /\ Flat[ItemsBefore(a) + 1] = Item(a.sec, streams[a.sec][a.pos + 1])
  BY ItemsBeforeIs
<1>3. /\ ItemsBefore(b) \in Nat /\ ItemsBefore(b) < Len(Flat)
      /\ Flat[ItemsBefore(b) + 1] = Item(b.sec, streams[b.sec][b.pos + 1])
  BY ItemsBeforeIs
<1>4. Len(Flat) \in Nat /\ \A i, j \in 1..Len(Flat) : Flat[i] = Flat[j] => i = j
  BY FlatIs
<1>5. ItemsBefore(a) + 1 \in 1..Len(Flat) /\ ItemsBefore(b) + 1 \in 1..Len(Flat)
  BY <1>2, <1>3, <1>4
<1>6. ItemsBefore(a) + 1 = ItemsBefore(b) + 1
  BY <1>2, <1>3, <1>4, <1>5
<1>7. a.pos = b.pos
  <2>1. ItemsBefore(a) = Before(a.sec) + a.pos /\ a.pos \in Nat /\ Before(a.sec) \in Nat
    BY ValidFacts
  <2>2. ItemsBefore(b) = Before(b.sec) + b.pos /\ b.pos \in Nat /\ Before(b.sec) \in Nat
    BY ValidFacts
  <2> QED
    BY <1>1, <1>2, <1>3, <1>6, <2>1, <2>2
<1> QED
  BY <1>1, <1>7 DEF Valid

\* Where a call fills from: forward `back` items before the anchor, backward after the item there.
LEMMA FillFromIs ==
  ASSUME BookOK, NEW h, NEW at, Valid(at), NEW n \in Nat, h.to = "cursor" => n = 0
  PROVE  LET p == FillFrom(h, at, n)
             start == IF n > ItemsBefore(at) THEN 0 ELSE ItemsBefore(at) - n
         IN  /\ direction = "forward" => Valid(p) /\ ItemsBefore(p) = start
             /\ direction = "backward" => Valid(p) \/ PastEnd(p)
             /\ direction = "backward" /\ h.to = "cursor" => p = at
             /\ direction = "backward" /\ h.to # "cursor" =>
                  \/ /\ ItemsBefore(p) = start + 1 /\ ItemsBefore(p) <= Len(Flat)
                     /\ n > 0 \/ at.pos < Total(at.sec)
                  \/ /\ n = 0 /\ ~(at.pos < Total(at.sec))
                     /\ ItemsBefore(p) = start
                  \/ n > 0 /\ ItemsBefore(p) = 0 /\ start = 0
<1> DEFINE q == SteppedBack(at, n)
           start == IF n > ItemsBefore(at) THEN 0 ELSE ItemsBefore(at) - n
           p == FillFrom(h, at, n)
<1>1. SteppedTo(q, at, n)
  BY SteppedBackIs
<1>2. /\ Valid(q) /\ ItemsBefore(q) = start /\ (n = 0 => q = at)
      /\ q.pos < Total(q.sec) \/ (q = at /\ (n = 0 \/ ItemsBefore(at) = 0))
  BY <1>1 DEF SteppedTo
<1>3. direction \in {"forward", "backward"}
  BY DEF BookOK
<1>4. p = IF direction = "forward" THEN q
          ELSE IF n = 0 /\ h.to = "cursor" THEN q ELSE Place(q.sec, q.pos + 1)
  BY DEF FillFrom
<1>5. ItemsBefore(at) \in Nat /\ Len(Flat) \in Nat /\ ItemsBefore(q) \in Nat
  BY <1>2, ItemsBeforeIs, FlatIs
<1>6. CASE direction = "forward"
  BY <1>2, <1>4, <1>6
<1>7. CASE direction = "backward" /\ h.to = "cursor"
  <2>1. direction # "forward"
    BY <1>7
  <2> HIDE DEF q, p
  <2>2. p = at
    BY <1>2, <1>4, <1>7, <2>1
  <2> QED
    BY <1>7, <2>1, <2>2 DEF p
<1>8. CASE direction = "backward" /\ h.to # "cursor"
  <2>1. p = Place(q.sec, q.pos + 1) /\ direction # "forward"
    BY <1>4, <1>8
  <2>2. q.sec \in 1..Len(book) /\ q.pos \in Nat /\ Total(q.sec) \in Nat /\ q.pos <= Total(q.sec)
    BY <1>2, ValidFacts
  <2> HIDE DEF q, p
  <2>3. p.sec = q.sec /\ p.pos = q.pos + 1 /\ p \in [sec : 1..Len(book), pos : Nat]
    BY <2>1, <2>2 DEF Place
  <2>4. CASE q.pos < Total(q.sec)
    <3>1. Valid(p)
      BY <2>2, <2>3, <2>4 DEF Valid
    <3>2. /\ ItemsBefore(p) = Before(p.sec) + p.pos /\ ItemsBefore(p) <= Len(Flat)
          /\ ItemsBefore(q) = Before(q.sec) + q.pos /\ Before(q.sec) \in Nat
      BY <1>2, <3>1, ItemsBeforeIs, ValidFacts
    <3>3. ItemsBefore(p) = ItemsBefore(q) + 1
      BY <2>2, <2>3, <3>2
    <3>4. n > 0 \/ at.pos < Total(at.sec)
      BY <1>2, <2>4
    <3> QED
      BY <1>2, <1>8, <2>1, <3>1, <3>2, <3>3, <3>4 DEF p
  <2>5. CASE ~(q.pos < Total(q.sec))
    <3>1. q.pos = Total(q.sec) /\ q = at /\ (n = 0 \/ ItemsBefore(at) = 0)
      BY <1>2, <2>2, <2>5
    <3>2. PastEnd(p)
      BY <2>2, <2>3, <3>1 DEF PastEnd
    <3>3. Place(p.sec, Total(p.sec)) = q
      BY <1>2, <2>3, <3>1 DEF Place, Valid
    <3>4. ItemsBefore(p) = ItemsBefore(q)
      BY <3>2, <3>3, PastEndIs
    <3>5. CASE n = 0
      BY <1>2, <1>8, <2>1, <2>5, <3>1, <3>2, <3>4, <3>5 DEF p
    <3>6. CASE n > 0
      <4>1. ItemsBefore(at) = 0 /\ start = 0
        BY <1>5, <3>1, <3>6
      <4> QED
        BY <1>2, <1>8, <2>1, <3>1, <3>2, <3>4, <3>6, <4>1 DEF p
    <3> QED
      BY <3>5, <3>6
  <2> QED
    BY <2>4, <2>5
<1> QED
  BY <1>3, <1>6, <1>7, <1>8

\* The place a call fills from is in the book.
LEMMA FillFromCounts ==
  ASSUME BookOK, NEW h, NEW at, Valid(at), NEW n \in Nat, h.to = "cursor" => n = 0
  PROVE  ItemsBefore(FillFrom(h, at, n)) \in Nat /\ ItemsBefore(FillFrom(h, at, n)) <= Len(Flat)
<1> DEFINE p == FillFrom(h, at, n)
<1>1. Valid(p) \/ PastEnd(p)
  BY FillFromIs DEF BookOK
<1> HIDE DEF p
<1>2. CASE Valid(p)
  BY <1>2, ItemsBeforeIs DEF p
<1>3. CASE PastEnd(p)
  BY <1>3, PastEndIs, ItemsBeforeIs DEF p
<1> QED
  BY <1>1, <1>2, <1>3

\* What an answer that stopped at a place says to continue from: the neighbour of the place, or
\* nothing at the end of the book, or its start.
LEMMA NextIs ==
  ASSUME BookOK, NEW at, Valid(at)
  PROVE  \/ /\ NextFrom(Resume(at)) = NoNext
            /\ ItemsBefore(at) = IF direction = "forward" THEN Len(Flat) ELSE 0
         \/ \E p : /\ Valid(p) /\ ItemsBefore(p) = ItemsBefore(at)
                   /\ NextFrom(Resume(at)) # NoNext
                   /\ direction = "forward" =>
                        /\ p.pos < Total(p.sec)
                        /\ NextFrom(Resume(at)) = UnitHandle(p.sec, streams[p.sec][p.pos + 1].unit)
                   /\ direction = "backward" =>
                        /\ p.pos > 0
                        /\ NextFrom(Resume(at)) = Cursor(p.sec, p.pos)
<1>1. CASE direction = "forward"
  <2>1. CASE ForwardNext(at) = {} /\ ItemsBefore(at) = Len(Flat)
    BY <1>1, <2>1 DEF Resume, NextFrom
  <2>2. ASSUME NEW p, ForwardNext(at) = {p}, Valid(p), p.pos < Total(p.sec),
               ItemsBefore(p) = ItemsBefore(at)
        PROVE  NextFrom(Resume(at)) = UnitHandle(p.sec, streams[p.sec][p.pos + 1].unit)
    BY <1>1, <2>2 DEF Resume, NextFrom
  <2>3. \A sec, unit : UnitHandle(sec, unit) # NoNext
    BY DEF UnitHandle, NoNext
  <2> QED
    BY <1>1, <2>1, <2>2, <2>3, ForwardNextIs
<1>2. CASE direction = "backward"
  <2>1. CASE BackwardNext(at) = {} /\ ItemsBefore(at) = 0
    BY <1>2, <2>1 DEF Resume, NextFrom
  <2>2. ASSUME NEW p, BackwardNext(at) = {p}, Valid(p), p.pos > 0,
               ItemsBefore(p) = ItemsBefore(at)
        PROVE  NextFrom(Resume(at)) = Cursor(p.sec, p.pos)
    BY <1>2, <2>2 DEF Resume, NextFrom
  <2>3. \A sec, pos : Cursor(sec, pos) # NoNext
    BY DEF Cursor, NoNext
  <2> QED
    BY <1>2, <2>1, <2>2, <2>3, BackwardNextIs
<1> QED
  BY <1>1, <1>2 DEF BookOK

-----------------------------------------------------------------------------
(* The steps *)

\* A call of a client that starts where its answers have got to.
LEMMA BeginKeeps ==
  ASSUME WalkInv, book # <<>>, NEW h, HandleOK(h), NEW max \in Nat, NEW back \in Nat,
         h.to = "cursor" => back = 0, Begin(h, max, back),
         \A at \in Anchor(h) : TrailAt(ItemsBefore(FillFrom(h, at, back)))
  PROVE  WalkInv'
<1>1. UNCHANGED walk /\ UNCHANGED trail /\ book' # <<>>
  BY DEF Begin, walk
<1>2. BookOK /\ BookOK'
  BY <1>1, SameBook DEF WalkInv
<1>3. CASE Anchor(h) = {}
  <2>1. pc' = "unknown"
    BY <1>3 DEF Begin
  <2> QED
    BY <1>1, <1>2, <2>1 DEF WalkInv, InCall
<1>4. ASSUME NEW at \in Anchor(h), pc' = "head", anchorAt' = at, place' = FillFrom(h, at, back)
      PROVE  WalkInv'
  <2> DEFINE p == FillFrom(h, at, back)
             e == ItemsBefore(p)
  <2>1. Valid(at)
    BY <1>2, AnchorIs
  <2>2. /\ from' = h /\ call' = [max |-> max, back |-> back] /\ place' = p
        /\ items' = <<>> /\ banners' = <<>> /\ anchor' = {} /\ next' = NoNext /\ fetched' = <<>>
        /\ direction' = direction /\ direction \in {"forward", "backward"}
    BY <1>1, <1>2, <1>4 DEF Begin, BookOK, walk
  <2>3. Valid(p) \/ (direction = "backward" /\ PastEnd(p))
    BY <1>2, <2>1, <2>2, FillFromIs
  <2>4. e \in Nat /\ e <= Len(Flat)
    BY <1>2, <2>1, FillFromCounts
  <2>5. CallOK'
    <3>1. HandleOK(h)' /\ h \in {h} /\ (at \in Anchor(h))'
      BY <1>1, SameBook
    <3>2. HandleOK(from)' /\ (anchorAt \in Anchor(from))'
      BY <1>1, <1>4, <2>2, SameBook
    <3>3. call'.back = back /\ call' \in [max : Nat, back : Nat]
      BY <2>2
    <3> QED
      BY <2>2, <3>2, <3>3 DEF CallOK
  <2>6. PlaceOK'
    <3>1. Valid(place)' \/ (PastEnd(place)' /\ direction = "backward")
      BY <1>1, <2>2, <2>3, SameBook, SameParts
    <3> QED
      BY <1>4, <2>2, <3>1 DEF PlaceOK
  <2>7. Origin' = e /\ ItemsBefore(place)' = e
    <3>1. ItemsBefore(place)' = e
      BY <1>1, <2>2, SameBook
    <3>2. FillFrom(from, anchorAt, call.back)' = p
      BY <1>1, <1>4, <2>2, SameBook
    <3>3. Origin' = ItemsBefore(p)
      BY <1>1, <3>2, SameBook DEF Origin
    <3> QED
      BY <3>1, <3>3
  <2>8. ItemsOK'
    <3>1. IsSlice(<<>>, e, e)
      BY <1>2, <2>4, SliceOfNone
    <3> HIDE DEF e, p
    <3>2. IsSlice(items, Origin, ItemsBefore(place))' /\ IsSlice(items, ItemsBefore(place), Origin)'
      BY <1>1, <2>2, <2>7, <3>1, SameBook
    <3> QED
      BY <3>2 DEF ItemsOK
  <2>9. BudgetOK'
    <3>1. SumChars(items)' = 0
      BY <1>1, <2>2, SumOfNone, SameBook
    <3> QED
      BY <2>2, <3>1 DEF BudgetOK
  <2>10. MarksOK'
    <3>1. banners' \in Seq(BannerSet) /\ ValuesOf(banners)' = {}
      BY <2>2 DEF ValuesOf
    <3>2. BannersOf(items)' = {} /\ PlacesOf(items, AnchorItem)' = {}
      BY <2>2 DEF BannersOf, PlacesOf
    <3> QED
      BY <2>2, <3>1, <3>2 DEF MarksOK
  <2>11. TrailOK'
    <3> HIDE DEF p, e
    <3>1. Reached' = e
      BY <1>4, <2>7 DEF Reached
    <3>2. TrailAt(e)
      BY <1>4 DEF p, e
    <3>3. TrailAt(Reached)'
      BY <1>1, <3>1, <3>2, SameParts
    <3> QED
      BY <3>3 DEF TrailOK
  <2>12. CallInv'
    BY <1>4, <2>5, <2>6, <2>8, <2>9, <2>10, <2>11 DEF CallInv, PageOK, NextOK
  <2> QED
    BY <1>1, <1>2, <1>4, <2>12 DEF WalkInv
<1> QED
  BY <1>3, <1>4 DEF Begin

\* A call about a book without sections answers nothing.
LEMMA BeginOfNone ==
  ASSUME WalkInv, book = <<>>, NEW h, NEW max, NEW back, Begin(h, max, back)
  PROVE  WalkInv'
<1>1. UNCHANGED walk /\ trail' = trail /\ book' = <<>> /\ pc' = "answered" /\ next' = NoNext
  BY DEF Begin, walk
<1>2. BookOK'
  BY <1>1, SameBook DEF WalkInv
<1> QED
  BY <1>1, <1>2 DEF WalkInv, InCall

\* FirstCall: nothing is returned yet, so the walk starts anywhere.
LEMMA FirstCallKeeps ==
  ASSUME WalkInv, FirstCall
  PROVE  WalkInv'
<1>1. /\ BookOK /\ pc = "start" /\ from \in HandlesOf(book) /\ trail = <<>>
      /\ HandleOK(from) /\ from.to # "cursor"
  BY HandlesAreOK DEF WalkInv, FirstCall
<1>2. PICK max \in 0..MaxBatch, back \in Backs : Begin(from, max, back)
  BY DEF FirstCall
<1>3. max \in Nat /\ back \in Nat
  BY <1>2, ReadAssumption
<1>4. CASE book = <<>>
  BY <1>2, <1>4, BeginOfNone
<1>5. CASE book # <<>>
  <2>1. ASSUME NEW at \in Anchor(from)
        PROVE  TrailAt(ItemsBefore(FillFrom(from, at, back)))
    <3> DEFINE e == ItemsBefore(FillFrom(from, at, back))
    <3>1. e \in Nat /\ e <= Len(Flat)
      BY <1>1, <1>3, <1>5, AnchorIs, FillFromCounts
    <3> HIDE DEF e
    <3>2. IsSlice(trail, e, e) /\ e \in 0..Len(Flat)
      BY <1>1, <3>1, SliceOfNone, FlatIs
    <3>3. TrailAt(e)
      BY <3>2 DEF TrailAt
    <3> QED
      BY <3>3 DEF e
  <2> QED
    BY <1>1, <1>2, <1>3, <1>5, <2>1, BeginKeeps
<1> QED
  BY <1>4, <1>5

\* Follow: the client goes on where the last answer stopped.
LEMMA FollowKeeps ==
  ASSUME WalkInv, Follow
  PROVE  WalkInv'
<1>1. BookOK /\ pc = "answered" /\ next # NoNext /\ book # <<>>
  BY DEF WalkInv, Follow
<1>2. PICK max \in 0..MaxBatch : Begin(next, max, 0)
  BY DEF Follow
<1>3. max \in Nat
  BY <1>2
<1>4. CallInv
  BY <1>1 DEF WalkInv, InCall
<1>5. Valid(place) /\ next = NextFrom(Resume(place)) /\ TrailAt(ItemsBefore(place))
  BY <1>1, <1>4 DEF CallInv, PlaceOK, NextOK, TrailOK, Reached
<1>6. PICK p : /\ Valid(p) /\ ItemsBefore(p) = ItemsBefore(place)
               /\ direction = "forward" =>
                    p.pos < Total(p.sec) /\ next = UnitHandle(p.sec, streams[p.sec][p.pos + 1].unit)
               /\ direction = "backward" => p.pos > 0 /\ next = Cursor(p.sec, p.pos)
  BY <1>1, <1>5, NextIs
<1>7. /\ p.sec \in 1..Len(book) /\ p.pos \in 0..Total(p.sec) /\ p = Place(p.sec, p.pos)
      /\ ItemsBefore(p) \in Nat
  BY <1>1, <1>6, ValidFacts, ItemsBeforeIs DEF Valid, Place
<1>8. CASE direction = "forward"
  <2>1. streams[p.sec][p.pos + 1].unit \in Units
    <3>1. p.pos + 1 \in 1..Total(p.sec)
      <4>1. Total(p.sec) \in Nat /\ p.pos \in Nat
        BY <1>1, <1>7, BookTyped
      <4> QED
        BY <1>6, <1>8, <4>1
    <3>2. streams[p.sec][p.pos + 1] \in Entries
      BY <1>1, <1>7, <3>1, BookTyped
    <3> QED
      BY <3>2 DEF Entries
  <2>2. HandleOK(next) /\ next.to # "cursor"
    BY <1>6, <1>7, <1>8, <2>1 DEF HandleOK, UnitHandle
  <2>3. Anchor(next) = {p}
    BY <1>1, <1>6, <1>8, ResumeIs
  <2>4. ItemsBefore(FillFrom(next, p, 0)) = ItemsBefore(p)
    <3>1. SteppedTo(SteppedBack(p, 0), p, 0)
      BY <1>1, <1>6, SteppedBackIs
    <3>2. SteppedBack(p, 0) = p
      BY <3>1 DEF SteppedTo
    <3> QED
      BY <1>8, <3>2 DEF FillFrom
  <2>5. \A at \in Anchor(next) : TrailAt(ItemsBefore(FillFrom(next, at, 0)))
    BY <1>5, <1>6, <2>3, <2>4
  <2> QED
    BY <1>1, <1>2, <1>3, <2>2, <2>5, BeginKeeps
<1>9. CASE direction = "backward"
  <2>1. HandleOK(next) /\ next.to = "cursor"
    BY <1>6, <1>7, <1>9 DEF HandleOK, Cursor
  <2>2. Anchor(next) = {p}
    BY <1>6, <1>7, <1>9 DEF Anchor, Cursor
  <2>3. FillFrom(next, p, 0) = p
    BY <1>1, <1>6, <1>9, <2>1, FillFromIs
  <2>4. \A at \in Anchor(next) : TrailAt(ItemsBefore(FillFrom(next, at, 0)))
    BY <1>5, <1>6, <2>2, <2>3
  <2> QED
    BY <1>1, <1>2, <1>3, <2>1, <2>4, BeginKeeps
<1> QED
  BY <1>1, <1>8, <1>9 DEF BookOK

\* A row of the page in hand is the item next to the place.
LEMMA RowIs ==
  ASSUME BookOK, CallInv, pc \in {"rows", "failed"},
         NEW row, row = IF direction = "forward" THEN Head(fetched) ELSE Last(fetched)
  PROVE  /\ Valid(place) /\ row \in Entries /\ RowChars(row) \in Nat
         /\ direction = "forward" =>
              /\ place.pos < Total(place.sec) /\ row = streams[place.sec][place.pos + 1]
              /\ Flat[ItemsBefore(place) + 1] = Item(place.sec, row)
         /\ direction = "backward" =>
              /\ place.pos > 0 /\ row = streams[place.sec][place.pos]
              /\ Flat[ItemsBefore(place)] = Item(place.sec, row)
<1>1. Valid(place) /\ PageOK
  BY DEF CallInv, PlaceOK
<1>2. place.sec \in 1..Len(book) /\ place.pos \in Nat /\ Total(place.sec) \in Nat
  BY <1>1, ValidFacts
<1>3. CASE direction = "forward"
  <2>1. fetched \in Seq(Entries) /\ Len(fetched) \in Nat /\ Len(fetched) > 0 /\ row = fetched[1]
    BY <1>1, <1>3 DEF PageOK, IsPage
  <2>2. place.pos < Total(place.sec) /\ row = streams[place.sec][place.pos + 1]
    BY <1>1, <1>2, <1>3, <2>1 DEF PageOK, IsPage
  <2>3. place.pos + 1 \in 1..Total(place.sec)
    BY <1>2, <2>2
  <2>4. row \in Entries /\ RowChars(row) \in Nat
    BY <1>2, <2>2, <2>3, BookTyped DEF RowChars
  <2> QED
    BY <1>1, <1>3, <2>2, <2>4, ItemsBeforeIs
<1>4. CASE direction = "backward"
  <2>1. /\ fetched \in Seq(Entries) /\ Len(fetched) \in Nat /\ Len(fetched) > 0
        /\ row = fetched[Len(fetched)] /\ Len(fetched) <= place.pos
        /\ \A i \in 1..Len(fetched) : fetched[i] = streams[place.sec][place.pos - Len(fetched) + i]
    BY <1>1, <1>4 DEF PageOK, IsPage, Last
  <2>2. place.pos - Len(fetched) + Len(fetched) = place.pos /\ Len(fetched) \in 1..Len(fetched)
    BY <1>2, <2>1
  <2>3. place.pos > 0 /\ row = streams[place.sec][place.pos]
    <3>1. fetched[Len(fetched)] = streams[place.sec][place.pos - Len(fetched) + Len(fetched)]
      BY <2>1, <2>2
    <3>2. row = streams[place.sec][place.pos]
      BY <2>1, <2>2, <3>1
    <3> QED
      BY <1>2, <2>1, <3>2
  <2>4. place.pos \in 1..Total(place.sec)
    BY <1>1, <1>2, <2>3 DEF Valid
  <2>5. row \in Entries /\ RowChars(row) \in Nat
    BY <1>2, <2>3, <2>4, BookTyped DEF RowChars
  <2> QED
    BY <1>1, <1>4, <2>3, <2>5, ItemsBeforeIs
<1> QED
  BY <1>3, <1>4 DEF BookOK

\* Retry: the same call, from the same place.
LEMMA RetryKeeps ==
  ASSUME WalkInv, Retry
  PROVE  WalkInv'
<1>1. BookOK /\ pc = "failed" /\ book # <<>>
  BY DEF WalkInv, Retry
<1>2. CallInv
  BY <1>1 DEF WalkInv, InCall
<1> DEFINE row == IF direction = "forward" THEN Head(fetched) ELSE Last(fetched)
           max == IF RowChars(row) > MaxBatch THEN 0 ELSE RowChars(row)
<1>3. Begin(from, max, call.back)
  BY DEF Retry
<1>4. RowChars(row) \in Nat
  BY <1>1, <1>2, RowIs
<1>5. max \in Nat
  BY <1>4
<1>6. /\ call.back \in Nat /\ HandleOK(from) /\ (from.to = "cursor" => call.back = 0)
      /\ anchorAt \in Anchor(from) /\ TrailAt(Origin)
  BY <1>1, <1>2 DEF CallInv, CallOK, TrailOK, Reached
<1>7. \A at \in Anchor(from) : at = anchorAt
  BY <1>1, <1>6, AnchorIs
<1>8. \A at \in Anchor(from) : TrailAt(ItemsBefore(FillFrom(from, at, call.back)))
  BY <1>6, <1>7 DEF Origin
<1> HIDE DEF max
<1> QED
  BY <1>1, <1>3, <1>5, <1>6, <1>8, BeginKeeps

\* A call that answers: what it read joins what the walk returned.
LEMMA AnswerKeeps ==
  ASSUME WalkInv, InCall, pc \in {"head", "rows"}, Valid(place), NEW resume, Answer(resume),
         NextFrom(resume) = NextFrom(Resume(place)), NextFrom(resume) # NoNext => BudgetSpent
  PROVE  WalkInv'
<1>1. /\ UNCHANGED <<walk, from, call, anchorAt, place, fetched, answer>>
      /\ pc' = "answered" /\ next' = NextFrom(resume)
      /\ trail' = IF direction = "forward" THEN trail \o items ELSE items \o trail
  BY DEF Answer, NextFrom
<1>2. /\ UNCHANGED walk /\ UNCHANGED items /\ UNCHANGED banners /\ UNCHANGED anchor
      /\ book' = book /\ direction' = direction /\ streams' = streams
  BY <1>1 DEF answer, walk
<1>3. BookOK /\ CallInv /\ BookOK' /\ book # <<>>
  BY <1>2, SameBook DEF WalkInv, InCall
<1>4. CallOK'
  BY <1>1, <1>2, <1>3, SameBook DEF CallInv, CallOK
<1>5. PlaceOK'
  BY <1>1, <1>2, SameBook DEF PlaceOK
<1>6. Origin' = Origin
  BY <1>1, <1>2, SameBook DEF Origin
<1>7. ItemsBefore(place)' = ItemsBefore(place)
  BY <1>1, <1>2, SameBook
<1>8. ItemsOK'
  BY <1>1, <1>2, <1>3, <1>6, <1>7, SameBook DEF CallInv, ItemsOK
<1>9. BudgetOK'
  BY <1>1, <1>2, <1>3, SameBook DEF CallInv, BudgetOK
<1>10. MarksOK'
  <2>1. BannersOf(items)' = BannersOf(items)
    BY <1>2, SameParts
  <2>2. AnchorItem' = AnchorItem /\ Total(anchorAt.sec)' = Total(anchorAt.sec)
    BY <1>1, <1>2, SameBook DEF AnchorItem, Item, UnitItem
  <2> QED
    BY <1>1, <1>2, <1>3, <2>1, <2>2 DEF CallInv, MarksOK, ValuesOf, PlacesOf
<1>11. TrailOK'
  <2>1. TrailAt(Origin) /\ ItemsOK
    BY <1>3 DEF CallInv, TrailOK, Reached
  <2>2. PICK other \in 0..Len(Flat) :
          IF direction = "forward" THEN IsSlice(trail, other, Origin)
          ELSE IsSlice(trail, Origin, other)
    BY <2>1 DEF TrailAt
  <2>3. CASE direction = "forward"
    <3>1. IsSlice(trail', other, ItemsBefore(place))
      BY <1>1, <1>3, <2>1, <2>2, <2>3, SliceJoin DEF ItemsOK
    <3>2. IsSlice(trail, other, ItemsBefore(place))'
      BY <1>2, <1>7, <3>1, SameBook
    <3> QED
      BY <1>1, <1>2, <2>3, <3>2, SameBook DEF TrailOK, TrailAt, Reached
  <2>4. CASE direction # "forward"
    <3>1. IsSlice(trail', ItemsBefore(place), other)
      BY <1>1, <1>3, <2>1, <2>2, <2>4, SliceJoin DEF ItemsOK
    <3>2. IsSlice(trail, ItemsBefore(place), other)'
      BY <1>2, <1>7, <3>1, SameBook
    <3> QED
      BY <1>1, <1>2, <2>4, <3>2, SameBook DEF TrailOK, TrailAt, Reached
  <2> QED
    BY <2>3, <2>4
<1>12. NextOK'
  <2>1. NextFrom(Resume(place))' = NextFrom(Resume(place))
    BY <1>1, <1>2, SameParts
  <2>2. BudgetSpent' <=> BudgetSpent
    BY <1>1, <1>2, <1>7, SameBook DEF BudgetSpent
  <2> QED
    BY <1>1, <2>1, <2>2 DEF NextOK, NoNext
<1>13. PageOK'
  BY <1>1 DEF PageOK
<1>14. CallInv'
  BY <1>4, <1>5, <1>8, <1>9, <1>10, <1>11, <1>12, <1>13 DEF CallInv
<1> QED
  BY <1>1, <1>2, <1>3, <1>14 DEF WalkInv

\* Nothing but the place, the page and the point of the call changes.
LEMMA QuietStep ==
  ASSUME WalkInv, InCall, UNCHANGED <<walk, from, call, anchorAt, answer, next, trail>>,
         pc # "answered", pc' \in {"head", "rows", "failed"}, PlaceOK', PageOK',
         ItemsBefore(place)' = ItemsBefore(place)
  PROVE  WalkInv'
<1>1. /\ UNCHANGED walk /\ UNCHANGED items /\ UNCHANGED banners /\ UNCHANGED anchor
      /\ book' = book /\ direction' = direction /\ streams' = streams /\ trail' = trail
      /\ from' = from /\ call' = call /\ anchorAt' = anchorAt
  BY DEF answer, walk
<1>2. BookOK /\ CallInv /\ BookOK' /\ book # <<>>
  BY <1>1, SameBook DEF WalkInv, InCall
<1>3. CallOK'
  BY <1>1, <1>2, SameBook DEF CallInv, CallOK
<1>4. Origin' = Origin
  BY <1>1, SameBook DEF Origin
<1>5. ItemsOK'
  BY <1>1, <1>2, <1>4, SameBook DEF CallInv, ItemsOK
<1>6. BudgetOK'
  BY <1>1, <1>2, SameBook DEF CallInv, BudgetOK
<1>7. MarksOK'
  <2>1. BannersOf(items)' = BannersOf(items)
    BY <1>1, SameParts
  <2>2. AnchorItem' = AnchorItem /\ Total(anchorAt.sec)' = Total(anchorAt.sec)
    BY <1>1, SameBook DEF AnchorItem, Item, UnitItem
  <2> QED
    BY <1>1, <1>2, <2>1, <2>2 DEF CallInv, MarksOK, ValuesOf, PlacesOf
<1>8. TrailOK'
  <2>1. Reached = Origin /\ Reached' = Origin
    BY <1>4 DEF Reached
  <2>2. TrailAt(Reached)'
    BY <1>1, <1>2, <2>1, SameParts DEF CallInv, TrailOK
  <2> QED
    BY <2>2 DEF TrailOK
<1>9. CallInv'
  BY <1>3, <1>5, <1>6, <1>7, <1>8 DEF CallInv, NextOK
<1> QED
  BY <1>1, <1>2, <1>9 DEF WalkInv

\* A call that reached its limit has exactly the items asked for.
LEMMA LimitSpent ==
  ASSUME CallInv, LimitReached
  PROVE  BudgetSpent
<1>1. call.max \in Nat /\ call.back \in Nat
  BY DEF CallInv, CallOK
<1>2. Len(items) \in Nat
  BY DEF CallInv, ItemsOK, IsSlice
<1> QED
  BY <1>1, <1>2 DEF CallInv, BudgetOK, BudgetSpent, LimitReached, Limit

\* A call below its limit asks for at least one row.
LEMMA WantIs ==
  ASSUME CallInv, ~LimitReached
  PROVE  Want \in Nat /\ Want > 0
<1>1. call.max \in Nat /\ call.back \in Nat /\ FetchChunk \in Nat /\ FetchChunk > 0
  BY ReadAssumption DEF CallInv, CallOK
<1>2. Len(items) \in Nat
  BY DEF CallInv, ItemsOK, IsSlice
<1>3. CASE Limit = 0
  BY <1>1, <1>3 DEF Want
<1>4. CASE Limit # 0
  <2>1. Limit = call.back + 1 /\ Len(items) < Limit
    BY <1>1, <1>2, <1>4 DEF Limit, LimitReached
  <2>2. Limit - Len(items) \in Nat /\ Limit - Len(items) > 0
    BY <1>1, <1>2, <2>1
  <2> QED
    BY <1>1, <1>4, <2>2, MinOfTwo DEF Want
<1> QED
  BY <1>3, <1>4

\* A page that was fetched is a part of the stream.
LEMMA PageIs ==
  ASSUME NEW sec, Total(sec) \in Nat, streams[sec] \in Seq(Entries),
         NEW lo \in Nat, NEW end \in Nat, lo < end, end <= Total(sec),
         NEW page, page = SubSeq(streams[sec], lo + 1, end)
  PROVE  page # <<>> /\ Len(page) = end - lo /\ IsPage(page, sec, lo)
<1> DEFINE s == streams[sec]
<1>1. s \in Seq(Entries) /\ Total(sec) = Len(s)
  BY DEF Total
<1> HIDE DEF s
<1>2. page = SubSeq(s, lo + 1, end)
  BY DEF s
<1>3. /\ page \in Seq(Entries) /\ Len(page) = end - lo
      /\ \A i \in 1..end - lo : page[i] = s[lo + i]
  <2>1. lo + 1 \in 1..Len(s) /\ end \in lo + 1..Len(s)
    BY <1>1
  <2>2. end - lo \in Nat /\ \A i \in 1..end - lo : lo + i \in 1..Len(s)
    BY <2>1
  <2> DEFINE n == end - lo
             g == [i \in 1..n |-> s[lo + i]]
  <2>3. page = g
    BY <1>1, <1>2, <2>1
  <2>4. \A i \in 1..n : s[lo + i] \in Entries
    BY <1>1, <2>2
  <2>5. n \in Nat
    BY <2>2
  <2> HIDE DEF n
  <2>6. g \in Seq(Entries) /\ Len(g) = n /\ \A i \in 1..n : g[i] = s[lo + i]
    BY <2>4, <2>5
  <2> QED
    BY <2>3, <2>6 DEF n
<1> QED
  BY <1>1, <1>3 DEF IsPage, s

\* The counts of an answer are naturals.
LEMMA SumNat ==
  ASSUME BookOK, CallInv
  PROVE  SumChars(items) \in Nat /\ call.max \in Nat /\ Len(items) \in Nat /\ items \in Seq(ItemSet)
<1>1. CharsOK(items) /\ items \in Seq(ItemSet)
  BY SliceFacts DEF CallInv, ItemsOK, IsSlice
<1>2. PICK P : IsPartialSums(P, CharsOf(items), Len(items))
  BY <1>1, SumsExist
<1>3. SumChars(items) = P[Len(items)] /\ P \in [0..Len(items) -> Nat] /\ Len(items) \in Nat
  BY <1>1, <1>2, SumIs DEF IsPartialSums
<1> QED
  BY <1>1, <1>3 DEF CallInv, CallOK

\* ForwardHead: the limit, the end of a section or of the book, or a page.
LEMMA ForwardHeadKeeps ==
  ASSUME WalkInv, ForwardHead
  PROVE  WalkInv'
<1>1. BookOK /\ pc = "head" /\ direction = "forward" /\ book # <<>> /\ InCall
  BY DEF WalkInv, ForwardHead, InCall
<1>2. CallInv /\ Valid(place)
  BY <1>1 DEF WalkInv, CallInv, PlaceOK
<1>3. /\ place.sec \in 1..Len(book) /\ place.sec + 1 \in 1..Len(book) + 1
      /\ place.pos \in Nat /\ Total(place.sec) \in Nat
      /\ place.pos <= Total(place.sec) /\ streams[place.sec] \in Seq(Entries)
  BY <1>1, <1>2, ValidFacts, BookTyped
<1> DEFINE page == Slice(streams[place.sec], place.pos, Min({place.pos + Want, Total(place.sec)}))
           after == {Place(sec, 0) : sec \in NextNonEmpty(place.sec + 1)}
<1>4. CASE LimitReached
  <2>1. Answer(Resume(place))
    BY <1>1, <1>4 DEF ForwardHead, Resume
  <2>2. BudgetSpent
    BY <1>2, <1>4, LimitSpent
  <2> QED
    BY <1>1, <1>2, <2>1, <2>2, AnswerKeeps
<1>5. CASE ~LimitReached /\ place.pos < Total(place.sec)
  <2>1. Fetch(page)
    BY <1>1, <1>5 DEF ForwardHead
  <2>2. Want \in Nat /\ Want > 0
    BY <1>2, <1>5, WantIs
  <2> DEFINE end == Min({place.pos + Want, Total(place.sec)})
  <2>3. end \in Nat /\ place.pos < end /\ end <= Total(place.sec)
    BY <1>3, <1>5, <2>2, MinOfTwo
  <2> HIDE DEF end
  <2>4. page = SubSeq(streams[place.sec], place.pos + 1, end)
    BY DEF Slice, end
  <2>5. page # <<>> /\ IsPage(page, place.sec, place.pos)
    BY <1>3, <2>3, <2>4, PageIs
  <2> HIDE DEF page
  <2>6. UNCHANGED <<walk, from, call, anchorAt, place, answer, next, trail>> /\ pc' = "rows" /\ fetched' = page
    BY <2>1 DEF Fetch
  <2>7. UNCHANGED walk /\ UNCHANGED place /\ direction' = direction
    BY <2>6 DEF walk
  <2>8. PageOK'
    BY <1>1, <2>5, <2>6, <2>7, SameParts DEF PageOK
  <2>9. PlaceOK' /\ ItemsBefore(place)' = ItemsBefore(place)
    BY <1>2, <2>7, SameBook DEF PlaceOK
  <2> QED
    BY <1>1, <2>6, <2>8, <2>9, QuietStep
<1>6. CASE ~LimitReached /\ ~(place.pos < Total(place.sec))
  <2>1. ForwardNext(place) = after
    BY <1>6 DEF ForwardNext
  <2>2. IF after = {} THEN Answer({}) ELSE MoveTo(after)
    BY <1>1, <1>6 DEF ForwardHead
  <2> HIDE DEF after
  <2>3. CASE after = {}
    <3>1. Answer({}) /\ Resume(place) = {}
      BY <1>1, <2>1, <2>2, <2>3 DEF Resume
    <3>2. NextFrom({}) = NoNext
      BY DEF NextFrom
    <3> QED
      BY <1>1, <1>2, <3>1, <3>2, AnswerKeeps
  <2>4. CASE after # {}
    <3>1. PICK p : /\ ForwardNext(place) = {p} /\ Valid(p) /\ ItemsBefore(p) = ItemsBefore(place)
      BY <1>1, <1>2, <2>1, <2>4, ForwardNextIs
    <3>2. /\ UNCHANGED <<walk, from, call, anchorAt, answer, next, trail>>
          /\ pc' = "head" /\ place' = p
      BY <1>1, <2>1, <2>2, <2>4, <3>1 DEF MoveTo
    <3>3. UNCHANGED walk
      BY <3>2
    <3>4. PlaceOK' /\ ItemsBefore(place)' = ItemsBefore(place)
      BY <3>1, <3>2, <3>3, SameBook DEF PlaceOK
    <3>5. PageOK'
      BY <3>2 DEF PageOK
    <3> QED
      BY <1>1, <3>2, <3>4, <3>5, QuietStep
  <2> QED
    BY <2>3, <2>4
<1> QED
  BY <1>4, <1>5, <1>6

\* BackwardHead: the limit, the start of a section or of the book, a place past the end of a
\* section, or a page.
LEMMA BackwardHeadKeeps ==
  ASSUME WalkInv, BackwardHead
  PROVE  WalkInv'
<1>1. BookOK /\ pc = "head" /\ direction = "backward" /\ book # <<>> /\ InCall
  BY DEF WalkInv, BackwardHead, InCall
<1>2. CallInv
  BY <1>1 DEF WalkInv
<1>3. Valid(place) \/ (items = <<>> /\ PastEnd(place))
  BY <1>2 DEF CallInv, PlaceOK
<1>4. /\ place.sec \in 1..Len(book) /\ place.pos \in Nat /\ Total(place.sec) \in Nat
      /\ streams[place.sec] \in Seq(Entries)
      /\ Valid(place) => place.pos <= Total(place.sec)
      /\ PastEnd(place) => place.pos = Total(place.sec) + 1
  BY <1>1, <1>3, ValidFacts, PastEndIs, BookTyped DEF PastEnd
<1> DEFINE lo == IF Want > place.pos THEN 0 ELSE place.pos - Want
           page == Slice(streams[place.sec], lo, place.pos)
           end == Place(place.sec, Total(place.sec))
<1>5. CASE LimitReached
  <2>1. Answer(Resume(place))
    BY <1>1, <1>5 DEF BackwardHead, Resume
  <2>2. BudgetSpent
    BY <1>2, <1>5, LimitSpent
  <2>3. Valid(place)
    <3>1. call.back \in Nat
      BY <1>2 DEF CallInv, CallOK
    <3>2. items # <<>>
      BY <1>5, <3>1 DEF LimitReached, Limit
    <3> QED
      BY <1>3, <3>2
  <2> QED
    BY <1>1, <2>1, <2>2, <2>3, AnswerKeeps
<1>6. CASE ~LimitReached /\ place.pos = 0
  <2>1. Valid(place)
    BY <1>3, <1>4, <1>6
  <2>2. IF BackwardNext(place) = {} THEN Answer({}) ELSE MoveTo(BackwardNext(place))
    BY <1>1, <1>6 DEF BackwardHead
  <2>3. CASE BackwardNext(place) = {}
    <3>1. Answer({}) /\ Resume(place) = {}
      BY <1>1, <2>2, <2>3 DEF Resume
    <3>2. NextFrom({}) = NoNext
      BY DEF NextFrom
    <3> QED
      BY <1>1, <2>1, <3>1, <3>2, AnswerKeeps
  <2>4. CASE BackwardNext(place) # {}
    <3>1. PICK p : BackwardNext(place) = {p} /\ Valid(p) /\ ItemsBefore(p) = ItemsBefore(place)
      BY <1>1, <2>1, <2>4, BackwardNextIs
    <3>2. /\ UNCHANGED <<walk, from, call, anchorAt, answer, next, trail>>
          /\ pc' = "head" /\ place' = p
      BY <1>1, <2>2, <2>4, <3>1 DEF MoveTo
    <3>3. UNCHANGED walk
      BY <3>2
    <3>4. PlaceOK' /\ ItemsBefore(place)' = ItemsBefore(place)
      BY <3>1, <3>2, <3>3, SameBook DEF PlaceOK
    <3>5. PageOK'
      BY <3>2 DEF PageOK
    <3> QED
      BY <1>1, <3>2, <3>4, <3>5, QuietStep
  <2> QED
    BY <2>3, <2>4
<1>7. CASE ~LimitReached /\ place.pos # 0 /\ place.pos > Total(place.sec)
  <2>1. PastEnd(place)
    BY <1>3, <1>4, <1>7
  <2>2. MoveTo({end})
    BY <1>1, <1>7 DEF BackwardHead
  <2>3. Valid(end) /\ ItemsBefore(end) = ItemsBefore(place)
    BY <1>1, <2>1, PastEndIs
  <2> HIDE DEF end
  <2>4. /\ UNCHANGED <<walk, from, call, anchorAt, answer, next, trail>>
        /\ pc' = "head" /\ place' = end
    BY <1>1, <2>2 DEF MoveTo
  <2>5. UNCHANGED walk
    BY <2>4
  <2>6. PlaceOK' /\ ItemsBefore(place)' = ItemsBefore(place)
    BY <2>3, <2>4, <2>5, SameBook DEF PlaceOK
  <2>7. PageOK'
    BY <2>4 DEF PageOK
  <2> QED
    BY <1>1, <2>4, <2>6, <2>7, QuietStep
<1>8. CASE ~LimitReached /\ place.pos # 0 /\ ~(place.pos > Total(place.sec))
  <2>1. Valid(place)
    BY <1>3, <1>4, <1>8
  <2>2. Fetch(page)
    BY <1>1, <1>8 DEF BackwardHead
  <2>3. Want \in Nat /\ Want > 0
    BY <1>2, <1>8, WantIs
  <2>4. lo \in Nat /\ lo < place.pos /\ place.pos <= Total(place.sec)
    BY <1>4, <1>8, <2>3
  <2> HIDE DEF lo
  <2>5. page = SubSeq(streams[place.sec], lo + 1, place.pos)
    BY DEF Slice
  <2>6. page # <<>> /\ Len(page) = place.pos - lo /\ IsPage(page, place.sec, lo)
    BY <1>4, <2>4, <2>5, PageIs
  <2> HIDE DEF page
  <2>7. Len(page) <= place.pos /\ place.pos - Len(page) = lo
    BY <1>4, <2>4, <2>6
  <2>8. UNCHANGED <<walk, from, call, anchorAt, place, answer, next, trail>> /\ pc' = "rows" /\ fetched' = page
    BY <2>2 DEF Fetch
  <2>9. UNCHANGED walk /\ UNCHANGED place /\ direction' = direction
    BY <2>8 DEF walk
  <2>10. PageOK'
    <3>1. IsPage(page, place.sec, place.pos - Len(page))
      BY <2>6, <2>7
    <3>2. IsPage(fetched, place.sec, place.pos - Len(fetched))'
      BY <2>8, <2>9, <3>1, SameParts
    <3> QED
      BY <1>1, <2>6, <2>7, <2>8, <2>9, <3>2 DEF PageOK
  <2>11. PlaceOK' /\ ItemsBefore(place)' = ItemsBefore(place)
    BY <2>1, <2>9, SameBook DEF PlaceOK
  <2> QED
    BY <1>1, <2>8, <2>10, <2>11, QuietStep
<1> QED
  BY <1>5, <1>6, <1>7, <1>8

\* A call that took a row, or gave up on one.
LEMMA RowStep ==
  ASSUME WalkInv, InCall, pc = "rows", UNCHANGED <<walk, from, call, anchorAt, next, trail>>,
         pc' \in {"head", "rows", "failed"}, PlaceOK', PageOK', ItemsOK', BudgetOK', MarksOK'
  PROVE  WalkInv'
<1>1. /\ UNCHANGED walk /\ book' = book /\ trail' = trail
      /\ from' = from /\ call' = call /\ anchorAt' = anchorAt
  BY DEF walk
<1>2. BookOK /\ CallInv /\ BookOK' /\ book # <<>>
  BY <1>1, SameBook DEF WalkInv, InCall
<1>3. CallOK'
  BY <1>1, <1>2, SameBook DEF CallInv, CallOK
<1>4. Origin' = Origin
  BY <1>1, SameBook DEF Origin
<1>5. TrailOK'
  <2>1. Reached = Origin /\ Reached' = Origin
    BY <1>4 DEF Reached
  <2>2. TrailAt(Reached)'
    BY <1>1, <1>2, <2>1, SameParts DEF CallInv, TrailOK
  <2> QED
    BY <2>2 DEF TrailOK
<1>6. CallInv'
  BY <1>3, <1>5 DEF CallInv, NextOK
<1> QED
  BY <1>1, <1>2, <1>6 DEF WalkInv

\* The first item of a section is the one at its start.
LEMMA FirstIs ==
  ASSUME BookOK, NEW at, Valid(at), at.pos < Total(at.sec),
         NEW x, x = Item(at.sec, streams[at.sec][at.pos + 1])
  PROVE  x.sec = at.sec /\ x \in ItemSet /\ Chars(x) \in Nat /\ (IsFirst(x) <=> at.pos = 0)
<1>1. at.sec \in 1..Len(book) /\ at.pos \in Nat /\ Total(at.sec) \in Nat
  BY ValidFacts
<1>2. at.pos + 1 \in 1..Total(at.sec)
  BY <1>1
<1>3. x \in ItemSet /\ Chars(x) \in Nat
  BY <1>1, <1>2, BookTyped
<1>4. x.sec = at.sec
  BY DEF Item, UnitItem
<1>5. IsFirst(x) <=> x = Item(at.sec, streams[at.sec][1])
  BY <1>4 DEF IsFirst
<1>6. ASSUME IsFirst(x) PROVE at.pos = 0
  <2> DEFINE first == Place(at.sec, 0)
  <2>1. Valid(first) /\ first.pos < Total(first.sec) /\ first.sec = at.sec /\ first.pos = 0
    BY <1>1 DEF Valid, Place
  <2> HIDE DEF first
  <2>2. streams[first.sec][first.pos + 1] = streams[at.sec][1]
    BY <2>1
  <2>3. at = first
    BY <1>5, <1>6, <2>1, <2>2, SamePlace
  <2> QED
    BY <2>1, <2>3
<1>7. ASSUME at.pos = 0 PROVE IsFirst(x)
  <2>1. at.pos + 1 = 1
    BY <1>7
  <2> QED
    BY <1>5, <2>1
<1> QED
  BY <1>3, <1>4, <1>6, <1>7

\* A call takes the `from` item exactly at the place `from` names.
LEMMA AnchorTaken ==
  ASSUME BookOK, book # <<>>, CallInv, NEW at, Valid(at), at.pos < Total(at.sec),
         NEW x, x = Item(at.sec, streams[at.sec][at.pos + 1])
  PROVE  (call.back > 0 /\ anchorAt = at) <=>
         (call.back > 0 /\ anchorAt.pos < Total(anchorAt.sec) /\ x = AnchorItem)
<1>1. Valid(anchorAt)
  BY AnchorIs DEF CallInv, CallOK
<1>2. ASSUME anchorAt = at PROVE anchorAt.pos < Total(anchorAt.sec) /\ x = AnchorItem
  BY <1>2 DEF AnchorItem
<1>3. ASSUME anchorAt.pos < Total(anchorAt.sec), x = AnchorItem PROVE anchorAt = at
  BY <1>1, <1>3, SamePlace DEF AnchorItem
<1> QED
  BY <1>2, <1>3

\* An item is not in an answer before it is taken.
LEMMA NotYet ==
  ASSUME BookOK, NEW list \in Seq(ItemSet), NEW x \in ItemSet, NEW lo, NEW hi,
         IsSlice(Append(list, x), lo, hi) \/ IsSlice(<<x>> \o list, lo, hi)
  PROVE  PlacesOf(list, x) = {}
<1> SUFFICES ASSUME NEW j \in 1..Len(list), list[j] = x
             PROVE  FALSE
  BY DEF PlacesOf
<1>1. Len(list) \in Nat
  OBVIOUS
<1>2. CASE IsSlice(Append(list, x), lo, hi)
  <2> DEFINE longer == Append(list, x)
  <2>1. Len(longer) = Len(list) + 1 /\ longer[j] = x /\ longer[Len(list) + 1] = x
    OBVIOUS
  <2>2. \A a, b \in 1..Len(longer) : longer[a] = longer[b] => a = b
    BY <1>2, SliceFacts
  <2> HIDE DEF longer
  <2> QED
    BY <1>1, <2>1, <2>2
<1>3. CASE IsSlice(<<x>> \o list, lo, hi)
  <2> DEFINE longer == <<x>> \o list
  <2>1. Len(longer) = Len(list) + 1 /\ longer[j + 1] = x /\ longer[1] = x
    OBVIOUS
  <2>2. \A a, b \in 1..Len(longer) : longer[a] = longer[b] => a = b
    BY <1>3, SliceFacts
  <2> HIDE DEF longer
  <2> QED
    BY <1>1, <2>1, <2>2
<1> QED
  BY <1>2, <1>3

\* What the budget asks of an answer, when a row is taken.
LEMMA BudgetTakes ==
  ASSUME BookOK, CallInv, NEW x \in ItemSet, Chars(x) \in Nat, ~LimitReached,
         call.max = 0 \/ SumChars(items) + Chars(x) <= call.max,
         NEW longer, longer = Append(items, x) \/ longer = <<x>> \o items
  PROVE  IF call.max # 0 THEN SumChars(longer) <= call.max ELSE Len(longer) <= call.back + 1
<1>1. call.max \in Nat /\ call.back \in Nat
  BY DEF CallInv, CallOK
<1>2. CharsOK(items) /\ items \in Seq(ItemSet)
  <2>1. ItemsOK
    BY DEF CallInv
  <2> QED
    BY <2>1, SliceFacts DEF ItemsOK, IsSlice
<1>3. SumChars(longer) = SumChars(items) + Chars(x)
  BY <1>2, SumOfAppend, SumOfPrepend
<1>4. Len(longer) = Len(items) + 1 /\ Len(items) \in Nat
  BY <1>2
<1>5. CASE call.max # 0
  BY <1>3, <1>5
<1>6. CASE call.max = 0
  BY <1>1, <1>4, <1>6 DEF LimitReached, Limit
<1> QED
  BY <1>5, <1>6

\* Push: the answer grows forward by the item at its place.
LEMMA PushKeeps ==
  ASSUME WalkInv, InCall, pc = "rows", direction = "forward", ~LimitReached,
         call.max = 0 \/ SumChars(items) + RowChars(Head(fetched)) <= call.max,
         Push(Head(fetched))
  PROVE  WalkInv'
<1> DEFINE row == Head(fetched)
           x == Item(place.sec, row)
           n == Len(items)
<1>1. BookOK /\ CallInv /\ book # <<>>
  BY DEF WalkInv, InCall
<1>2. /\ Valid(place) /\ place.pos < Total(place.sec) /\ row = streams[place.sec][place.pos + 1]
      /\ Flat[ItemsBefore(place) + 1] = x
  BY <1>1, RowIs
<1>3. /\ UNCHANGED <<walk, from, call, anchorAt, next, trail>>
      /\ fetched' = Tail(fetched) /\ pc' = (IF fetched' = <<>> THEN "head" ELSE "rows")
      /\ items' = Append(items, x) /\ place' = Place(place.sec, place.pos + 1)
      /\ banners' = IF place.pos = 0 THEN Append(banners, [at |-> n, sec |-> place.sec]) ELSE banners
      /\ anchor' = IF call.back > 0 /\ anchorAt = place THEN {n} ELSE anchor
  BY DEF Push, Record, Took
<1>4. /\ UNCHANGED walk /\ direction' = direction /\ streams' = streams /\ from' = from
      /\ call' = call /\ anchorAt' = anchorAt
  BY <1>3 DEF walk
<1>5. x.sec = place.sec /\ x \in ItemSet /\ Chars(x) \in Nat /\ (IsFirst(x) <=> place.pos = 0)
  BY <1>1, <1>2, FirstIs
<1>6. /\ place.sec \in 1..Len(book) /\ place.pos \in Nat /\ Total(place.sec) \in Nat
      /\ ItemsBefore(place) \in Nat /\ ItemsBefore(place) < Len(Flat)
  BY <1>1, <1>2, ValidFacts, ItemsBeforeIs
<1> HIDE DEF x
<1>7. Valid(place') /\ ItemsBefore(place') = ItemsBefore(place) + 1
  <2> DEFINE after == Place(place.sec, place.pos + 1)
  <2>1. after.sec = place.sec /\ after.pos = place.pos + 1 /\ Valid(after)
    BY <1>2, <1>6 DEF Valid, Place
  <2> HIDE DEF after
  <2>2. ItemsBefore(after) = ItemsBefore(place) + 1
    BY <1>1, <1>2, <1>6, <2>1, ValidFacts
  <2> QED
    BY <1>3, <2>1, <2>2 DEF after
<1>8. PlaceOK' /\ ItemsBefore(place)' = ItemsBefore(place) + 1
  BY <1>4, <1>7, SameBook DEF PlaceOK
<1>9. PageOK'
  <2>1. IsPage(fetched, place.sec, place.pos) /\ fetched # <<>>
    BY <1>1 DEF CallInv, PageOK
  <2>2. IsPage(Tail(fetched), place.sec, place.pos + 1)
    <3>1. /\ fetched \in Seq(Entries) /\ Len(fetched) \in Nat /\ Len(fetched) > 0
          /\ Tail(fetched) \in Seq(Entries) /\ Len(Tail(fetched)) = Len(fetched) - 1
          /\ \A i \in 1..Len(fetched) - 1 : Tail(fetched)[i] = fetched[i + 1]
      BY <2>1 DEF IsPage
    <3>2. \A i \in 1..Len(fetched) - 1 :
            i + 1 \in 1..Len(fetched) /\ place.pos + (i + 1) = (place.pos + 1) + i
      BY <1>6, <3>1
    <3>3. \A i \in 1..Len(fetched) : fetched[i] = streams[place.sec][place.pos + i]
      BY <2>1 DEF IsPage
    <3>4. \A i \in 1..Len(fetched) - 1 :
            Tail(fetched)[i] = streams[place.sec][(place.pos + 1) + i]
      <4> TAKE i \in 1..Len(fetched) - 1
      <4>1. fetched[i + 1] = streams[place.sec][place.pos + (i + 1)]
        BY <3>2, <3>3
      <4> QED
        BY <3>1, <3>2, <4>1
    <3>5. (place.pos + 1) + (Len(fetched) - 1) <= Total(place.sec)
      BY <1>6, <2>1, <3>1 DEF IsPage
    <3> QED
      BY <3>1, <3>4, <3>5 DEF IsPage
  <2>3. place'.sec = place.sec /\ place'.pos = place.pos + 1
    BY <1>3 DEF Place
  <2>4. IsPage(fetched, place.sec, place.pos)'
    BY <1>3, <1>4, <2>2, <2>3, SameParts
  <2> QED
    BY <1>3, <1>4, <2>4 DEF PageOK
<1>10. IsSlice(items, Origin, ItemsBefore(place))
  BY <1>1 DEF CallInv, ItemsOK
<1>11. IsSlice(items', Origin, ItemsBefore(place) + 1) /\ items \in Seq(ItemSet)
  <2>1. items \in Seq(ItemSet)
    BY <1>10 DEF IsSlice
  <2>2. IsSlice(Append(items, x), Origin, ItemsBefore(place) + 1)
    BY <1>1, <1>2, <1>6, <1>10, SliceAppend
  <2> QED
    BY <1>3, <2>1, <2>2
<1>12. ItemsOK'
  <2>1. Origin' = Origin
    BY <1>4, SameBook DEF Origin
  <2>2. IsSlice(items, Origin, ItemsBefore(place))'
    BY <1>4, <1>8, <1>11, <2>1, SameBook
  <2> QED
    BY <1>4, <2>2 DEF ItemsOK
<1>13. BudgetOK'
  <2>1. RowChars(row) = Chars(x)
    BY DEF RowChars, x
  <2>2. IF call.max # 0 THEN SumChars(items') <= call.max ELSE Len(items') <= call.back + 1
    BY <1>1, <1>3, <1>5, <2>1, BudgetTakes
  <2>3. SumChars(items)' = SumChars(items')
    BY <1>4, SameBook
  <2> QED
    BY <1>4, <2>2, <2>3 DEF BudgetOK
<1>14. banners \in Seq(BannerSet) /\ ValuesOf(banners) = BannersOf(items)
  BY <1>1 DEF CallInv, MarksOK
<1>15. banners' \in Seq(BannerSet) /\ ValuesOf(banners') = BannersOf(items')
  <2>1. BannersOf(items') =
          BannersOf(items) \cup (IF IsFirst(x) THEN {[at |-> n, sec |-> x.sec]} ELSE {})
    BY <1>3, <1>5, <1>11, MarksAppend
  <2>2. CASE place.pos = 0
    <3> DEFINE b == [at |-> n, sec |-> place.sec]
    <3>1. b \in BannerSet
      <4>1. n \in Nat
        BY <1>11
      <4>2. place.sec \in Nat
        BY <1>6
      <4> QED
        BY <4>1, <4>2 DEF BannerSet
    <3> HIDE DEF b
    <3>2. banners' = Append(banners, b)
      BY <1>3, <2>2 DEF b
    <3>3. banners' \in Seq(BannerSet) /\ ValuesOf(banners') = ValuesOf(banners) \cup {b}
      BY <1>14, <3>1, <3>2, ValuesAppend
    <3> QED
      BY <1>5, <1>14, <2>1, <2>2, <3>3 DEF b
  <2>3. CASE place.pos # 0
    BY <1>3, <1>5, <1>14, <2>1, <2>3
  <2> QED
    BY <2>2, <2>3
<1> DEFINE A == call.back > 0 /\ anchorAt.pos < Total(anchorAt.sec)
<1>16. anchor' = IF A THEN PlacesOf(items', AnchorItem) ELSE {}
  <2>1. anchor = IF A THEN PlacesOf(items, AnchorItem) ELSE {}
    BY <1>1 DEF CallInv, MarksOK
  <2>2. (call.back > 0 /\ anchorAt = place) <=> (A /\ x = AnchorItem)
    BY <1>1, <1>2, AnchorTaken DEF x
  <2>3. PlacesOf(items', AnchorItem) =
          PlacesOf(items, AnchorItem) \cup (IF x = AnchorItem THEN {n} ELSE {})
    BY <1>3, <1>5, <1>11, MarksAppend
  <2>4. PlacesOf(items, x) = {}
    BY <1>1, <1>3, <1>5, <1>11, NotYet
  <2> HIDE DEF A, n
  <2>5. CASE A /\ x = AnchorItem
    BY <1>3, <2>2, <2>3, <2>4, <2>5
  <2>6. CASE ~(A /\ x = AnchorItem)
    BY <1>3, <2>1, <2>2, <2>3, <2>6
  <2> QED
    BY <2>5, <2>6
<1>17. MarksOK'
  <2>1. BannersOf(items)' = BannersOf(items')
    BY <1>4, SameParts
  <2>2. AnchorItem' = AnchorItem /\ Total(anchorAt.sec)' = Total(anchorAt.sec)
    BY <1>4, SameBook DEF AnchorItem, Item, UnitItem
  <2>3. PlacesOf(items, AnchorItem)' = PlacesOf(items', AnchorItem)
    BY <2>2 DEF PlacesOf
  <2>4. ValuesOf(banners)' = ValuesOf(banners')
    BY DEF ValuesOf
  <2>5. ValuesOf(banners)' = BannersOf(items)'
    BY <1>15, <2>1, <2>4
  <2>6. anchor' = IF (call.back > 0 /\ anchorAt.pos < Total(anchorAt.sec))'
                    THEN PlacesOf(items, AnchorItem)' ELSE {}
    BY <1>4, <1>16, <2>2, <2>3
  <2> HIDE DEF A
  <2> QED
    BY <1>15, <2>5, <2>6 DEF MarksOK
<1> QED
  BY <1>3, <1>8, <1>9, <1>12, <1>13, <1>17, RowStep

\* Unshift: the answer grows backward by the item before its place, and its marks move.
LEMMA UnshiftKeeps ==
  ASSUME WalkInv, InCall, pc = "rows", direction = "backward", ~LimitReached,
         call.max = 0 \/ SumChars(items) + RowChars(Last(fetched)) <= call.max,
         Unshift(Last(fetched))
  PROVE  WalkInv'
<1> DEFINE row == Last(fetched)
           at == Place(place.sec, place.pos - 1)
           x == Item(place.sec, row)
           up == [i \in 1..Len(banners) |-> [banners[i] EXCEPT !.at = @ + 1]]
<1>1. BookOK /\ CallInv /\ book # <<>> /\ direction # "forward"
  BY DEF WalkInv, InCall
<1>2. /\ Valid(place) /\ place.pos > 0 /\ row = streams[place.sec][place.pos]
      /\ Flat[ItemsBefore(place)] = x
  BY <1>1, RowIs
<1>3. /\ UNCHANGED <<walk, from, call, anchorAt, next, trail>>
      /\ fetched' = Front(fetched) /\ pc' = (IF fetched' = <<>> THEN "head" ELSE "rows")
      /\ items' = <<x>> \o items /\ place' = at
      /\ banners' = IF at.pos = 0 THEN Append(up, [at |-> 0, sec |-> at.sec]) ELSE up
      /\ anchor' = IF call.back > 0 /\ anchorAt = at THEN {0} ELSE {i + 1 : i \in anchor}
  BY DEF Unshift, Record, Took, Place
<1>4. /\ UNCHANGED walk /\ direction' = direction /\ streams' = streams /\ from' = from
      /\ call' = call /\ anchorAt' = anchorAt
  BY <1>3 DEF walk
<1>5. /\ place.sec \in 1..Len(book) /\ place.pos \in Nat /\ Total(place.sec) \in Nat
      /\ place.pos <= Total(place.sec)
      /\ ItemsBefore(place) \in Nat /\ ItemsBefore(place) = Before(place.sec) + place.pos
      /\ Before(place.sec) \in Nat
  BY <1>1, <1>2, ValidFacts, ItemsBeforeIs
<1>6. /\ at.sec = place.sec /\ at.pos = place.pos - 1 /\ at.pos + 1 = place.pos
      /\ at.pos < Total(at.sec) /\ Valid(at)
  BY <1>2, <1>5 DEF Valid, Place
<1> HIDE DEF at
<1>7. x = Item(at.sec, streams[at.sec][at.pos + 1])
  BY <1>2, <1>6
<1>8. ItemsBefore(at) = ItemsBefore(place) - 1 /\ ItemsBefore(place) > 0
  <2>1. ItemsBefore(at) = Before(at.sec) + at.pos
    BY <1>1, <1>6, ValidFacts
  <2> QED
    BY <1>2, <1>5, <1>6, <2>1
<1> HIDE DEF x
<1>9. x.sec = at.sec /\ x \in ItemSet /\ Chars(x) \in Nat /\ (IsFirst(x) <=> at.pos = 0)
  BY <1>1, <1>6, <1>7, FirstIs
<1>10. PlaceOK' /\ ItemsBefore(place)' = ItemsBefore(place) - 1
  BY <1>3, <1>4, <1>6, <1>8, SameBook DEF PlaceOK
<1>11. PageOK'
  <2>1. /\ IsPage(fetched, place.sec, place.pos - Len(fetched)) /\ fetched # <<>>
        /\ Len(fetched) <= place.pos
    BY <1>1 DEF CallInv, PageOK
  <2>2. fetched \in Seq(Entries) /\ Len(fetched) \in Nat /\ Len(fetched) > 0
    BY <2>1 DEF IsPage
  <2>3. /\ Front(fetched) \in Seq(Entries) /\ Len(Front(fetched)) = Len(fetched) - 1
        /\ \A i \in 1..Len(fetched) - 1 : Front(fetched)[i] = fetched[i]
    <3>1. Len(fetched) - 1 \in Nat /\ Front(fetched) = SubSeq(fetched, 1, Len(fetched) - 1)
      BY <2>2 DEF Front
    <3> DEFINE m == Len(fetched) - 1
               g == [i \in 1..m |-> fetched[i]]
    <3>2. m \in Nat /\ \A i \in 1..m : i \in 1..Len(fetched)
      BY <2>2
    <3>3. Front(fetched) = g
      BY <2>2, <3>1, <3>2
    <3>4. \A i \in 1..m : fetched[i] \in Entries
      BY <2>2, <3>2
    <3> HIDE DEF m
    <3>5. g \in Seq(Entries) /\ Len(g) = m /\ \A i \in 1..m : g[i] = fetched[i]
      BY <3>2, <3>4
    <3> QED
      BY <3>3, <3>5 DEF m
  <2>4. place.pos - Len(fetched) = at.pos - Len(Front(fetched)) /\ Len(Front(fetched)) <= at.pos
    BY <1>5, <1>6, <2>1, <2>2, <2>3
  <2>5. IsPage(Front(fetched), place.sec, place.pos - Len(fetched))
    <3>1. \A i \in 1..Len(fetched) - 1 : i \in 1..Len(fetched)
      BY <2>2
    <3>2. (place.pos - Len(fetched)) + Len(Front(fetched)) <= Total(place.sec)
      BY <1>5, <2>2, <2>3
    <3> QED
      BY <2>1, <2>3, <3>1, <3>2 DEF IsPage
  <2>6. IsPage(Front(fetched), at.sec, at.pos - Len(Front(fetched)))
    BY <1>6, <2>4, <2>5
  <2>7. IsPage(fetched, place.sec, place.pos - Len(fetched))'
    BY <1>3, <1>4, <2>6, SameParts
  <2>8. Len(fetched') <= place'.pos
    BY <1>3, <2>4
  <2> QED
    BY <1>1, <1>3, <1>4, <2>7, <2>8 DEF PageOK
<1>12. IsSlice(items, ItemsBefore(place), Origin)
  BY <1>1 DEF CallInv, ItemsOK
<1>13. IsSlice(items', ItemsBefore(place) - 1, Origin) /\ items \in Seq(ItemSet)
  <2>1. items \in Seq(ItemSet)
    BY <1>12 DEF IsSlice
  <2>2. IsSlice(<<x>> \o items, ItemsBefore(place) - 1, Origin)
    BY <1>1, <1>2, <1>8, <1>12, SlicePrepend
  <2> QED
    BY <1>3, <2>1, <2>2
<1>14. ItemsOK'
  <2>1. Origin' = Origin
    BY <1>4, SameBook DEF Origin
  <2>2. IsSlice(items, ItemsBefore(place), Origin)'
    BY <1>4, <1>10, <1>13, <2>1, SameBook
  <2> QED
    BY <1>1, <1>4, <2>2 DEF ItemsOK
<1>15. BudgetOK'
  <2>1. RowChars(row) = Chars(x)
    BY DEF RowChars, x
  <2>2. IF call.max # 0 THEN SumChars(items') <= call.max ELSE Len(items') <= call.back + 1
    BY <1>1, <1>3, <1>9, <2>1, BudgetTakes
  <2>3. SumChars(items)' = SumChars(items')
    BY <1>4, SameBook
  <2> QED
    BY <1>4, <2>2, <2>3 DEF BudgetOK
<1>16. banners \in Seq(BannerSet) /\ ValuesOf(banners) = BannersOf(items)
  BY <1>1 DEF CallInv, MarksOK
<1>17. banners' \in Seq(BannerSet) /\ ValuesOf(banners') = BannersOf(items')
  <2> HIDE DEF up
  <2>1. BannersOf(items') = {[b EXCEPT !.at = @ + 1] : b \in BannersOf(items)} \cup
                            (IF IsFirst(x) THEN {[at |-> 0, sec |-> x.sec]} ELSE {})
    BY <1>3, <1>9, <1>13, MarksPrepend
  <2>2. up \in Seq(BannerSet) /\ ValuesOf(up) = {[b EXCEPT !.at = @ + 1] : b \in ValuesOf(banners)}
    BY <1>16, ValuesShift DEF up
  <2> DEFINE moved == {[b EXCEPT !.at = @ + 1] : b \in BannersOf(items)}
  <2>3. ValuesOf(up) = moved
    BY <1>16, <2>2
  <2>4. BannersOf(items') = moved \cup (IF IsFirst(x) THEN {[at |-> 0, sec |-> x.sec]} ELSE {})
    BY <2>1
  <2> HIDE DEF moved
  <2>5. CASE at.pos = 0
    <3> DEFINE b == [at |-> 0, sec |-> at.sec]
    <3>1. b \in BannerSet
      BY <1>5, <1>6 DEF BannerSet
    <3> HIDE DEF b
    <3>2. banners' = Append(up, b)
      BY <1>3, <2>5 DEF b
    <3>3. banners' \in Seq(BannerSet) /\ ValuesOf(banners') = ValuesOf(up) \cup {b}
      BY <2>2, <3>1, <3>2, ValuesAppend
    <3> QED
      BY <1>9, <2>3, <2>4, <2>5, <3>3 DEF b
  <2>6. CASE at.pos # 0
    BY <1>3, <1>9, <2>2, <2>3, <2>4, <2>6
  <2> QED
    BY <2>5, <2>6
<1> DEFINE A == call.back > 0 /\ anchorAt.pos < Total(anchorAt.sec)
<1>18. anchor' = IF A THEN PlacesOf(items', AnchorItem) ELSE {}
  <2>1. anchor = IF A THEN PlacesOf(items, AnchorItem) ELSE {}
    BY <1>1 DEF CallInv, MarksOK
  <2>2. (call.back > 0 /\ anchorAt = at) <=> (A /\ x = AnchorItem)
    BY <1>1, <1>6, <1>7, AnchorTaken
  <2>3. PlacesOf(items', AnchorItem) =
          {i + 1 : i \in PlacesOf(items, AnchorItem)} \cup (IF x = AnchorItem THEN {0} ELSE {})
    BY <1>3, <1>9, <1>13, MarksPrepend
  <2>4. PlacesOf(items, x) = {}
    BY <1>1, <1>3, <1>9, <1>13, NotYet
  <2> HIDE DEF A
  <2>5. CASE A /\ x = AnchorItem
    BY <1>3, <2>2, <2>3, <2>4, <2>5
  <2>6. CASE ~(A /\ x = AnchorItem)
    BY <1>3, <2>1, <2>2, <2>3, <2>6
  <2> QED
    BY <2>5, <2>6
<1>19. MarksOK'
  <2>1. BannersOf(items)' = BannersOf(items')
    BY <1>4, SameParts
  <2>2. AnchorItem' = AnchorItem /\ Total(anchorAt.sec)' = Total(anchorAt.sec)
    BY <1>4, SameBook DEF AnchorItem, Item, UnitItem
  <2>3. PlacesOf(items, AnchorItem)' = PlacesOf(items', AnchorItem)
    BY <2>2 DEF PlacesOf
  <2>4. ValuesOf(banners)' = ValuesOf(banners')
    BY DEF ValuesOf
  <2>5. ValuesOf(banners)' = BannersOf(items)'
    BY <1>17, <2>1, <2>4
  <2>6. anchor' = IF (call.back > 0 /\ anchorAt.pos < Total(anchorAt.sec))'
                    THEN PlacesOf(items, AnchorItem)' ELSE {}
    BY <1>4, <1>18, <2>2, <2>3
  <2> HIDE DEF A
  <2> QED
    BY <1>17, <2>5, <2>6 DEF MarksOK
<1> QED
  BY <1>3, <1>10, <1>11, <1>14, <1>15, <1>19, RowStep

\* Fail: the item alone is over the budget, and nothing else changes.
LEMMA FailKeeps ==
  ASSUME WalkInv, InCall, pc = "rows", Fail
  PROVE  WalkInv'
<1>1. CallInv /\ Valid(place)
  BY DEF WalkInv, CallInv, PlaceOK
<1>2. /\ UNCHANGED <<walk, from, call, anchorAt, place, fetched, answer, next, trail>>
      /\ pc' = "failed"
  BY DEF Fail
<1>3. UNCHANGED walk /\ direction' = direction
  BY <1>2 DEF walk
<1>4. PlaceOK' /\ ItemsBefore(place)' = ItemsBefore(place)
  BY <1>1, <1>2, <1>3, SameBook DEF PlaceOK
<1>5. PageOK'
  <2>1. PageOK
    BY <1>1 DEF CallInv
  <2> QED
    BY <1>2, <1>3, <2>1, SameParts DEF PageOK
<1> QED
  BY <1>2, <1>4, <1>5, QuietStep

\* ForwardRow: the limit, an item too long, a spent budget, or the row.
LEMMA ForwardRowKeeps ==
  ASSUME WalkInv, ForwardRow
  PROVE  WalkInv'
<1>1. BookOK /\ pc = "rows" /\ direction = "forward" /\ book # <<>> /\ InCall
  BY DEF WalkInv, ForwardRow, InCall
<1> DEFINE row == Head(fetched)
<1>2. CallInv /\ Valid(place)
  BY <1>1 DEF WalkInv, CallInv, PlaceOK
<1>3. RowChars(row) \in Nat /\ Flat[ItemsBefore(place) + 1] = Item(place.sec, row)
  BY <1>1, <1>2, RowIs
<1>4. CASE LimitReached
  <2>1. Answer(Resume(place))
    BY <1>1, <1>4 DEF ForwardRow, Resume
  <2> QED
    BY <1>1, <1>2, <1>4, <2>1, LimitSpent, AnswerKeeps
<1>5. CASE ~LimitReached /\ TooLong(row)
  <2>1. Fail
    BY <1>1, <1>5 DEF ForwardRow
  <2> QED
    BY <1>1, <2>1, FailKeeps
<1>6. CASE ~LimitReached /\ ~TooLong(row) /\ OverBudget(row)
  <2>1. Answer(Resume(place))
    BY <1>1, <1>6 DEF ForwardRow, Resume
  <2>2. BudgetSpent
    BY <1>1, <1>3, <1>6 DEF BudgetSpent, OverBudget, RowChars
  <2> QED
    BY <1>1, <1>2, <2>1, <2>2, AnswerKeeps
<1>7. CASE ~LimitReached /\ ~TooLong(row) /\ ~OverBudget(row)
  <2>1. Push(row)
    BY <1>1, <1>7 DEF ForwardRow
  <2>2. call.max = 0 \/ SumChars(items) + RowChars(row) <= call.max
    BY <1>1, <1>2, <1>3, <1>7, SumNat DEF OverBudget
  <2> QED
    BY <1>1, <1>7, <2>1, <2>2, PushKeeps
<1> QED
  BY <1>4, <1>5, <1>6, <1>7

\* BackwardRow: the same, from the end of the page.
LEMMA BackwardRowKeeps ==
  ASSUME WalkInv, BackwardRow
  PROVE  WalkInv'
<1>1. BookOK /\ pc = "rows" /\ direction = "backward" /\ book # <<>> /\ InCall
  BY DEF WalkInv, BackwardRow, InCall
<1> DEFINE row == Last(fetched)
<1>2. CallInv /\ Valid(place)
  BY <1>1 DEF WalkInv, CallInv, PlaceOK
<1>3. RowChars(row) \in Nat /\ Flat[ItemsBefore(place)] = Item(place.sec, row)
  BY <1>1, <1>2, RowIs
<1>4. CASE LimitReached
  <2>1. Answer(Resume(place))
    BY <1>1, <1>4 DEF BackwardRow, Resume
  <2> QED
    BY <1>1, <1>2, <1>4, <2>1, LimitSpent, AnswerKeeps
<1>5. CASE ~LimitReached /\ TooLong(row)
  <2>1. Fail
    BY <1>1, <1>5 DEF BackwardRow
  <2> QED
    BY <1>1, <2>1, FailKeeps
<1>6. CASE ~LimitReached /\ ~TooLong(row) /\ OverBudget(row)
  <2>1. Answer(Resume(place))
    BY <1>1, <1>6 DEF BackwardRow, Resume
  <2>2. BudgetSpent
    BY <1>1, <1>3, <1>6 DEF BudgetSpent, OverBudget, RowChars
  <2> QED
    BY <1>1, <1>2, <2>1, <2>2, AnswerKeeps
<1>7. CASE ~LimitReached /\ ~TooLong(row) /\ ~OverBudget(row)
  <2>1. Unshift(row)
    BY <1>1, <1>7 DEF BackwardRow
  <2>2. call.max = 0 \/ SumChars(items) + RowChars(row) <= call.max
    BY <1>1, <1>2, <1>3, <1>7, SumNat DEF OverBudget
  <2> QED
    BY <1>1, <1>7, <2>1, <2>2, UnshiftKeeps
<1> QED
  BY <1>4, <1>5, <1>6, <1>7

\* A walk that was not started.
LEMMA InitHolds == WalkInit => WalkInv
<1> SUFFICES ASSUME WalkInit PROVE WalkInv
  OBVIOUS
<1>1. BookOK
  BY DEF WalkInit, BookOK
<1> QED
  BY <1>1 DEF WalkInit, WalkInv, InCall

\* Every step, by its action.
LEMMA StepKeeps == WalkInv /\ [WalkNext]_walkVars => WalkInv'
<1> SUFFICES ASSUME WalkInv, [WalkNext]_walkVars PROVE WalkInv'
  OBVIOUS
<1>1. CASE WalkNext
  BY <1>1, FirstCallKeeps, FollowKeeps, ForwardHeadKeeps, BackwardHeadKeeps, ForwardRowKeeps,
     BackwardRowKeeps, RetryKeeps DEF WalkNext
<1>2. CASE UNCHANGED walkVars
  <2>1. /\ UNCHANGED walk /\ UNCHANGED <<from, pc, call, anchorAt, place, fetched, next, trail>>
        /\ items' = items /\ banners' = banners /\ anchor' = anchor
        /\ book' = book /\ streams' = streams /\ direction' = direction
    BY <1>2 DEF walkVars, walk, answer
  <2>2. CallOK => CallOK'
    BY <2>1, SameBook DEF CallOK
  <2>3. PlaceOK => PlaceOK'
    BY <2>1, SameBook, SameParts DEF PlaceOK
  <2>4. PageOK => PageOK'
    BY <2>1, SameParts DEF PageOK
  <2>5. Origin' = Origin /\ ItemsBefore(place)' = ItemsBefore(place)
    BY <2>1, SameBook DEF Origin
  <2>6. ItemsOK => ItemsOK'
    BY <2>1, <2>5, SameBook DEF ItemsOK
  <2>7. BudgetOK => BudgetOK'
    BY <2>1, SameBook DEF BudgetOK
  <2>8. MarksOK => MarksOK'
    <3>1. BannersOf(items)' = BannersOf(items)
      BY <2>1, SameParts
    <3>2. AnchorItem' = AnchorItem /\ Total(anchorAt.sec)' = Total(anchorAt.sec)
      BY <2>1, SameBook DEF AnchorItem, Item, UnitItem
    <3> QED
      BY <2>1, <3>1, <3>2 DEF MarksOK, ValuesOf, PlacesOf
  <2>9. TrailOK => TrailOK'
    BY <2>1, <2>5, SameParts DEF TrailOK, Reached
  <2>10. NextOK => NextOK'
    <3>1. NextFrom(Resume(place))' = NextFrom(Resume(place))
      BY <2>1, SameParts
    <3>2. BudgetSpent' <=> BudgetSpent
      BY <2>1, <2>5, SameBook DEF BudgetSpent
    <3> QED
      BY <2>1, <3>1, <3>2 DEF NextOK, NoNext
  <2>11. CallInv => CallInv'
    BY <2>2, <2>3, <2>4, <2>6, <2>7, <2>8, <2>9, <2>10 DEF CallInv
  <2> QED
    BY <2>1, <2>11, SameBook DEF WalkInv, InCall
<1> QED
  BY <1>1, <1>2

\* The invariant holds throughout.
LEMMA Inductive == WalkSpec => []WalkInv
BY InitHolds, StepKeeps, PTL DEF WalkSpec

-----------------------------------------------------------------------------
(* What every answer is *)

\* What the invariant says of an answer.
LEMMA AtAnAnswer ==
  ASSUME WalkInv, pc = "answered", book # <<>>
  PROVE  /\ BookOK /\ CallInv /\ Valid(place) /\ Valid(anchorAt)
         /\ call.max \in Nat /\ call.back \in Nat /\ direction \in {"forward", "backward"}
         /\ TrailAt(ItemsBefore(place))
<1>1. BookOK /\ CallInv
  BY DEF WalkInv, InCall
<1>2. Valid(place) /\ TrailAt(ItemsBefore(place))
  BY <1>1 DEF CallInv, PlaceOK, TrailOK, Reached
<1>3. Valid(anchorAt)
  BY <1>1, AnchorIs DEF CallInv, CallOK
<1> QED
  BY <1>1, <1>2, <1>3 DEF CallInv, CallOK, BookOK

\* Every answer is a run of the book in reading order, and starts or ends where its call says:
\* Fill::forward and Fill::backward skip nothing and repeat nothing, over sections without items
\* and the ends of the book.
THEOREM AnswersAreRuns == WalkSpec => []AnswersRun
<1>1. WalkInv => AnswersRun
  <2> SUFFICES ASSUME WalkInv, pc = "answered", book # <<>> PROVE AnswersRun
    BY DEF AnswersRun
  <2> DEFINE named == ItemsBefore(anchorAt)
             start == IF call.back > named THEN 0 ELSE named - call.back
             cursor == call.back = 0 /\ from.to = "cursor"
             counts == call.back > 0 \/ anchorAt.pos < Total(anchorAt.sec)
             stop == IF cursor THEN start
                     ELSE IF counts THEN Min({start + 1, Len(Flat)}) ELSE start
             n == Len(items)
  <2>1. /\ BookOK /\ Valid(place) /\ Valid(anchorAt) /\ call.back \in Nat
        /\ direction \in {"forward", "backward"} /\ ItemsOK /\ (from.to = "cursor" => call.back = 0)
    BY AtAnAnswer DEF CallInv, CallOK
  <2>2. named \in Nat /\ named <= Len(Flat) /\ Len(Flat) \in Nat /\ start \in Nat /\ start <= named
    BY <2>1, ItemsBeforeIs, FlatIs
  <2>3. CASE direction = "forward"
    <3>1. Origin = start
      BY <2>1, <2>3, FillFromIs DEF Origin
    <3>2. IsRun(items, Flat, start + 1)
      BY <2>1, <2>3, <3>1, SliceFacts DEF ItemsOK
    <3> QED
      BY <2>3, <3>2 DEF AnswersRun
  <2>4. CASE direction = "backward"
    <3>1. IsSlice(items, ItemsBefore(place), Origin)
      BY <2>1, <2>4 DEF ItemsOK
    <3>2. /\ ItemsBefore(place) \in Nat /\ Origin \in Nat /\ n \in Nat
          /\ n = Origin - ItemsBefore(place) /\ Origin <= Len(Flat)
      BY <3>1 DEF IsSlice
    <3>3. n <= Origin /\ Origin - n = ItemsBefore(place)
      BY <3>2
    <3>4. IsRun(items, Flat, Origin - n + 1)
      BY <2>1, <3>1, <3>3, SliceFacts
    <3>5. ASSUME stop = Origin PROVE n <= stop /\ IsRun(items, Flat, stop - n + 1)
      BY <3>3, <3>4, <3>5
    <3>6. CASE from.to = "cursor"
      <4>1. Origin = named /\ call.back = 0
        BY <2>1, <2>4, <3>6, FillFromIs DEF Origin
      <4>2. stop = Origin
        BY <2>2, <3>6, <4>1
      <4> QED
        BY <2>4, <3>5, <4>2 DEF AnswersRun
    <3>7. CASE from.to # "cursor"
      <4>1. \/ Origin = start + 1 /\ counts
            \/ Origin = start /\ ~counts
            \/ call.back > 0 /\ Origin = 0 /\ start = 0
        BY <2>1, <2>2, <2>4, <3>7, FillFromIs DEF Origin
      <4>2. stop = IF counts THEN Min({start + 1, Len(Flat)}) ELSE start
        BY <3>7
      <4>3. start + 1 <= Len(Flat) => Min({start + 1, Len(Flat)}) = start + 1
        BY <2>2, MinOfTwo
      <4>4. Min({start + 1, Len(Flat)}) \in Nat
        BY <2>2, MinOfTwo
      <4>5. CASE Origin = start + 1 /\ counts
        <5>1. stop = Origin
          BY <3>2, <4>2, <4>3, <4>5
        <5> QED
          BY <2>4, <3>5, <5>1 DEF AnswersRun
      <4>6. CASE Origin = start /\ ~counts
        <5>1. stop = Origin
          BY <4>2, <4>6
        <5> QED
          BY <2>4, <3>5, <5>1 DEF AnswersRun
      <4>7. CASE call.back > 0 /\ Origin = 0 /\ start = 0
        <5>1. n = 0 /\ items = <<>>
          BY <3>1, <3>2, <4>7 DEF IsSlice
        <5>2. stop \in Nat
          BY <2>2, <4>2, <4>4
        <5> HIDE DEF stop
        <5>3. stop - n + 1 = stop + 1
          BY <5>1, <5>2
        <5>4. SubSeq(Flat, stop + 1, stop) = <<>>
          BY <2>1, <5>2, FlatIs
        <5>5. IsRun(items, Flat, stop - n + 1) /\ n <= stop
          BY <5>1, <5>2, <5>3, <5>4 DEF IsRun
        <5> QED
          BY <2>4, <5>5 DEF AnswersRun, stop
      <4> QED
        BY <4>1, <4>5, <4>6, <4>7
    <3> QED
      BY <3>6, <3>7
  <2> QED
    BY <2>1, <2>3, <2>4
<1> QED
  BY <1>1, Inductive, PTL

\* Following `next` to the end, or back to the start, returns every item from the first on exactly
\* once and in order, over any number of calls, budgets and retries.
THEOREM WalksAreExact == WalkSpec => []WalkIsExact
<1>1. WalkInv => WalkIsExact
  <2> SUFFICES ASSUME WalkInv, pc = "answered", trail # <<>> PROVE WalkIsExact
    BY DEF WalkIsExact
  <2>1. book # <<>>
    BY DEF WalkInv
  <2>2. /\ BookOK /\ Valid(place) /\ direction \in {"forward", "backward"}
        /\ TrailAt(ItemsBefore(place)) /\ next = NextFrom(Resume(place))
    BY <2>1, AtAnAnswer DEF CallInv, NextOK
  <2> DEFINE e == ItemsBefore(place)
             n == Len(trail)
             Exact(first) ==
               LET last == first + n - 1
               IN  /\ last <= Len(Flat) /\ IsRun(trail, Flat, first)
                   /\ IF direction = "forward"
                        THEN next = IF last = Len(Flat) THEN NoNext
                                    ELSE UnitHandle(Flat[last + 1].sec, Flat[last + 1].unit)
                        ELSE IF first = 1 THEN next = NoNext
                             ELSE next.to = "cursor" /\ next.pos > 0 /\ ItemsBefore(next) = first - 1
  <2>3. SUFFICES \E first \in 1..Len(Flat) : Exact(first)
    BY DEF WalkIsExact
  <2>4. e \in Nat /\ Len(Flat) \in Nat /\ e <= Len(Flat)
    BY <2>2, ItemsBeforeIs, FlatIs
  <2>5. PICK other \in 0..Len(Flat) :
          IF direction = "forward" THEN IsSlice(trail, other, e) ELSE IsSlice(trail, e, other)
    BY <2>2 DEF TrailAt
  <2>6. \/ next = NoNext /\ e = IF direction = "forward" THEN Len(Flat) ELSE 0
        \/ \E p : /\ Valid(p) /\ ItemsBefore(p) = e /\ next # NoNext
                  /\ direction = "forward" =>
                       p.pos < Total(p.sec) /\ next = UnitHandle(p.sec, streams[p.sec][p.pos + 1].unit)
                  /\ direction = "backward" => p.pos > 0 /\ next = Cursor(p.sec, p.pos)
    BY <2>2, NextIs
  <2>7. CASE direction = "forward"
    <3>1. IsSlice(trail, other, e)
      BY <2>5, <2>7
    <3>2. n \in Nat /\ n = e - other /\ n > 0 /\ other \in Nat /\ other < e
      BY <2>4, <3>1 DEF IsSlice
    <3>3. IsRun(trail, Flat, other + 1)
      BY <2>2, <3>1, SliceFacts
    <3>4. other + 1 \in 1..Len(Flat) /\ (other + 1) + n - 1 = e
      BY <2>4, <3>2
    <3>5. next = IF e = Len(Flat) THEN NoNext ELSE UnitHandle(Flat[e + 1].sec, Flat[e + 1].unit)
      <4>1. CASE next = NoNext /\ e = Len(Flat)
        BY <4>1
      <4>2. ASSUME NEW p, Valid(p), ItemsBefore(p) = e, p.pos < Total(p.sec),
                   next = UnitHandle(p.sec, streams[p.sec][p.pos + 1].unit)
            PROVE  e # Len(Flat) /\ next = UnitHandle(Flat[e + 1].sec, Flat[e + 1].unit)
        <5>1. e < Len(Flat) /\ Flat[e + 1] = Item(p.sec, streams[p.sec][p.pos + 1])
          BY <2>2, <4>2, ItemsBeforeIs
        <5>2. Flat[e + 1].sec = p.sec /\ Flat[e + 1].unit = streams[p.sec][p.pos + 1].unit
          BY <5>1 DEF Item, UnitItem
        <5> QED
          BY <2>4, <4>2, <5>1, <5>2
      <4> QED
        BY <2>6, <2>7, <4>1, <4>2
    <3> HIDE DEF e, n
    <3>6. Exact(other + 1)
      BY <2>4, <2>7, <3>3, <3>4, <3>5
    <3> QED
      BY <3>4, <3>6
  <2>8. CASE direction = "backward"
    <3>1. IsSlice(trail, e, other)
      BY <2>5, <2>8
    <3>2. n \in Nat /\ n = other - e /\ n > 0 /\ other \in Nat /\ e < other /\ other <= Len(Flat)
      BY <2>4, <3>1 DEF IsSlice
    <3>3. IsRun(trail, Flat, e + 1)
      BY <2>2, <3>1, SliceFacts
    <3>4. e + 1 \in 1..Len(Flat) /\ (e + 1) + n - 1 = other /\ (e + 1) - 1 = e
      BY <2>4, <3>2
    <3>5. IF e + 1 = 1 THEN next = NoNext
          ELSE next.to = "cursor" /\ next.pos > 0 /\ ItemsBefore(next) = e
      <4>1. CASE next = NoNext /\ e = 0
        BY <4>1
      <4>2. ASSUME NEW p, Valid(p), ItemsBefore(p) = e, p.pos > 0, next = Cursor(p.sec, p.pos)
            PROVE  e # 0 /\ next.to = "cursor" /\ next.pos > 0 /\ ItemsBefore(next) = e
        <5>1. e > 0
          BY <2>2, <4>2, ValidFacts
        <5>2. next.to = "cursor" /\ next.sec = p.sec /\ next.pos = p.pos
          BY <4>2 DEF Cursor
        <5>3. ItemsBefore(next) = ItemsBefore(p)
          BY <5>2 DEF ItemsBefore
        <5> QED
          BY <4>2, <5>1, <5>2, <5>3
      <4>3. e + 1 = 1 <=> e = 0
        BY <2>4
      <4> QED
        BY <2>6, <2>8, <4>1, <4>2, <4>3
    <3> HIDE DEF e, n
    <3>6. Exact(e + 1)
      BY <2>8, <3>2, <3>3, <3>4, <3>5
    <3> QED
      BY <3>4, <3>6
  <2> QED
    BY <2>2, <2>7, <2>8
<1> QED
  BY <1>1, Inductive, PTL

\* A batch keeps to max_chars and stops early only before an item that would not fit, whatever
\* the lengths of the items; without max_chars it has back + 1 items unless the book ends.
THEOREM BudgetsAreHonoured == WalkSpec => []BudgetHonoured
<1>1. WalkInv => BudgetHonoured
  <2> SUFFICES ASSUME WalkInv, pc = "answered", book # <<>> PROVE BudgetHonoured
    BY DEF BudgetHonoured
  <2>1. BookOK /\ CallInv
    BY AtAnAnswer
  <2>2. BudgetOK /\ (next # NoNext => BudgetSpent)
    BY <2>1 DEF CallInv, NextOK
  <2> QED
    BY <2>2 DEF BudgetHonoured, BudgetOK, BudgetSpent
<1> QED
  BY <1>1, Inductive, PTL

\* The marks of an answer are right wherever it starts and stops: a banner at the first item of
\* each section, moved with it when backward rows come before it, and `anchor` at the `from` item.
THEOREM MarksAreRight == WalkSpec => []MarksRight
<1>1. WalkInv => MarksRight
  <2> SUFFICES ASSUME WalkInv, pc = "answered", book # <<>> PROVE MarksRight
    BY DEF MarksRight
  <2>1. MarksOK /\ call.back \in Nat
    BY AtAnAnswer DEF CallInv
  <2>2. {banners[i] : i \in 1..Len(banners)} =
          {[at |-> i - 1, sec |-> items[i].sec] :
             i \in {j \in 1..Len(items) : items[j] = Item(items[j].sec, streams[items[j].sec][1])}}
    BY <2>1 DEF MarksOK, ValuesOf, BannersOf, IsFirst
  <2>3. anchor = IF call.back = 0 THEN {}
                 ELSE {i - 1 : i \in {j \in 1..Len(items) :
                         /\ anchorAt.pos < Total(anchorAt.sec)
                         /\ items[j] = Item(anchorAt.sec, streams[anchorAt.sec][anchorAt.pos + 1])}}
    <3>1. anchor = IF call.back > 0 /\ anchorAt.pos < Total(anchorAt.sec)
                     THEN {i - 1 : i \in {j \in 1..Len(items) :
                             items[j] = Item(anchorAt.sec, streams[anchorAt.sec][anchorAt.pos + 1])}}
                     ELSE {}
      BY <2>1 DEF MarksOK, PlacesOf, AnchorItem
    <3>2. call.back = 0 <=> ~(call.back > 0)
      BY <2>1
    <3>3. CASE anchorAt.pos < Total(anchorAt.sec)
      BY <3>1, <3>2, <3>3
    <3>4. CASE ~(anchorAt.pos < Total(anchorAt.sec))
      BY <3>1, <3>2, <3>4
    <3> QED
      BY <3>3, <3>4
  <2> QED
    BY <2>2, <2>3 DEF MarksRight
<1> QED
  BY <1>1, Inductive, PTL
==============================================================================
