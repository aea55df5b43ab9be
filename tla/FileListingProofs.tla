------------------------- MODULE FileListingProofs -------------------------
(***************************************************************************)
(* Proofs about list_documents and list_directory, for every disk, every   *)
(* set of roots, every order of calls and of changes. The pages the client *)
(* reads are one listing (ListInv). What the listing has is what the disk  *)
(* had (ExactInv): a directory or a name that is still to be read stands   *)
(* for what is in its scope below it, so everything that was there all     *)
(* along was found or is ahead of the scan.                                *)
(***************************************************************************)
EXTENDS FileListing, StreamLemmas, FiniteSetTheorems

-----------------------------------------------------------------------------
(* The order of paths *)

\* The paths differ at n first, where one of them ends or has the smaller name.
DifferAt(path, other, n) ==
  /\ n \in 1..Len(other) /\ n <= Len(path) + 1
  /\ \A k \in 1..n - 1 : path[k] = other[k]
  /\ n <= Len(path) => path[n] < other[n]

\* The prefixes of a path.
LEMMA PrefixIs ==
  ASSUME NEW path \in Paths, NEW n \in 0..Len(path)
  PROVE  /\ SubSeq(path, 1, n) \in Paths /\ Len(SubSeq(path, 1, n)) = n
         /\ \A k \in 1..n : SubSeq(path, 1, n)[k] = path[k]
<1>1. \A i \in 1..n : path[i] \in Int
  BY DEF Paths
<1>2. n \in Int /\ 1 \in Int /\ Len(path) \in Nat
  BY DEF Paths
<1>3. /\ SubSeq(path, 1, n) \in Seq(Int)
      /\ Len(SubSeq(path, 1, n)) = IF 1 <= n THEN n - 1 + 1 ELSE 0
      /\ \A i \in 1..n - 1 + 1 : SubSeq(path, 1, n)[i] = path[1 + i - 1]
  BY <1>1, <1>2, SubSeqProperties
<1> QED
  BY <1>2, <1>3 DEF Paths

\* Prefixes are equal when the names are.
LEMMA PrefixesEqual ==
  ASSUME NEW path \in Paths, NEW other \in Paths, NEW n \in 0..Len(path), n <= Len(other)
  PROVE  SubSeq(path, 1, n) = SubSeq(other, 1, n) <=> \A k \in 1..n : path[k] = other[k]
<1>1. n \in 0..Len(other) /\ n \in Nat
  BY DEF Paths
<1>2. /\ SubSeq(path, 1, n) \in Paths /\ Len(SubSeq(path, 1, n)) = n
      /\ \A k \in 1..n : SubSeq(path, 1, n)[k] = path[k]
  BY PrefixIs
<1>3. /\ SubSeq(other, 1, n) \in Paths /\ Len(SubSeq(other, 1, n)) = n
      /\ \A k \in 1..n : SubSeq(other, 1, n)[k] = other[k]
  BY <1>1, PrefixIs
<1>4. ASSUME \A k \in 1..n : path[k] = other[k] PROVE SubSeq(path, 1, n) = SubSeq(other, 1, n)
  BY <1>2, <1>3, <1>4, SeqEqual DEF Paths
<1>5. ASSUME SubSeq(path, 1, n) = SubSeq(other, 1, n), NEW k \in 1..n PROVE path[k] = other[k]
  BY <1>2, <1>3, <1>5
<1> QED
  BY <1>4, <1>5

\* A prefix agrees with the path as far as it goes.
LEMMA IsPrefixIs ==
  ASSUME NEW path \in Paths, NEW other \in Paths
  PROVE  IsPrefix(path, other) <=> Len(path) <= Len(other) /\ \A k \in 1..Len(path) : path[k] = other[k]
<1>1. Len(path) \in 0..Len(path)
  BY DEF Paths
<1> QED
  BY <1>1, PrefixesEqual DEF IsPrefix

\* PathBefore compares two paths where they differ first.
LEMMA PathBeforeIs ==
  ASSUME NEW path \in Paths, NEW other \in Paths
  PROVE  PathBefore(path, other) <=> \E n \in Nat : DifferAt(path, other, n)
<1>0. Len(path) \in Nat /\ Len(other) \in Nat
  BY DEF Paths
<1>1. CASE IsPrefix(path, other)
  <2>1. Len(path) <= Len(other) /\ \A k \in 1..Len(path) : path[k] = other[k]
    BY <1>1, IsPrefixIs
  <2>2. PathBefore(path, other) <=> path # other
    BY <1>1 DEF PathBefore
  <2>3. ASSUME path # other PROVE DifferAt(path, other, Len(path) + 1)
    <3>1. Len(path) # Len(other)
      BY <2>1, <2>3, SeqEqual DEF Paths
    <3> QED
      BY <1>0, <2>1, <3>1 DEF DifferAt
  <2>4. ASSUME NEW n \in Nat, DifferAt(path, other, n) PROVE path # other
    <3>1. SUFFICES ASSUME path = other PROVE FALSE
      OBVIOUS
    <3>2. n \in 1..Len(path) /\ path[n] < path[n] /\ path[n] \in Int
      BY <1>0, <2>4, <3>1 DEF DifferAt, Paths
    <3> QED
      BY <3>2
  <2> QED
    BY <1>0, <2>2, <2>3, <2>4
<1>2. CASE ~IsPrefix(path, other)
  <2>1. PathBefore(path, other) <=>
          \E n \in 1..Len(path) : n <= Len(other) /\ path[n] < other[n] /\ SubSeq(path, 1, n - 1) = SubSeq(other, 1, n - 1)
    BY <1>2 DEF PathBefore
  <2>2. ASSUME NEW n \in 1..Len(path), n <= Len(other)
        PROVE  SubSeq(path, 1, n - 1) = SubSeq(other, 1, n - 1) <=> \A k \in 1..n - 1 : path[k] = other[k]
    <3>1. n - 1 \in 0..Len(path) /\ n - 1 <= Len(other)
      BY <1>0, <2>2
    <3> QED
      BY <3>1, PrefixesEqual
  <2>3. ASSUME NEW n \in Nat, DifferAt(path, other, n) PROVE n \in 1..Len(path)
    <3>1. n # Len(path) + 1
      <4>1. SUFFICES ASSUME n = Len(path) + 1 PROVE FALSE
        OBVIOUS
      <4>2. Len(path) <= Len(other) /\ \A k \in 1..Len(path) : path[k] = other[k]
        BY <1>0, <2>3, <4>1 DEF DifferAt
      <4> QED
        BY <1>2, <4>2, IsPrefixIs
    <3> QED
      BY <1>0, <2>3, <3>1 DEF DifferAt
  <2>4. ASSUME PathBefore(path, other) PROVE \E n \in Nat : DifferAt(path, other, n)
    <3>1. PICK n \in 1..Len(path) : /\ n <= Len(other) /\ path[n] < other[n]
                                    /\ SubSeq(path, 1, n - 1) = SubSeq(other, 1, n - 1)
      BY <2>1, <2>4
    <3>2. DifferAt(path, other, n) /\ n \in Nat
      BY <1>0, <2>2, <3>1 DEF DifferAt
    <3> QED
      BY <3>2
  <2>5. ASSUME NEW n \in Nat, DifferAt(path, other, n) PROVE PathBefore(path, other)
    <3>1. n \in 1..Len(path) /\ n <= Len(other) /\ path[n] < other[n] /\ \A k \in 1..n - 1 : path[k] = other[k]
      BY <1>0, <2>3, <2>5 DEF DifferAt
    <3>2. SubSeq(path, 1, n - 1) = SubSeq(other, 1, n - 1)
      BY <2>2, <3>1
    <3> QED
      BY <2>1, <3>1, <3>2
  <2> QED
    BY <2>4, <2>5
<1> QED
  BY <1>1, <1>2

\* PathBefore is a strict total order of paths.
LEMMA PathBeforeIrreflexive ==
  ASSUME NEW path \in Paths
  PROVE  ~PathBefore(path, path)
<1>1. \A n \in Nat : DifferAt(path, path, n) => n \in 1..Len(path) /\ path[n] < path[n]
  BY DEF DifferAt, Paths
<1>2. \A n \in 1..Len(path) : path[n] \in Int
  BY DEF Paths
<1>3. \A n \in 1..Len(path) : ~(path[n] < path[n])
  BY <1>2
<1> QED
  BY <1>1, <1>3, PathBeforeIs

LEMMA PathBeforeTransitive ==
  ASSUME NEW a \in Paths, NEW b \in Paths, NEW c \in Paths, PathBefore(a, b), PathBefore(b, c)
  PROVE  PathBefore(a, c)
<1>0. Len(a) \in Nat /\ Len(b) \in Nat /\ Len(c) \in Nat
  BY DEF Paths
<1>1. PICK n \in Nat : DifferAt(a, b, n)
  BY PathBeforeIs
<1>2. PICK m \in Nat : DifferAt(b, c, m)
  BY PathBeforeIs
<1>3. CASE n < m
  <2>1. n \in 1..Len(c) /\ n <= Len(a) + 1
    BY <1>0, <1>1, <1>2, <1>3 DEF DifferAt
  <2>2. \A k \in 1..n : b[k] = c[k]
    BY <1>2, <1>3 DEF DifferAt
  <2>3. \A k \in 1..n - 1 : a[k] = c[k]
    BY <1>1, <2>2 DEF DifferAt
  <2>4. n <= Len(a) => a[n] < c[n]
    BY <1>1, <2>1, <2>2 DEF DifferAt
  <2>5. DifferAt(a, c, n)
    BY <2>1, <2>3, <2>4 DEF DifferAt
  <2> QED
    BY <2>5, PathBeforeIs
<1>4. CASE n = m
  <2>1. n \in 1..Len(c) /\ n <= Len(a) + 1 /\ n \in 1..Len(b)
    BY <1>0, <1>1, <1>2, <1>4 DEF DifferAt
  <2>2. \A k \in 1..n - 1 : a[k] = c[k]
    BY <1>1, <1>2, <1>4 DEF DifferAt
  <2>3. ASSUME n <= Len(a) PROVE a[n] < c[n]
    <3>1. a[n] < b[n] /\ b[n] < c[n]
      BY <1>0, <1>1, <1>2, <1>4, <2>1, <2>3 DEF DifferAt
    <3>2. a[n] \in Int /\ b[n] \in Int /\ c[n] \in Int
      BY <1>0, <2>1, <2>3 DEF Paths
    <3> QED
      BY <3>1, <3>2
  <2>4. DifferAt(a, c, n)
    BY <2>1, <2>2, <2>3 DEF DifferAt
  <2> QED
    BY <2>4, PathBeforeIs
<1>5. CASE m < n
  <2>1. m \in 1..Len(c) /\ m <= Len(a) /\ m <= Len(b)
    BY <1>0, <1>1, <1>2, <1>5 DEF DifferAt
  <2>2. \A k \in 1..m : a[k] = b[k]
    BY <1>1, <1>5 DEF DifferAt
  <2>3. \A k \in 1..m - 1 : a[k] = c[k]
    BY <1>2, <2>2 DEF DifferAt
  <2>4. a[m] < c[m]
    BY <1>2, <2>1, <2>2 DEF DifferAt
  <2>5. DifferAt(a, c, m)
    BY <1>0, <2>1, <2>3, <2>4 DEF DifferAt
  <2> QED
    BY <2>5, PathBeforeIs
<1> QED
  BY <1>3, <1>4, <1>5

LEMMA PathBeforeTotal ==
  ASSUME NEW a \in Paths, NEW b \in Paths, a # b
  PROVE  PathBefore(a, b) \/ PathBefore(b, a)
<1>0. Len(a) \in Nat /\ Len(b) \in Nat
  BY DEF Paths
<1> DEFINE T == {n \in Nat : /\ n >= 1 /\ n <= Len(a) + 1 /\ n <= Len(b) + 1
                             /\ n <= Len(a) /\ n <= Len(b) => a[n] # b[n]}
<1>1. T # {}
  <2>1. CASE Len(a) <= Len(b)
    <3>1. Len(a) + 1 \in T
      BY <1>0, <2>1
    <3> QED BY <3>1
  <2>2. CASE Len(b) <= Len(a)
    <3>1. Len(b) + 1 \in T
      BY <1>0, <2>2
    <3> QED BY <3>1
  <2> QED BY <1>0, <2>1, <2>2
<1>2. PICK n \in T : \A m \in T : n <= m
  <2>1. T \subseteq Nat
    OBVIOUS
  <2> HIDE DEF T
  <2> QED BY <1>1, <2>1, LeastNat
<1>3. n \in Nat /\ n >= 1 /\ n <= Len(a) + 1 /\ n <= Len(b) + 1 /\ (n <= Len(a) /\ n <= Len(b) => a[n] # b[n])
  OBVIOUS
<1>4. ASSUME NEW k \in 1..n - 1 PROVE a[k] = b[k]
  <2>1. k \in Nat /\ k >= 1 /\ k <= Len(a) /\ k <= Len(b) /\ ~(n <= k)
    BY <1>0, <1>3
  <2>2. k \notin T
    BY <1>2, <2>1
  <2> QED
    BY <1>0, <2>1, <2>2
<1> HIDE DEF T
<1>5. CASE n <= Len(a) /\ n <= Len(b)
  <2>1. a[n] \in Int /\ b[n] \in Int /\ a[n] # b[n]
    BY <1>3, <1>5 DEF Paths
  <2>2. DifferAt(a, b, n) \/ DifferAt(b, a, n)
    BY <1>0, <1>3, <1>4, <1>5, <2>1 DEF DifferAt
  <2> QED
    BY <1>3, <2>2, PathBeforeIs
<1>6. CASE n = Len(a) + 1 /\ n <= Len(b)
  <2>1. DifferAt(a, b, n)
    BY <1>0, <1>3, <1>4, <1>6 DEF DifferAt
  <2> QED
    BY <1>3, <2>1, PathBeforeIs
<1>7. CASE n <= Len(a) /\ n = Len(b) + 1
  <2>1. DifferAt(b, a, n)
    BY <1>0, <1>3, <1>4, <1>7 DEF DifferAt
  <2> QED
    BY <1>3, <2>1, PathBeforeIs
<1>8. CASE n = Len(a) + 1 /\ n = Len(b) + 1
  <2>1. Len(a) = Len(b) /\ \A i \in 1..Len(a) : a[i] = b[i]
    BY <1>0, <1>4, <1>8
  <2> QED
    BY <2>1, SeqEqual DEF Paths
<1> QED
  BY <1>0, <1>3, <1>5, <1>6, <1>7, <1>8

-----------------------------------------------------------------------------
(* Sorting *)

\* A strict order of S.
IsOrder(R, S) ==
  /\ \A x \in S : <<x, x>> \notin R
  /\ \A x, y, z \in S : <<x, y>> \in R /\ <<y, z>> \in R => <<x, z>> \in R
  /\ \A x, y \in S : x # y => <<x, y>> \in R \/ <<y, x>> \in R

BelowIn(R, S, x) == {y \in S : <<y, x>> \in R}

\* Who is before another has fewer before it.
LEMMA RankGrows ==
  ASSUME NEW S, IsFiniteSet(S), NEW R, IsOrder(R, S), NEW x \in S, NEW y \in S, <<x, y>> \in R
  PROVE  Cardinality(BelowIn(R, S, x)) < Cardinality(BelowIn(R, S, y))
<1>1. BelowIn(R, S, x) \subseteq BelowIn(R, S, y) /\ x \in BelowIn(R, S, y) /\ x \notin BelowIn(R, S, x)
  BY Zenon DEF IsOrder, BelowIn
<1>2. BelowIn(R, S, y) \subseteq S
  BY DEF BelowIn
<1>3. IsFiniteSet(BelowIn(R, S, y))
  BY <1>2, FS_Subset
<1>4. /\ IsFiniteSet(BelowIn(R, S, x)) /\ Cardinality(BelowIn(R, S, x)) <= Cardinality(BelowIn(R, S, y))
      /\ Cardinality(BelowIn(R, S, x)) # Cardinality(BelowIn(R, S, y))
  BY <1>1, <1>3, FS_Subset
<1>5. Cardinality(BelowIn(R, S, x)) \in Nat /\ Cardinality(BelowIn(R, S, y)) \in Nat
  BY <1>3, <1>4, FS_CardinalityType
<1> QED
  BY <1>4, <1>5

\* For every rank there is one with it.
LEMMA EveryRank ==
  ASSUME NEW S, IsFiniteSet(S), NEW R, IsOrder(R, S), NEW i \in 1..Cardinality(S)
  PROVE  \E x \in S : Cardinality(BelowIn(R, S, x)) = i - 1
<1> DEFINE n == Cardinality(S)
           f == [x \in S |-> Cardinality(BelowIn(R, S, x))]
<1>1. n \in Nat
  BY FS_CardinalityType
<1>2. ASSUME NEW x \in S PROVE Cardinality(BelowIn(R, S, x)) \in 0..n - 1
  <2>1. BelowIn(R, S, x) \subseteq S /\ x \notin BelowIn(R, S, x)
    BY Zenon DEF IsOrder, BelowIn
  <2>2. IsFiniteSet(BelowIn(R, S, x)) /\ Cardinality(BelowIn(R, S, x)) <= n /\ Cardinality(BelowIn(R, S, x)) # n
    BY <2>1, FS_Subset
  <2>3. Cardinality(BelowIn(R, S, x)) \in Nat
    BY <2>2, FS_CardinalityType
  <2> QED
    BY <1>1, <2>2, <2>3
<1>3. f \in [S -> 0..n - 1]
  BY <1>2
<1>4. \A x, y \in S : f[x] = f[y] => x = y
  <2>1. SUFFICES ASSUME NEW x \in S, NEW y \in S, x # y PROVE f[x] # f[y]
    OBVIOUS
  <2>2. <<x, y>> \in R \/ <<y, x>> \in R
    BY <2>1 DEF IsOrder
  <2>3. f[x] < f[y] \/ f[y] < f[x]
    BY <2>2, RankGrows
  <2>4. f[x] \in Int /\ f[y] \in Int
    BY <1>1, <1>3
  <2> HIDE DEF f
  <2> QED
    BY <2>3, <2>4
<1>5. f \in Injection(S, 0..n - 1)
  <2> HIDE DEF f
  <2> QED BY <1>3, <1>4 DEF Injection, IsInjective
<1>6. IsFiniteSet(0..n - 1) /\ Cardinality(0..n - 1) = n
  <2>1. n - 1 \in Int /\ n # 0
    BY <1>1
  <2> QED
    BY <1>1, <2>1, FS_Interval, n >= 1
<1>7. f \in Surjection(S, 0..n - 1)
  <2> HIDE DEF f
  <2> QED BY <1>5, <1>6, FS_Injection
<1>8. i - 1 \in 0..n - 1
  BY <1>1
<1>9. PICK x \in S : f[x] = i - 1
  <2> HIDE DEF f
  <2> QED BY <1>7, <1>8 DEF Surjection
<1> QED
  BY <1>9

\* What Ascending lists: every element once, in the order.
RunsThrough(a, R, S) ==
  /\ a \in Seq(S)
  /\ \A i, j \in 1..Len(a) : i < j => <<a[i], a[j]>> \in R
  /\ \A x \in S : \E i \in 1..Len(a) : a[i] = x

\* A list whose i-th item has i - 1 before it runs through the items in their order.
LEMMA RanksSort ==
  ASSUME NEW S, IsFiniteSet(S), NEW R, IsOrder(R, S), NEW a,
         a = [i \in 1..Cardinality(S) |-> a[i]],
         \A i \in 1..Cardinality(S) : a[i] = CHOOSE x \in S : Cardinality(BelowIn(R, S, x)) = i - 1
  PROVE  RunsThrough(a, R, S) /\ Len(a) = Cardinality(S)
<1>1. Cardinality(S) \in Nat
  BY FS_CardinalityType
<1>2. ASSUME NEW i \in 1..Cardinality(S) PROVE a[i] \in S /\ Cardinality(BelowIn(R, S, a[i])) = i - 1
  <2>1. \E x \in S : Cardinality(BelowIn(R, S, x)) = i - 1
    BY EveryRank
  <2>2. a[i] = CHOOSE x \in S : Cardinality(BelowIn(R, S, x)) = i - 1
    OBVIOUS
  <2> QED
    BY <2>1, <2>2
<1>3. a \in Seq(S) /\ Len(a) = Cardinality(S)
  BY <1>1, <1>2
<1>4. ASSUME NEW i \in 1..Len(a), NEW j \in 1..Len(a), i < j PROVE <<a[i], a[j]>> \in R
  <2>1. a[i] \in S /\ a[j] \in S /\ Cardinality(BelowIn(R, S, a[i])) = i - 1 /\ Cardinality(BelowIn(R, S, a[j])) = j - 1
    BY <1>2, <1>3
  <2>2. a[i] # a[j]
    BY <1>1, <1>3, <1>4, <2>1
  <2>3. <<a[j], a[i]>> \notin R
    <3>1. SUFFICES ASSUME <<a[j], a[i]>> \in R PROVE FALSE
      OBVIOUS
    <3>2. j - 1 < i - 1
      BY <2>1, <3>1, RankGrows
    <3> QED
      BY <1>1, <1>3, <1>4, <3>2
  <2> QED
    BY <2>1, <2>2, <2>3, Zenon DEF IsOrder
<1>5. ASSUME NEW x \in S PROVE \E i \in 1..Len(a) : a[i] = x
  <2> DEFINE f == [y \in S |-> Cardinality(BelowIn(R, S, y))]
  <2>1. BelowIn(R, S, x) \subseteq S /\ x \notin BelowIn(R, S, x)
    BY Zenon DEF IsOrder, BelowIn
  <2>2. /\ IsFiniteSet(BelowIn(R, S, x)) /\ Cardinality(BelowIn(R, S, x)) <= Cardinality(S)
        /\ Cardinality(BelowIn(R, S, x)) # Cardinality(S)
    BY <2>1, FS_Subset
  <2>3. Cardinality(BelowIn(R, S, x)) \in Nat
    BY <2>2, FS_CardinalityType
  <2>4. PICK i \in 1..Len(a) : i - 1 = Cardinality(BelowIn(R, S, x))
    <3> DEFINE k == Cardinality(BelowIn(R, S, x)) + 1
    <3>1. k \in 1..Len(a) /\ k - 1 = Cardinality(BelowIn(R, S, x))
      BY <1>1, <1>3, <2>2, <2>3
    <3> HIDE DEF k
    <3> QED
      BY <3>1
  <2>5. a[i] \in S /\ Cardinality(BelowIn(R, S, a[i])) = Cardinality(BelowIn(R, S, x))
    BY <1>2, <1>3, <2>4
  <2>6. a[i] = x
    <3>1. SUFFICES ASSUME a[i] # x PROVE FALSE
      OBVIOUS
    <3>2. <<a[i], x>> \in R \/ <<x, a[i]>> \in R
      BY <2>5, <3>1, Zenon DEF IsOrder
    <3>3. \/ Cardinality(BelowIn(R, S, a[i])) < Cardinality(BelowIn(R, S, x))
          \/ Cardinality(BelowIn(R, S, x)) < Cardinality(BelowIn(R, S, a[i]))
      BY <2>5, <3>2, RankGrows
    <3> QED
      BY <2>3, <2>5, <3>3
  <2> QED
    BY <2>6
<1> QED
  BY <1>3, <1>4, <1>5 DEF RunsThrough

\* OnePerPath of distinct paths.
OnePerPath(entries) ==
  /\ IsFiniteSet(entries)
  /\ \A entry \in entries : entry.path \in Paths
  /\ \A one, other \in entries : one.path = other.path => one = other

\* The pages are cut from the entries in the order of their paths.
LEMMA InPathOrderIs ==
  ASSUME NEW entries, OnePerPath(entries)
  PROVE  /\ InPathOrder(entries) \in Seq(entries)
         /\ \A i, j \in 1..Len(InPathOrder(entries)) :
              i < j => PathBefore(InPathOrder(entries)[i].path, InPathOrder(entries)[j].path)
         /\ \A entry \in entries : \E i \in 1..Len(InPathOrder(entries)) : InPathOrder(entries)[i] = entry
<1> DEFINE R == {pair \in entries \X entries : PathBefore(pair[1].path, pair[2].path)}
           a == InPathOrder(entries)
<1>1. \A x, y \in entries : <<x, y>> \in R <=> PathBefore(x.path, y.path)
  OBVIOUS
<1>2. IsOrder(R, entries)
  <2>1. \A x \in entries : <<x, x>> \notin R
    BY <1>1, PathBeforeIrreflexive DEF OnePerPath
  <2>2. ASSUME NEW x \in entries, NEW y \in entries, NEW z \in entries, <<x, y>> \in R, <<y, z>> \in R
        PROVE  <<x, z>> \in R
    <3>1. PathBefore(x.path, z.path)
      BY <1>1, <2>2, PathBeforeTransitive DEF OnePerPath
    <3> QED
      BY <1>1, <3>1
  <2>3. ASSUME NEW x \in entries, NEW y \in entries, x # y PROVE <<x, y>> \in R \/ <<y, x>> \in R
    <3>1. PathBefore(x.path, y.path) \/ PathBefore(y.path, x.path)
      BY <2>3, PathBeforeTotal DEF OnePerPath
    <3> QED
      BY <1>1, <3>1
  <2> HIDE DEF R
  <2> QED
    BY <2>1, <2>2, <2>3 DEF IsOrder
<1>3. \A x \in entries : BelowIn(R, entries, x) = {other \in entries : PathBefore(other.path, x.path)}
  BY <1>1 DEF BelowIn
<1>4. /\ a = [i \in 1..Cardinality(entries) |-> a[i]]
      /\ \A i \in 1..Cardinality(entries) : a[i] = CHOOSE x \in entries : Cardinality(BelowIn(R, entries, x)) = i - 1
  <2>1. a = [i \in 1..Cardinality(entries) |->
               CHOOSE x \in entries : Cardinality({other \in entries : PathBefore(other.path, x.path)}) = i - 1]
    BY DEF InPathOrder, Ascending
  <2>2. ASSUME NEW i
        PROVE  (CHOOSE x \in entries : Cardinality({other \in entries : PathBefore(other.path, x.path)}) = i - 1)
                 = CHOOSE x \in entries : Cardinality(BelowIn(R, entries, x)) = i - 1
    <3> HIDE DEF R
    <3> QED BY <1>3
  <2>3. ASSUME NEW i \in 1..Cardinality(entries)
        PROVE  a[i] = CHOOSE x \in entries : Cardinality({other \in entries : PathBefore(other.path, x.path)}) = i - 1
    <3> HIDE DEF a
    <3> QED BY ONLY <2>1, i \in 1..Cardinality(entries)
  <2>4. a = [i \in 1..Cardinality(entries) |-> a[i]]
    <3> DEFINE F(i) == CHOOSE x \in entries : Cardinality({other \in entries : PathBefore(other.path, x.path)}) = i - 1
    <3>1. a = [i \in 1..Cardinality(entries) |-> F(i)]
      BY <2>1
    <3> HIDE DEF F, a
    <3> QED BY <3>1
  <2>5. ASSUME NEW i \in 1..Cardinality(entries)
        PROVE  a[i] = CHOOSE x \in entries : Cardinality(BelowIn(R, entries, x)) = i - 1
    <3> HIDE DEF R, a
    <3> QED BY <2>2, <2>3
  <2> QED
    BY <2>4, <2>5
<1>5. IsFiniteSet(entries)
  BY DEF OnePerPath
<1>6. RunsThrough(a, R, entries)
  <2> HIDE DEF R, a
  <2> QED BY <1>2, <1>4, <1>5, RanksSort
<1>7. ASSUME NEW i \in 1..Len(a), NEW j \in 1..Len(a), i < j PROVE PathBefore(a[i].path, a[j].path)
  <2> HIDE DEF R, a
  <2>1. a \in Seq(entries) /\ <<a[i], a[j]>> \in R
    BY <1>6, <1>7 DEF RunsThrough
  <2>2. a[i] \in entries /\ a[j] \in entries
    BY <2>1, ElementOfSeq
  <2> QED
    BY <1>1, <2>1, <2>2
<1> HIDE DEF R
<1> QED
  BY <1>6, <1>7 DEF RunsThrough

\* RootsToRead lists the roots.
LEMMA RootsToReadIs ==
  ASSUME NEW roots, IsFiniteSet(roots), roots \subseteq Paths
  PROVE  /\ RootsToRead(roots) \in Seq(roots)
         /\ \A root \in roots : \E i \in 1..Len(RootsToRead(roots)) : RootsToRead(roots)[i] = root
<1> DEFINE R == {pair \in roots \X roots : PathBefore(pair[1], pair[2])}
           a == Ascending(roots, PathBefore)
<1>1. \A x, y \in roots : <<x, y>> \in R <=> PathBefore(x, y)
  OBVIOUS
<1>2. IsOrder(R, roots)
  <2>1. \A x \in roots : <<x, x>> \notin R
    BY <1>1, PathBeforeIrreflexive
  <2>2. ASSUME NEW x \in roots, NEW y \in roots, NEW z \in roots, <<x, y>> \in R, <<y, z>> \in R
        PROVE  <<x, z>> \in R
    <3>1. PathBefore(x, z)
      BY <1>1, <2>2, PathBeforeTransitive
    <3> QED
      BY <1>1, <3>1
  <2>3. ASSUME NEW x \in roots, NEW y \in roots, x # y PROVE <<x, y>> \in R \/ <<y, x>> \in R
    <3>1. PathBefore(x, y) \/ PathBefore(y, x)
      BY <2>3, PathBeforeTotal
    <3> QED
      BY <1>1, <3>1
  <2> HIDE DEF R
  <2> QED
    BY <2>1, <2>2, <2>3 DEF IsOrder
<1>3. \A x \in roots : BelowIn(R, roots, x) = {other \in roots : PathBefore(other, x)}
  BY <1>1 DEF BelowIn
<1>4. /\ a = [i \in 1..Cardinality(roots) |-> a[i]]
      /\ \A i \in 1..Cardinality(roots) : a[i] = CHOOSE x \in roots : Cardinality(BelowIn(R, roots, x)) = i - 1
  <2>1. a = [i \in 1..Cardinality(roots) |->
               CHOOSE x \in roots : Cardinality({other \in roots : PathBefore(other, x)}) = i - 1]
    BY DEF Ascending
  <2>2. ASSUME NEW i
        PROVE  (CHOOSE x \in roots : Cardinality({other \in roots : PathBefore(other, x)}) = i - 1)
                 = CHOOSE x \in roots : Cardinality(BelowIn(R, roots, x)) = i - 1
    <3> HIDE DEF R
    <3> QED BY <1>3
  <2>3. ASSUME NEW i \in 1..Cardinality(roots)
        PROVE  a[i] = CHOOSE x \in roots : Cardinality({other \in roots : PathBefore(other, x)}) = i - 1
    <3> HIDE DEF a
    <3> QED BY ONLY <2>1, i \in 1..Cardinality(roots)
  <2>4. a = [i \in 1..Cardinality(roots) |-> a[i]]
    <3> DEFINE F(i) == CHOOSE x \in roots : Cardinality({other \in roots : PathBefore(other, x)}) = i - 1
    <3>1. a = [i \in 1..Cardinality(roots) |-> F(i)]
      BY <2>1
    <3> HIDE DEF F, a
    <3> QED BY <3>1
  <2>5. ASSUME NEW i \in 1..Cardinality(roots)
        PROVE  a[i] = CHOOSE x \in roots : Cardinality(BelowIn(R, roots, x)) = i - 1
    <3> HIDE DEF R, a
    <3> QED BY <2>2, <2>3
  <2> QED
    BY <2>4, <2>5
<1>5. RunsThrough(a, R, roots)
  <2> HIDE DEF R, a
  <2> QED BY <1>2, <1>4, RanksSort
<1>6. /\ a \in Seq(roots)
      /\ \A root \in roots : \E i \in 1..Len(a) : a[i] = root
  <2> HIDE DEF R, a
  <2> QED BY <1>5 DEF RunsThrough
<1>7. RootsToRead(roots) = [i \in 1..Len(a) |-> a[(Len(a) - i) + 1]]
  BY DEF RootsToRead, Reverse
<1> HIDE DEF a
<1>8. Len(a) \in Nat /\ \A i \in 1..Len(a) : (Len(a) - i) + 1 \in 1..Len(a)
  BY <1>6
<1>9. \A i \in 1..Len(a) : a[(Len(a) - i) + 1] \in roots
  BY <1>6, <1>8
<1>10. RootsToRead(roots) \in Seq(roots) /\ Len(RootsToRead(roots)) = Len(a)
  BY <1>7, <1>8, <1>9
<1>11. ASSUME NEW root \in roots PROVE \E i \in 1..Len(RootsToRead(roots)) : RootsToRead(roots)[i] = root
  <2>1. PICK i \in 1..Len(a) : a[i] = root
    BY <1>6
  <2>2. (Len(a) - i) + 1 \in 1..Len(a) /\ (Len(a) - ((Len(a) - i) + 1)) + 1 = i
    BY <1>8
  <2>3. RootsToRead(roots)[(Len(a) - i) + 1] = a[(Len(a) - ((Len(a) - i) + 1)) + 1]
    BY <1>7, <2>2
  <2> QED
    BY <1>10, <2>1, <2>2, <2>3
<1> QED
  BY <1>10, <1>11

-----------------------------------------------------------------------------
(* What canonicalize answers *)

\* The next name after what the ones before it resolve to.
NextOf(path, before, n) ==
  LET next == Append(before, path[n])
      node == disk[next]
  IN  IF (n > 1 /\ before = Gone) \/ next \notin DOMAIN disk THEN Gone
      ELSE IF node.kind # "link" THEN next
      ELSE IF node.target \in DOMAIN disk THEN node.target ELSE Gone

IsResolved(to, path, m) ==
  to = [n \in 0..m |-> IF n = 0 THEN <<>> ELSE NextOf(path, to[n - 1], n)]

\* What canonicalize resolves name after name.
LEMMA ResolvedExists ==
  ASSUME NEW path, NEW m \in Nat
  PROVE  \E to : IsResolved(to, path, m)
<1> DEFINE T == {k \in 0..m : \E to : IsResolved(to, path, k)}
<1>1. 0 \in T
  <2>1. IsResolved([n \in 0..0 |-> <<>>], path, 0)
    BY DEF IsResolved
  <2> QED
    BY <2>1
<1>2. ASSUME NEW k \in 0..m, k < m, k \in T PROVE k + 1 \in T
  <2>1. PICK to : IsResolved(to, path, k)
    BY <1>2
  <2> DEFINE h == [n \in 0..k + 1 |-> IF n = k + 1 THEN NextOf(path, to[k], n) ELSE to[n]]
  <2>2. ASSUME NEW n \in 0..k + 1
        PROVE  h[n] = IF n = 0 THEN <<>> ELSE NextOf(path, h[n - 1], n)
    <3>1. CASE n = k + 1
      <4>1. n # 0 /\ n - 1 = k /\ k \in 0..k + 1 /\ k # k + 1
        BY <3>1
      <4>2. h[n] = NextOf(path, to[k], n) /\ h[k] = to[k]
        BY <3>1, <4>1
      <4> HIDE DEF h
      <4> QED
        BY <4>1, <4>2
    <3>2. CASE n # k + 1
      <4>1. n \in 0..k /\ (n # 0 => n - 1 \in 0..k + 1 /\ n - 1 # k + 1)
        BY <3>2
      <4>2. h[n] = to[n] /\ (n # 0 => h[n - 1] = to[n - 1])
        BY <3>2, <4>1
      <4>3. to[n] = IF n = 0 THEN <<>> ELSE NextOf(path, to[n - 1], n)
        BY <2>1, <4>1 DEF IsResolved
      <4> HIDE DEF h
      <4> QED
        BY <4>2, <4>3
    <3> QED
      BY <3>1, <3>2
  <2>3. IsResolved(h, path, k + 1)
    <3>1. h = [n \in 0..k + 1 |-> h[n]]
      OBVIOUS
    <3> HIDE DEF h
    <3> QED
      BY <2>2, <3>1 DEF IsResolved
  <2> QED
    BY <2>3, <1>2
<1>3. m \in T
  <2> HIDE DEF T
  <2> QED BY <1>1, <1>2, BoundedInduction
<1> QED
  BY <1>3

LEMMA CanonicalIs ==
  ASSUME NEW path \in Paths
  PROVE  \E to : IsResolved(to, path, Len(path)) /\ Canonical(path) = to[Len(path)]
<1> DEFINE c == CHOOSE to : IsResolved(to, path, Len(path))
<1>1. Len(path) \in Nat
  BY DEF Paths
<1>2. IsResolved(c, path, Len(path))
  BY <1>1, ResolvedExists
<1>3. Canonical(path) = c[Len(path)]
  BY DEF Canonical, IsResolved, NextOf
<1> QED
  BY <1>2, <1>3

\* It is in the disk, unless the path does not resolve.
LEMMA CanonicalThere ==
  ASSUME NEW path \in Paths, Canonical(path) # Gone
  PROVE  Canonical(path) \in DOMAIN disk
<1>1. PICK to : IsResolved(to, path, Len(path)) /\ Canonical(path) = to[Len(path)]
  BY CanonicalIs
<1>2. Len(path) \in 0..Len(path)
  BY DEF Paths
<1>3. to[Len(path)] = IF Len(path) = 0 THEN <<>> ELSE NextOf(path, to[Len(path) - 1], Len(path))
  BY <1>1, <1>2 DEF IsResolved
<1>4. Canonical(path) = NextOf(path, to[Len(path) - 1], Len(path))
  BY <1>1, <1>3 DEF Gone
<1> QED
  BY <1>4 DEF NextOf

\* The calls and the disk, in any order.
ListSpec == ListInit /\ [][ListNext]_listVars

\* What is found has one entry a path.
ListingShape ==
  /\ DOMAIN listing = {"stage", "roots", "path", "dirs", "batch", "found"}
  /\ listing.stage \in {"idle", "scanning"}
  /\ listing.dirs \in Seq(Paths)
  /\ \A name \in listing.batch : name.path \in Paths
  /\ OnePerPath(listing.found)
  /\ DOMAIN disk \subseteq Paths
  /\ configured \in RootSets

\* What the client has read goes up to its cursor, which names all of the listing.
CursorInv ==
  heldCursor # NoListCursor =>
    /\ \E S : heldCursor.manifest \in Seq(S)
    /\ heldCursor.next \in 0..Len(heldCursor.manifest)
    /\ pagesRead = SubSeq(heldCursor.manifest, 1, heldCursor.next)

\* A scan is for a first page, or for the one after those the client has.
CallInv ==
  listing.stage = "scanning" =>
    /\ command.ask \in Asks
    /\ command.cursor \in {NoListCursor, heldCursor}
    /\ outcome = NoOutcome

\* The pages are the first entries.
PagesInv ==
  outcome.answer = "page" /\ listing.roots # {} =>
    \E end \in 0..Len(InPathOrder(listing.found)) :
      /\ pagesRead = SubSeq(InPathOrder(listing.found), 1, end)
      /\ outcome.complete <=> end = Len(InPathOrder(listing.found))
      /\ outcome.complete <=> heldCursor = NoListCursor

ListInv == ListingShape /\ CursorInv /\ CallInv /\ PagesInv

-----------------------------------------------------------------------------
(* One page after another *)

\* Two pages that follow one another are one.
LEMMA CutAt ==
  ASSUME NEW S, NEW s \in Seq(S), NEW a \in 0..Len(s), NEW b \in a..Len(s)
  PROVE  /\ SubSeq(s, 1, a) \o SubSeq(s, a + 1, b) = SubSeq(s, 1, b)
         /\ SubSeq(s, 0 + 1, b) = SubSeq(s, 1, b)
<1>1. 1 \in 1..Len(s) + 1 /\ a \in 1 - 1..Len(s)
  OBVIOUS
<1>2. SubSeq(s, 1, a) \o SubSeq(s, a + 1, b) = SubSeq(s, 1, b)
  BY <1>1, ConcatAdjacentSubSeq
<1> QED
  BY <1>2

LEMMA FirstOnes ==
  ASSUME NEW S, NEW s \in Seq(S), NEW n \in 0..Len(s)
  PROVE  /\ SubSeq(s, 1, n) \in Seq(S) /\ Len(SubSeq(s, 1, n)) = n
         /\ \A i \in 1..n : SubSeq(s, 1, n)[i] = s[i]
<1>1. \A i \in 1..n : s[i] \in S
  BY ElementOfSeq
<1>2. n \in Int /\ 1 \in Int
  OBVIOUS
<1>3. /\ SubSeq(s, 1, n) \in Seq(S)
      /\ Len(SubSeq(s, 1, n)) = IF 1 <= n THEN n - 1 + 1 ELSE 0
      /\ \A i \in 1..n - 1 + 1 : SubSeq(s, 1, n)[i] = s[1 + i - 1]
  BY <1>1, <1>2, SubSeqProperties
<1> QED
  BY <1>2, <1>3

-----------------------------------------------------------------------------
(* The entries found *)

LEMMA PutEntries ==
  ASSUME NEW found, OnePerPath(found), NEW entry, entry.path \in Paths
  PROVE  OnePerPath(Put(found, entry))
<1>1. IsFiniteSet({old \in found : old.path # entry.path})
  BY FS_Subset DEF OnePerPath
<1>2. IsFiniteSet(Put(found, entry))
  BY <1>1, FS_AddElement DEF Put
<1>3. \A e \in Put(found, entry) : e.path \in Paths
  BY DEF Put, OnePerPath
<1>4. \A one, other \in Put(found, entry) : one.path = other.path => one = other
  BY DEF Put, OnePerPath
<1> QED
  BY <1>2, <1>3, <1>4 DEF OnePerPath

LEMMA CanonicalPath ==
  ASSUME DOMAIN disk \subseteq Paths, NEW path \in Paths
  PROVE  Canonical(path) \in Paths
<1>1. Gone \in Paths
  BY DEF Gone, Paths
<1> QED
  BY <1>1, CanonicalThere

LEMMA CanonicalRootsAre ==
  ASSUME DOMAIN disk \subseteq Paths, configured \in RootSets
  PROVE  IsFiniteSet(CanonicalRoots) /\ CanonicalRoots \subseteq Paths
<1>1. IsFiniteSet(configured) /\ configured \subseteq Paths
  BY CallAssumption DEF Named
<1> DEFINE T == {Canonical(root) : root \in configured}
           f == [root \in configured |-> Canonical(root)]
<1>2. f \in Surjection(configured, T)
  BY DEF Surjection
<1>3. IsFiniteSet(T)
  <2> HIDE DEF f, T
  <2> QED BY <1>1, <1>2, FS_Surjection
<1>4. CanonicalRoots \subseteq T
  BY DEF CanonicalRoots
<1>5. T \subseteq Paths
  BY <1>1, CanonicalPath
<1> HIDE DEF T
<1> QED
  BY <1>3, <1>4, <1>5, FS_Subset

LEMMA DirsLast ==
  ASSUME NEW dirs \in Seq(Paths), dirs # <<>>
  PROVE  Last(dirs) \in Paths /\ Front(dirs) \in Seq(Paths)
<1>1. Len(dirs) \in Nat /\ Len(dirs) # 0 /\ Len(dirs) \in 1..Len(dirs)
  BY EmptySeq
<1>2. Last(dirs) \in Paths
  BY <1>1, ElementOfSeq DEF Last
<1>3. Len(dirs) - 1 \in 0..Len(dirs)
  BY <1>1
<1>4. Front(dirs) \in Seq(Paths)
  BY <1>3, FirstOnes DEF Front
<1> QED
  BY <1>2, <1>4

\* What the end of a scan step leaves as it was.
LEMMA FoundKeeps ==
  ASSUME ListingShape, NEW entry, entry.path \in Paths,
         NEW next, next = [listing EXCEPT !.dirs = next.dirs, !.batch = next.batch],
         next.dirs \in Seq(Paths), \A name \in next.batch : name.path \in Paths,
         Found(entry, next), listing.stage = "scanning", UNCHANGED <<disk, configured>>
  PROVE  /\ ListingShape'
         /\ \/ listing'.stage = "scanning" /\ UNCHANGED outcome
            \/ listing'.stage = "idle" /\ outcome'.answer = "error"
<1>1. CASE FailListing("limit")
  <2>1. /\ DOMAIN listing' = DOMAIN listing /\ listing'.stage = "idle" /\ listing'.dirs = <<>> /\ listing'.batch = {}
        /\ listing'.found = listing.found /\ outcome'.answer = "error"
    BY <1>1 DEF FailListing, ListingShape, Error
  <2>2. <<>> \in Seq(Paths)
    OBVIOUS
  <2> QED
    BY <2>1, <2>2 DEF ListingShape
<1>2. CASE listing' = [next EXCEPT !.found = Put(listing.found, entry)] /\ UNCHANGED outcome
  <2>0. DOMAIN next = DOMAIN listing /\ next.stage = listing.stage
    BY DEF ListingShape
  <2>1. /\ DOMAIN listing' = DOMAIN listing /\ listing'.stage = "scanning" /\ listing'.dirs = next.dirs
        /\ listing'.batch = next.batch /\ listing'.found = Put(listing.found, entry)
    BY <1>2, <2>0 DEF ListingShape
  <2>2. OnePerPath(Put(listing.found, entry))
    BY PutEntries DEF ListingShape
  <2> QED
    BY <1>2, <2>1, <2>2 DEF ListingShape
<1> QED
  BY <1>1, <1>2 DEF Found

StepEnds ==
  \/ listing'.stage = "scanning" /\ UNCHANGED outcome
  \/ listing'.stage = "idle" /\ outcome'.answer = "error"

\* A step of a scan keeps what is known of the client.
LEMMA ScanStep ==
  ASSUME ListInv, ListingShape', StepEnds, listing.stage = "scanning", NothingElse
  PROVE  ListInv'
<1>1. UNCHANGED <<command, heldCursor, pagesRead>>
  BY DEF NothingElse
<1>2. CursorInv'
  BY <1>1 DEF ListInv, CursorInv
<1>3. CallInv'
  BY <1>1 DEF ListInv, CallInv, StepEnds
<1>4. outcome'.answer # "page"
  <2>1. outcome = NoOutcome
    BY DEF ListInv, CallInv
  <2> QED
    BY <2>1 DEF StepEnds, NoOutcome
<1>5. PagesInv'
  BY <1>4 DEF PagesInv
<1> QED
  BY <1>2, <1>3, <1>5 DEF ListInv

\* A scan that fails keeps what is found.
LEMMA FailKeeps ==
  ASSUME ListingShape, NEW why, FailListing(why), UNCHANGED <<disk, configured>>
  PROVE  ListingShape' /\ StepEnds
<1>1. /\ DOMAIN listing' = DOMAIN listing /\ listing'.stage = "idle" /\ listing'.dirs = <<>> /\ listing'.batch = {}
      /\ listing'.found = listing.found /\ outcome'.answer = "error"
  BY DEF FailListing, ListingShape, Error
<1>2. <<>> \in Seq(Paths)
  OBVIOUS
<1> QED
  BY <1>1, <1>2 DEF ListingShape, StepEnds

LEMMA NextKeeps ==
  ASSUME ListingShape, listing.stage = "scanning", NEW next,
         next = [listing EXCEPT !.dirs = next.dirs, !.batch = next.batch],
         next.dirs \in Seq(Paths), \A name \in next.batch : name.path \in Paths,
         listing' = next, UNCHANGED <<outcome, disk, configured>>
  PROVE  ListingShape' /\ StepEnds
<1>1. DOMAIN next = DOMAIN listing /\ next.stage = listing.stage /\ next.found = listing.found
  BY DEF ListingShape
<1> QED
  BY <1>1 DEF ListingShape, StepEnds

LEMMA FileEntryPath ==
  ASSUME NEW path, NEW node
  PROVE  FileEntry(path, node).path = path
BY DEF FileEntry

LEMMA ListRootKeeps ==
  ASSUME ListInv, ListRoot
  PROVE  ListInv'
<1> DEFINE root == Canonical(Last(listing.dirs))
           next == [listing EXCEPT !.dirs = Front(@)]
<1>1. NothingElse /\ listing.stage = "scanning" /\ listing.dirs # <<>>
  BY DEF ListRoot
<1>2. UNCHANGED <<disk, configured>>
  BY <1>1 DEF NothingElse
<1>3. ListingShape
  BY DEF ListInv
<1>4. Last(listing.dirs) \in Paths /\ Front(listing.dirs) \in Seq(Paths)
  BY <1>1, <1>3, DirsLast DEF ListingShape
<1>5. root \in Paths
  BY <1>3, <1>4, CanonicalPath DEF ListingShape
<1>6. /\ next = [listing EXCEPT !.dirs = next.dirs, !.batch = next.batch]
      /\ next.dirs = Front(listing.dirs) /\ next.batch = listing.batch
  BY <1>3 DEF ListingShape
<1>7. /\ next.dirs \in Seq(Paths) /\ \A name \in next.batch : name.path \in Paths
  BY <1>3, <1>4, <1>6 DEF ListingShape
<1>8. \/ FailListing("retrieval")
      \/ Found(FileEntry(root, disk[root]), next)
      \/ listing' = next /\ UNCHANGED outcome
  BY DEF ListRoot
<1> HIDE DEF next, root
<1>9. ListingShape' /\ StepEnds
  <2>1. CASE FailListing("retrieval")
    BY <1>2, <1>3, <2>1, FailKeeps
  <2>2. CASE Found(FileEntry(root, disk[root]), next)
    <3> DEFINE entry == FileEntry(root, disk[root])
    <3>1. entry.path \in Paths /\ Found(entry, next)
      BY <1>5, <2>2, FileEntryPath
    <3> HIDE DEF entry
    <3> QED
      BY <1>1, <1>2, <1>3, <1>6, <1>7, <3>1, FoundKeeps DEF StepEnds
  <2>3. CASE listing' = next /\ UNCHANGED outcome
    BY <1>1, <1>2, <1>3, <1>6, <1>7, <2>3, NextKeeps
  <2> QED
    BY <1>8, <2>1, <2>2, <2>3
<1> QED
  BY <1>1, <1>9, ScanStep

LEMMA ReadDirectoryKeeps ==
  ASSUME ListInv, ReadDirectory
  PROVE  ListInv'
<1> DEFINE directory == Canonical(Last(listing.dirs))
           rest  == Front(listing.dirs)
           names == {path \in DOMAIN disk : Parent(path) = directory /\ disk[path].kind # "link"}
           batch == {NameOf(path, disk[path]) : path \in names}
           skip  == [listing EXCEPT !.dirs = rest]
           next  == [listing EXCEPT !.dirs = rest, !.batch = batch]
<1>1. NothingElse /\ listing.stage = "scanning" /\ listing.dirs # <<>>
  BY DEF ReadDirectory
<1>2. UNCHANGED <<disk, configured>>
  BY <1>1 DEF NothingElse
<1>3. ListingShape
  BY DEF ListInv
<1>4. rest \in Seq(Paths)
  BY <1>1, <1>3, DirsLast DEF ListingShape
<1>5. \A name \in batch : name.path \in Paths
  <2>1. \A name \in batch : name.path \in DOMAIN disk
    BY DEF NameOf
  <2> HIDE DEF batch
  <2> QED
    BY <1>3, <2>1 DEF ListingShape
<1>6. \/ FailListing("retrieval") \/ FailListing("blocked")
      \/ listing' = skip /\ UNCHANGED outcome
      \/ listing' = next /\ UNCHANGED outcome
  BY DEF ReadDirectory
<1> HIDE DEF rest, batch
<1>7. skip = [listing EXCEPT !.dirs = skip.dirs, !.batch = skip.batch] /\ skip.dirs = rest /\ skip.batch = listing.batch
  BY <1>3 DEF ListingShape
<1>8. next = [listing EXCEPT !.dirs = next.dirs, !.batch = next.batch] /\ next.dirs = rest /\ next.batch = batch
  BY <1>3 DEF ListingShape
<1>9. \A name \in listing.batch : name.path \in Paths
  BY <1>3 DEF ListingShape
<1> HIDE DEF skip, next
<1>10. ListingShape' /\ StepEnds
  <2>1. CASE FailListing("retrieval") \/ FailListing("blocked")
    BY <1>2, <1>3, <2>1, FailKeeps
  <2>2. CASE listing' = skip /\ UNCHANGED outcome
    BY <1>1, <1>2, <1>3, <1>4, <1>7, <1>9, <2>2, NextKeeps
  <2>3. CASE listing' = next /\ UNCHANGED outcome
    BY <1>1, <1>2, <1>3, <1>4, <1>5, <1>8, <2>3, NextKeeps
  <2> QED
    BY <1>6, <2>1, <2>2, <2>3
<1> QED
  BY <1>1, <1>10, ScanStep

LEMMA TakeDocumentKeeps ==
  ASSUME ListInv, NEW name, TakeDocument(name)
  PROVE  ListInv'
<1> DEFINE real == Canonical(name.path)
           left == listing.batch \ {name}
           next == [listing EXCEPT !.batch = @ \ {name}]
           down == [next EXCEPT !.dirs = Append(@, real)]
           held == [next EXCEPT !.batch = @ \cup {Resolved(name, real)}]
<1>1. NothingElse /\ listing.stage = "scanning" /\ name \in listing.batch
  BY DEF TakeDocument, IsNextName
<1>2. UNCHANGED <<disk, configured>>
  BY <1>1 DEF NothingElse
<1>3. ListingShape
  BY DEF ListInv
<1>4. real \in Paths
  BY <1>1, <1>3, CanonicalPath DEF ListingShape
<1>5. \/ FailListing("retrieval")
      \/ listing' \in {next, down, held} /\ UNCHANGED outcome
  BY DEF TakeDocument
<1> HIDE DEF real
<1>6. next = [listing EXCEPT !.dirs = next.dirs, !.batch = next.batch] /\ next.dirs = listing.dirs /\ next.batch = left
  BY <1>3 DEF ListingShape
<1>7. /\ down = [listing EXCEPT !.dirs = down.dirs, !.batch = down.batch]
      /\ down.dirs = Append(listing.dirs, real) /\ down.batch = left
  BY <1>3 DEF ListingShape
<1>8. /\ held = [listing EXCEPT !.dirs = held.dirs, !.batch = held.batch]
      /\ held.dirs = listing.dirs /\ held.batch = left \cup {Resolved(name, real)}
  BY <1>3 DEF ListingShape
<1>9. /\ \A other \in left \cup {Resolved(name, real)} : other.path \in Paths
      /\ listing.dirs \in Seq(Paths) /\ Append(listing.dirs, real) \in Seq(Paths)
  BY <1>3, <1>4 DEF ListingShape, Resolved
<1> HIDE DEF next, down, held, left
<1>10. ListingShape' /\ StepEnds
  <2>1. CASE FailListing("retrieval")
    BY <1>2, <1>3, <2>1, FailKeeps
  <2>2. CASE listing' = next /\ UNCHANGED outcome
    BY <1>1, <1>2, <1>3, <1>6, <1>9, <2>2, NextKeeps
  <2>3. CASE listing' = down /\ UNCHANGED outcome
    BY <1>1, <1>2, <1>3, <1>7, <1>9, <2>3, NextKeeps
  <2>4. CASE listing' = held /\ UNCHANGED outcome
    BY <1>1, <1>2, <1>3, <1>8, <1>9, <2>4, NextKeeps
  <2> QED
    BY <1>5, <2>1, <2>2, <2>3, <2>4
<1> QED
  BY <1>1, <1>10, ScanStep

LEMMA TakeChildKeeps ==
  ASSUME ListInv, NEW name, TakeChild(name)
  PROVE  ListInv'
<1> DEFINE real == Canonical(name.path)
           left == listing.batch \ {name}
           next == [listing EXCEPT !.batch = @ \ {name}]
           held == [next EXCEPT !.batch = @ \cup {Resolved(name, real)}]
<1>1. NothingElse /\ listing.stage = "scanning" /\ name \in listing.batch
  BY DEF TakeChild, IsNextName
<1>2. UNCHANGED <<disk, configured>>
  BY <1>1 DEF NothingElse
<1>3. ListingShape
  BY DEF ListInv
<1>4. real \in Paths
  BY <1>1, <1>3, CanonicalPath DEF ListingShape
<1>5. \/ FailListing("retrieval")
      \/ listing' \in {next, held} /\ UNCHANGED outcome
  BY DEF TakeChild
<1> HIDE DEF real
<1>6. next = [listing EXCEPT !.dirs = next.dirs, !.batch = next.batch] /\ next.dirs = listing.dirs /\ next.batch = left
  BY <1>3 DEF ListingShape
<1>7. /\ held = [listing EXCEPT !.dirs = held.dirs, !.batch = held.batch]
      /\ held.dirs = listing.dirs /\ held.batch = left \cup {Resolved(name, real)}
  BY <1>3 DEF ListingShape
<1>8. /\ \A other \in left \cup {Resolved(name, real)} : other.path \in Paths
      /\ listing.dirs \in Seq(Paths)
  BY <1>3, <1>4 DEF ListingShape, Resolved
<1> HIDE DEF next, held, left
<1>9. ListingShape' /\ StepEnds
  <2>1. CASE FailListing("retrieval")
    BY <1>2, <1>3, <2>1, FailKeeps
  <2>2. CASE listing' = next /\ UNCHANGED outcome
    BY <1>1, <1>2, <1>3, <1>6, <1>8, <2>2, NextKeeps
  <2>3. CASE listing' = held /\ UNCHANGED outcome
    BY <1>1, <1>2, <1>3, <1>7, <1>8, <2>3, NextKeeps
  <2> QED
    BY <1>5, <2>1, <2>2, <2>3
<1> QED
  BY <1>1, <1>9, ScanStep

LEMMA EntryOfPath ==
  ASSUME NEW tool, NEW path, NEW node
  PROVE  EntryOf(tool, path, node).path = path
BY FileEntryPath DEF EntryOf

LEMMA MeasureKeeps ==
  ASSUME ListInv, NEW name, Measure(name)
  PROVE  ListInv'
<1> DEFINE there == Canonical(name.path)
           next == [listing EXCEPT !.batch = @ \ {name}]
           entry == EntryOf(command.ask.tool, name.path, disk[there])
<1>1. NothingElse /\ listing.stage = "scanning" /\ name \in listing.batch
  BY DEF Measure
<1>2. UNCHANGED <<disk, configured>>
  BY <1>1 DEF NothingElse
<1>3. ListingShape
  BY DEF ListInv
<1>4. entry.path \in Paths
  BY <1>1, <1>3, EntryOfPath DEF ListingShape
<1>5. \/ FailListing("retrieval")
      \/ Found(entry, next)
      \/ listing' = next /\ UNCHANGED outcome
  BY DEF Measure
<1>6. /\ next = [listing EXCEPT !.dirs = next.dirs, !.batch = next.batch]
      /\ next.dirs = listing.dirs /\ next.batch = listing.batch \ {name}
  BY <1>3 DEF ListingShape
<1>7. /\ \A other \in listing.batch \ {name} : other.path \in Paths
      /\ listing.dirs \in Seq(Paths)
  BY <1>3 DEF ListingShape
<1> HIDE DEF next, entry
<1>8. ListingShape' /\ StepEnds
  <2>1. CASE FailListing("retrieval")
    BY <1>2, <1>3, <2>1, FailKeeps
  <2>2. CASE Found(entry, next)
    BY <1>1, <1>2, <1>3, <1>4, <1>6, <1>7, <2>2, FoundKeeps DEF StepEnds
  <2>3. CASE listing' = next /\ UNCHANGED outcome
    BY <1>1, <1>2, <1>3, <1>6, <1>7, <2>3, NextKeeps
  <2> QED
    BY <1>5, <2>1, <2>2, <2>3
<1> QED
  BY <1>1, <1>8, ScanStep

\* A call begins: it is refused, has no root to list, or is at the start of its scan.
LEMMA BeginListingKeeps ==
  ASSUME ListInv, NEW ask \in Asks, NEW cursor \in {NoListCursor, heldCursor}, BeginListing(ask, cursor)
  PROVE  ListInv'
<1> DEFINE roots == CanonicalRoots
           path  == IF ask.path = NoPath THEN NoPath ELSE Canonical(ask.path)
           dirs  == IF path = NoPath THEN RootsToRead(roots) ELSE <<path>>
           begun == [stage |-> "scanning", roots |-> roots, path |-> path, batch |-> {}, found |-> {}, dirs |-> dirs]
<1>1. /\ listing.stage = "idle" /\ UNCHANGED <<disk, configured>>
      /\ command'.ask = ask /\ command'.cursor = cursor
  BY DEF BeginListing
<1>2. ListingShape /\ CursorInv
  BY DEF ListInv
<1>3. OnePerPath({}) /\ <<>> \in Seq(Paths)
  BY FS_EmptySet DEF OnePerPath
<1>4. CASE Refusal(ask, cursor) # "none"
  <2>1. outcome'.answer = "error" /\ UNCHANGED <<listing, heldCursor, pagesRead>>
    BY <1>4 DEF BeginListing, Error
  <2> QED
    BY <1>1, <1>2, <2>1 DEF ListInv, ListingShape, CursorInv, CallInv, PagesInv
<1>5. CASE Refusal(ask, cursor) = "none" /\ roots = {}
  <2>1. listing' = NoListing /\ heldCursor' = NoListCursor
    BY <1>5 DEF BeginListing
  <2>2. ListingShape'
    BY <1>1, <1>2, <1>3, <2>1 DEF ListingShape, NoListing
  <2> QED
    BY <2>1, <2>2 DEF ListInv, CursorInv, CallInv, PagesInv, NoListing
<1>6. CASE Refusal(ask, cursor) = "none" /\ roots # {}
  <2>1. outcome' = NoOutcome /\ listing' = begun /\ UNCHANGED <<heldCursor, pagesRead>>
    BY <1>6 DEF BeginListing
  <2>2. path \in Paths
    BY <1>2, CanonicalPath, CallAssumption DEF ListingShape, Paths
  <2>3. dirs \in Seq(Paths)
    <3>1. RootsToRead(roots) \in Seq(roots) /\ roots \subseteq Paths
      BY <1>2, CanonicalRootsAre, RootsToReadIs DEF ListingShape
    <3>2. RootsToRead(roots) \in Seq(Paths)
      BY <3>1, SeqMonotonic
    <3> HIDE DEF path
    <3> QED
      BY <2>2, <3>2
  <2> HIDE DEF dirs
  <2>3a. /\ DOMAIN begun = DOMAIN NoListing /\ begun.stage = "scanning" /\ begun.dirs = dirs /\ begun.batch = {}
         /\ begun.found = {}
    BY DEF NoListing
  <2>3b. DOMAIN NoListing = {"stage", "roots", "path", "dirs", "batch", "found"}
    BY DEF NoListing
  <2> HIDE DEF begun
  <2>4. ListingShape'
    BY <1>1, <1>2, <1>3, <2>1, <2>3, <2>3a, <2>3b DEF ListingShape
  <2>5. CursorInv'
    BY <1>2, <2>1 DEF CursorInv
  <2>6. CallInv'
    BY <1>1, <2>1 DEF CallInv
  <2>7. PagesInv'
    BY <2>1 DEF PagesInv, NoOutcome
  <2> QED
    BY <2>4, <2>5, <2>6, <2>7 DEF ListInv
<1> QED
  BY <1>4, <1>5, <1>6

\* The page goes on where the client's pages end, since the scan found what the cursor is of.
LEMMA AnswerListingKeeps ==
  ASSUME ListInv, AnswerListing
  PROVE  ListInv'
<1> DEFINE entries == InPathOrder(listing.found)
           cursor  == command.cursor
           start   == IF cursor = NoListCursor THEN 0 ELSE cursor.next
           wanted  == IF command.ask.max < MaxResults THEN command.ask.max ELSE MaxResults
           end     == IF start + wanted < Len(entries) THEN start + wanted ELSE Len(entries)
           page    == SubSeq(entries, start + 1, end)
           complete == end = Len(entries)
<1>1. /\ listing.stage = "scanning" /\ listing' = [listing EXCEPT !.stage = "idle"]
      /\ UNCHANGED <<disk, configured, command>>
  BY DEF AnswerListing
<1>2. ListingShape /\ CursorInv /\ CallInv
  BY DEF ListInv
<1>3. /\ DOMAIN listing' = DOMAIN listing /\ listing'.stage = "idle" /\ listing'.dirs = listing.dirs
      /\ listing'.batch = listing.batch /\ listing'.found = listing.found /\ listing'.roots = listing.roots
  BY <1>1, <1>2 DEF ListingShape
<1>4. ListingShape'
  BY <1>1, <1>2, <1>3 DEF ListingShape
<1>5. CallInv'
  BY <1>3 DEF CallInv
<1>6. command.ask \in Asks /\ cursor \in {NoListCursor, heldCursor}
  BY <1>1, <1>2 DEF CallInv
<1>7. CASE IsStale(cursor, entries)
  <2>1. outcome'.answer = "error" /\ UNCHANGED <<heldCursor, pagesRead>>
    BY <1>7 DEF AnswerListing, Error
  <2> QED
    BY <1>2, <1>4, <1>5, <2>1 DEF ListInv, CursorInv, PagesInv
<1>8. CASE ~IsStale(cursor, entries)
  <2>1. /\ outcome' = [answer |-> "page", complete |-> complete]
        /\ heldCursor' = IF complete THEN NoListCursor ELSE CursorAfter(end, entries)
        /\ pagesRead' = IF cursor = NoListCursor THEN page ELSE pagesRead \o page
    BY <1>8 DEF AnswerListing
  <2>2. entries \in Seq(listing.found) /\ Len(entries) \in Nat
    BY <1>2, InPathOrderIs DEF ListingShape
  <2> HIDE DEF entries
  <2>3. cursor # NoListCursor => /\ cursor = heldCursor /\ cursor.manifest = entries
                                /\ start \in 0..Len(entries) /\ pagesRead = SubSeq(entries, 1, start)
    BY <1>2, <1>6, <1>8 DEF IsStale, CursorInv
  <2>4. start \in 0..Len(entries)
    BY <2>2, <2>3
  <2>5. wanted \in Nat
    BY <1>6, CallAssumption
  <2> HIDE DEF wanted, start
  <2>6. end \in start..Len(entries) /\ end \in 0..Len(entries)
    BY <2>2, <2>4, <2>5
  <2> HIDE DEF end
  <2>7. pagesRead' = SubSeq(entries, 1, end)
    <3>1. CASE cursor = NoListCursor
      <4>1. start = 0
        BY <3>1 DEF start
      <4> QED
        BY <2>1, <3>1, <4>1
    <3>2. CASE cursor # NoListCursor
      <4>1. pagesRead' = SubSeq(entries, 1, start) \o SubSeq(entries, start + 1, end)
        BY <2>1, <2>3, <3>2
      <4> QED
        BY <2>2, <2>4, <2>6, <4>1, CutAt
    <3> QED
      BY <3>1, <3>2
  <2>8. CursorAfter(end, entries) # NoListCursor
    <3>1. CursorAfter(end, entries).tool \in {"documents", "directory"}
      BY <1>6, CallAssumption DEF CursorAfter
    <3> QED
      BY <3>1 DEF NoListCursor
  <2>9. CursorAfter(end, entries).manifest = entries /\ CursorAfter(end, entries).next = end
    BY DEF CursorAfter
  <2>10. CursorInv'
    <3>1. heldCursor' # NoListCursor => heldCursor' = CursorAfter(end, entries)
      BY <2>1
    <3> QED
      BY <2>2, <2>6, <2>7, <2>9, <3>1 DEF CursorInv
  <2>11. outcome'.complete <=> end = Len(entries)
    BY <2>1
  <2>12. outcome'.complete <=> heldCursor' = NoListCursor
    BY <2>1, <2>8
  <2>13. InPathOrder(listing'.found) = entries
    BY <1>3 DEF entries
  <2>14. PagesInv'
    BY <2>6, <2>7, <2>11, <2>12, <2>13 DEF PagesInv
  <2> QED
    BY <1>4, <1>5, <2>10, <2>14 DEF ListInv
<1> QED
  BY <1>7, <1>8

\* The disk changes under it all.
LEMMA BecomeKeeps ==
  ASSUME ListInv, NEW new, Become(new), DOMAIN new \subseteq Paths
  PROVE  ListInv'
<1>1. UNCHANGED <<configured, command, listing, outcome, heldCursor, pagesRead>> /\ disk' = new
  BY DEF Become
<1>2. ListingShape'
  BY <1>1 DEF ListInv, ListingShape
<1> QED
  BY <1>1, <1>2 DEF ListInv, CursorInv, CallInv, PagesInv

LEMMA DiskChangeKeeps ==
  ASSUME ListInv, WriteFile \/ MakeDir \/ RemoveFile \/ RemoveDir \/ MakeLink
  PROVE  ListInv'
<1>1. DOMAIN disk \subseteq Paths /\ FilePaths \subseteq Paths /\ DirPaths \subseteq Paths
  BY DiskAssumption DEF ListInv, ListingShape, Named
<1>2. CASE WriteFile
  <2>1. PICK path \in FilePaths, size \in 1..2 : Become(With(path, File(size)))
    BY <1>2 DEF WriteFile
  <2>2. DOMAIN With(path, File(size)) \subseteq Paths
    BY <1>1 DEF With
  <2> QED
    BY <2>1, <2>2, BecomeKeeps
<1>3. CASE MakeDir
  <2>1. PICK path \in DirPaths : Become(With(path, Dir))
    BY <1>3 DEF MakeDir
  <2>2. DOMAIN With(path, Dir) \subseteq Paths
    BY <1>1 DEF With
  <2> QED
    BY <2>1, <2>2, BecomeKeeps
<1>4. CASE MakeLink
  <2>1. PICK path \in DirPaths : Become(With(path, Link(Outside)))
    BY <1>4 DEF MakeLink
  <2>2. DOMAIN With(path, Link(Outside)) \subseteq Paths
    BY <1>1 DEF With
  <2> QED
    BY <2>1, <2>2, BecomeKeeps
<1>5. CASE RemoveFile \/ RemoveDir
  <2>1. PICK path \in FilePaths \cup DirPaths : Become(Without(path))
    BY <1>5 DEF RemoveFile, RemoveDir
  <2>2. DOMAIN Without(path) \subseteq DOMAIN disk
    BY DEF Without
  <2> QED
    BY <1>1, <2>1, <2>2, BecomeKeeps
<1> QED
  BY <1>2, <1>3, <1>4, <1>5

LEMMA ListInitInv ==
  ASSUME ListInit
  PROVE  ListInv
<1>1. OnePerPath({}) /\ <<>> \in Seq(Paths)
  BY FS_EmptySet DEF OnePerPath
<1>2. DOMAIN disk \subseteq Paths
  BY DiskAssumption DEF ListInit, IsDisk, Named
<1>3. ListingShape
  BY <1>1, <1>2 DEF ListInit, ListingShape, NoListing
<1> QED
  BY <1>3 DEF ListInit, ListInv, CursorInv, CallInv, PagesInv, NoListing, NoOutcome

LEMMA ListStep ==
  ASSUME ListInv, [ListNext]_listVars
  PROVE  ListInv'
<1>1. CASE UNCHANGED listVars
  BY <1>1 DEF listVars, ListInv, ListingShape, CursorInv, CallInv, PagesInv
<1>2. CASE ListCall
  BY <1>2, BeginListingKeeps, ListRootKeeps, ReadDirectoryKeeps, AnswerListingKeeps, TakeDocumentKeeps,
     TakeChildKeeps, MeasureKeeps DEF ListCall
<1> QED
  BY <1>1, <1>2, DiskChangeKeeps DEF ListNext

\* The invariant of the pages.
LEMMA ListAlways == ListSpec => []ListInv
<1> QED
  BY ListInitInv, ListStep, PTL DEF ListSpec

\* From the invariant: the pages are one listing.
LEMMA PagesFollow ==
  ASSUME ListInv
  PROVE  PagesAreOneListing
<1>1. SUFFICES ASSUME outcome.answer = "page", listing.roots # {} PROVE PagesAreOneListing
  BY DEF PagesAreOneListing
<1> DEFINE entries == InPathOrder(listing.found)
           places == 1..Len(pagesRead)
           read   == {pagesRead[i] : i \in places}
<1>2. PICK end \in 0..Len(entries) :
        /\ pagesRead = SubSeq(entries, 1, end)
        /\ outcome.complete <=> end = Len(entries)
        /\ outcome.complete <=> heldCursor = NoListCursor
  BY <1>1 DEF ListInv, PagesInv
<1>3. /\ entries \in Seq(listing.found)
      /\ \A i, j \in 1..Len(entries) : i < j => PathBefore(entries[i].path, entries[j].path)
      /\ \A entry \in listing.found : \E i \in 1..Len(entries) : entries[i] = entry
  BY InPathOrderIs DEF ListInv, ListingShape
<1>4. \A entry \in listing.found : entry.path \in Paths
  BY DEF ListInv, ListingShape, OnePerPath
<1> HIDE DEF entries
<1>5. Len(pagesRead) = end /\ \A i \in 1..end : pagesRead[i] = entries[i]
  BY <1>2, <1>3, FirstOnes
<1>6. Len(entries) \in Nat /\ \A i \in 1..end : i \in 1..Len(entries)
  BY <1>3
<1>7. ASSUME NEW i \in places, NEW j \in places, i < j PROVE PathBefore(pagesRead[i].path, pagesRead[j].path)
  BY <1>3, <1>5, <1>6, <1>7
<1>8. read \subseteq listing.found
  <2>1. \A i \in 1..end : entries[i] \in listing.found
    BY <1>3, <1>6, ElementOfSeq
  <2> QED
    BY <1>5, <2>1
<1>9. ASSUME NEW entry \in listing.found \ read, NEW i \in places PROVE PathBefore(pagesRead[i].path, entry.path)
  <2>1. PICK j \in 1..Len(entries) : entries[j] = entry
    BY <1>3
  <2>2. j \notin 1..end
    BY <1>5, <1>9, <2>1
  <2>3. i < j /\ i \in 1..end
    BY <1>5, <1>6, <2>2
  <2> QED
    BY <1>3, <1>5, <1>6, <2>1, <2>3
<1>10. end = Len(entries) <=> read = listing.found
  <2>1. ASSUME end = Len(entries) PROVE listing.found \subseteq read
    BY <1>3, <1>5, <2>1
  <2>2. ASSUME end # Len(entries), read = listing.found PROVE FALSE
    <3>1. end + 1 \in 1..Len(entries)
      BY <1>6, <2>2
    <3>2. entries[end + 1] \in read
      BY <1>3, <2>2, <3>1, ElementOfSeq
    <3>3. PICK i \in 1..end : entries[i] = entries[end + 1]
      BY <1>5, <3>2
    <3>4. PathBefore(entries[end + 1].path, entries[end + 1].path)
      <4>1. i < end + 1 /\ i \in 1..Len(entries)
        BY <1>6
      <4>2. PathBefore(entries[i].path, entries[end + 1].path)
        BY <1>3, <3>1, <4>1
      <4> QED
        BY <3>3, <4>2
    <3>5. entries[end + 1].path \in Paths
      BY <1>4, <1>8, <3>2
    <3> QED
      BY <3>4, <3>5, PathBeforeIrreflexive
  <2> QED
    BY <1>8, <2>1, <2>2
<1> HIDE DEF read, places
<1> QED
  BY <1>2, <1>7, <1>8, <1>9, <1>10 DEF PagesAreOneListing, read, places

\* However the disk changes between and under the scans of a run of pages, what the client read is one
\* listing in the order of the paths: a cursor whose manifest is not what the scan
\* found is refused.
THEOREM ListingsAreWhole == ListSpec => []PagesAreOneListing
<1>1. ListInv => PagesAreOneListing
  BY PagesFollow
<1> QED
  BY ListAlways, <1>1, PTL

-----------------------------------------------------------------------------
(* Disks *)

NodesOf(nodes) == {<<path, nodes[path]>> : path \in DOMAIN nodes}

\* What holds of every disk the others leave.
Sound(nodes) ==
  /\ IsDisk(nodes) /\ LeadsOn(nodes, Outside)
  /\ \A path \in DOMAIN nodes :
       /\ path \in FilePaths => nodes[path].kind = "file"
       /\ path \in DirPaths => nodes[path].kind # "file"
       /\ nodes[path].kind = "link" => LeadsOn(nodes, nodes[path].target)

\* What a change leaves: directories are made where nothing was, and only some paths come and go.
Follows(new, old) ==
  /\ \A path \in DOMAIN old \cap DOMAIN new : new[path].kind = "dir" => new[path] = old[path]
  /\ \A path : path \notin FilePaths \cup DirPaths =>
       /\ path \in DOMAIN new <=> path \in DOMAIN old
       /\ path \in DOMAIN old => new[path] = old[path]

\* Links go on leading to what is no link.
LEMMA LeadsOnMonotone ==
  ASSUME NEW old, NEW new, NEW target, LeadsOn(old, target),
         \A path \in DOMAIN new : path \notin DirPaths =>
            new[path].kind = "file" \/ (path \in DOMAIN old /\ new[path] = old[path])
  PROVE  LeadsOn(new, target)
BY Zenon DEF LeadsOn

\* A node that is put where it may be.
LEMMA WithSound ==
  ASSUME Sound(disk), NEW path \in Named, NEW node, HasParent(path), path \in FilePaths \cup DirPaths,
         \/ path \in FilePaths /\ node.kind = "file"
         \/ path \in DirPaths /\ path \notin DOMAIN disk /\ (node = Dir \/ node = Link(Outside))
  PROVE  Sound(With(path, node)) /\ Follows(With(path, node), disk)
<1> DEFINE new == With(path, node)
<1>1. /\ DOMAIN new = DOMAIN disk \cup {path} /\ new[path] = node
      /\ \A other \in DOMAIN disk : other # path => new[other] = disk[other]
  BY DEF With
<1>2. IsFiniteSet(DOMAIN new)
  BY <1>1, FS_AddElement DEF Sound, IsDisk
<1>3. FilePaths \cap DirPaths = {} /\ FilePaths \cup DirPaths \subseteq Named
  BY DiskAssumption
<1>4. node.kind \in {"file", "dir", "link"} /\ (path \in FilePaths => node.kind = "file") /\ (path \in DirPaths => node.kind # "file")
  BY <1>3 DEF Dir, Link
<1>5. node.kind = "link" => node = Link(Outside) /\ node.target = Outside
  BY <1>3 DEF Dir, Link
<1> HIDE DEF new
<1>6. ASSUME NEW other \in DOMAIN disk, disk[other].kind = "dir" PROVE other \in DOMAIN new /\ new[other].kind = "dir"
  <2>1. other # path
    BY <1>3, <1>6 DEF Sound
  <2> QED
    BY <1>1, <1>6, <2>1
<1>7. IsDisk(new)
  <2>1. \A other \in DOMAIN new : new[other].kind \in {"file", "dir", "link"}
    BY <1>1, <1>4 DEF Sound, IsDisk
  <2>2. ASSUME NEW other \in DOMAIN new
        PROVE  Len(other) = 1 \/ (Parent(other) \in DOMAIN new /\ new[Parent(other)].kind = "dir")
    <3>1. CASE other = path
      BY <1>6, <3>1 DEF HasParent
    <3>2. CASE other # path
      <4>1. other \in DOMAIN disk
        BY <1>1, <3>2
      <4> QED
        BY <1>6, <4>1 DEF Sound, IsDisk
    <3> QED
      BY <3>1, <3>2
  <2> QED
    BY <1>1, <1>2, <2>1, <2>2 DEF Sound, IsDisk
<1>8. ASSUME NEW target, LeadsOn(disk, target) PROVE LeadsOn(new, target)
  <2>1. \A other \in DOMAIN new : other \notin DirPaths =>
            new[other].kind = "file" \/ (other \in DOMAIN disk /\ new[other] = disk[other])
    BY <1>1, <1>4
  <2> QED
    BY <1>8, <2>1, LeadsOnMonotone
<1>9. Sound(new)
  <2>1. LeadsOn(new, Outside)
    BY <1>8 DEF Sound
  <2>2. ASSUME NEW other \in DOMAIN new
        PROVE  /\ other \in FilePaths => new[other].kind = "file"
               /\ other \in DirPaths => new[other].kind # "file"
               /\ new[other].kind = "link" => LeadsOn(new, new[other].target)
    <3>1. CASE other = path
      BY <1>1, <1>4, <1>5, <2>1, <3>1
    <3>2. CASE other # path
      <4>1. other \in DOMAIN disk /\ new[other] = disk[other]
        BY <1>1, <3>2
      <4> QED
        BY <1>8, <4>1 DEF Sound
    <3> QED
      BY <3>1, <3>2
  <2> QED
    BY <1>7, <2>1, <2>2 DEF Sound
<1>10. Follows(new, disk)
  <2>1. ASSUME NEW other \in DOMAIN disk \cap DOMAIN new, new[other].kind = "dir" PROVE new[other] = disk[other]
    <3>1. other # path
      BY <1>1, <1>4, <2>1 DEF Dir
    <3> QED
      BY <1>1, <3>1
  <2>2. ASSUME NEW other, other \notin FilePaths \cup DirPaths
        PROVE  /\ other \in DOMAIN new <=> other \in DOMAIN disk
               /\ other \in DOMAIN disk => new[other] = disk[other]
    <3>1. other # path
      BY <2>2
    <3> QED
      BY <1>1, <3>1
  <2> QED
    BY <2>1, <2>2 DEF Follows
<1> QED
  BY <1>9, <1>10 DEF new

\* A node that is taken away, nothing being below it.
LEMMA WithoutSound ==
  ASSUME Sound(disk), NEW path \in DOMAIN disk, path \in FilePaths \cup DirPaths,
         disk[path].kind = "dir" => \A other \in DOMAIN disk : Parent(other) # path
  PROVE  Sound(Without(path)) /\ Follows(Without(path), disk)
<1> DEFINE new == Without(path)
<1>1. DOMAIN new = DOMAIN disk \ {path} /\ \A other \in DOMAIN disk \ {path} : new[other] = disk[other]
  BY DEF Without
<1>2. IsFiniteSet(DOMAIN new)
  BY <1>1, FS_RemoveElement DEF Sound, IsDisk
<1> HIDE DEF new
<1>3. ASSUME NEW other \in DOMAIN new
      PROVE  Len(other) = 1 \/ (Parent(other) \in DOMAIN new /\ new[Parent(other)].kind = "dir")
  <2>1. other \in DOMAIN disk
    BY <1>1
  <2>2. Len(other) = 1 \/ (Parent(other) \in DOMAIN disk /\ disk[Parent(other)].kind = "dir")
    BY <2>1 DEF Sound, IsDisk
  <2>3. Len(other) # 1 => Parent(other) # path
    BY <2>1, <2>2
  <2> QED
    BY <1>1, <2>2, <2>3
<1>4. IsDisk(new)
  BY <1>1, <1>2, <1>3 DEF Sound, IsDisk
<1>5. ASSUME NEW target, LeadsOn(disk, target) PROVE LeadsOn(new, target)
  <2>1. \A other \in DOMAIN new : other \notin DirPaths =>
            new[other].kind = "file" \/ (other \in DOMAIN disk /\ new[other] = disk[other])
    BY <1>1
  <2> QED
    BY <1>5, <2>1, LeadsOnMonotone
<1>6. Sound(new)
  BY <1>1, <1>4, <1>5 DEF Sound
<1>7. Follows(new, disk)
  <2>1. \A other : other \notin FilePaths \cup DirPaths => other # path
    OBVIOUS
  <2> QED
    BY <1>1, <2>1 DEF Follows
<1> QED
  BY <1>6, <1>7 DEF new

\* Every change of the disk leaves a sound one.
LEMMA DiskChange ==
  ASSUME Sound(disk), WriteFile \/ MakeDir \/ RemoveFile \/ RemoveDir \/ MakeLink
  PROVE  \E new : Become(new) /\ Sound(new) /\ Follows(new, disk)
<1>1. FilePaths \cup DirPaths \subseteq Named /\ FilePaths \cap DirPaths = {}
  BY DiskAssumption
<1>2. CASE WriteFile
  <2>1. PICK path \in FilePaths, size \in 1..2 : HasParent(path) /\ Become(With(path, File(size)))
    BY <1>2 DEF WriteFile
  <2>2. path \in Named /\ File(size).kind = "file"
    BY <1>1 DEF File
  <2>3. Sound(With(path, File(size))) /\ Follows(With(path, File(size)), disk)
    BY <2>1, <2>2, WithSound
  <2> QED
    BY <2>1, <2>3
<1>3. CASE MakeDir
  <2>1. PICK path \in DirPaths \ DOMAIN disk : HasParent(path) /\ Become(With(path, Dir))
    BY <1>3 DEF MakeDir
  <2>2. path \in Named
    BY <1>1
  <2>3. Sound(With(path, Dir)) /\ Follows(With(path, Dir), disk)
    BY <2>1, <2>2, WithSound
  <2> QED
    BY <2>1, <2>3
<1>4. CASE MakeLink
  <2>1. PICK path \in DirPaths \ DOMAIN disk : HasParent(path) /\ Become(With(path, Link(Outside)))
    BY <1>4 DEF MakeLink
  <2>2. path \in Named
    BY <1>1
  <2>3. Sound(With(path, Link(Outside))) /\ Follows(With(path, Link(Outside)), disk)
    BY <2>1, <2>2, WithSound
  <2> QED
    BY <2>1, <2>3
<1>5. CASE RemoveFile
  <2>1. PICK path \in FilePaths \cap DOMAIN disk : Become(Without(path))
    BY <1>5 DEF RemoveFile
  <2>2. disk[path].kind # "dir"
    BY DEF Sound
  <2>3. Sound(Without(path)) /\ Follows(Without(path), disk)
    BY <2>2, WithoutSound
  <2> QED
    BY <2>1, <2>3
<1>6. CASE RemoveDir
  <2>1. PICK path \in DirPaths \cap DOMAIN disk : IsEmptyDir(path) /\ Become(Without(path))
    BY <1>6 DEF RemoveDir
  <2>2. Sound(Without(path)) /\ Follows(Without(path), disk)
    BY <2>1, WithoutSound DEF IsEmptyDir
  <2> QED
    BY <2>1, <2>2
<1> QED
  BY <1>2, <1>3, <1>4, <1>5, <1>6

-----------------------------------------------------------------------------
(* Paths that are resolved *)

LEMMA ParentIs ==
  ASSUME NEW path \in Named
  PROVE  /\ Len(path) \in Nat /\ Len(path) >= 1
         /\ Parent(path) = SubSeq(path, 1, Len(path) - 1)
         /\ Parent(path) \in Paths /\ Len(Parent(path)) = Len(path) - 1
<1>1. path \in Seq(Int) /\ path # <<>>
  BY DEF Named, Paths, Gone
<1>2. Len(path) \in Nat /\ Len(path) # 0
  BY <1>1, EmptySeq
<1>3. Len(path) >= 1 /\ Len(path) - 1 \in 0..Len(path) /\ path \in Paths
  BY <1>1, <1>2 DEF Paths
<1>4. Parent(path) = SubSeq(path, 1, Len(path) - 1)
  BY DEF Parent, Front
<1>5. SubSeq(path, 1, Len(path) - 1) \in Paths /\ Len(SubSeq(path, 1, Len(path) - 1)) = Len(path) - 1
  BY <1>3, PrefixIs
<1> QED
  BY <1>2, <1>3, <1>4, <1>5

\* A prefix of a prefix.
LEMMA PrefixOfPrefix ==
  ASSUME NEW path \in Paths, NEW n \in 0..Len(path), NEW m \in 0..n
  PROVE  SubSeq(SubSeq(path, 1, n), 1, m) = SubSeq(path, 1, m)
<1> DEFINE long == SubSeq(path, 1, n)
<1>1. Len(path) \in Nat
  BY DEF Paths
<1>2. long \in Paths /\ Len(long) = n /\ \A k \in 1..n : long[k] = path[k]
  BY PrefixIs
<1> HIDE DEF long
<1>3. m \in 0..Len(long) /\ m <= Len(path) /\ \A k \in 1..m : long[k] = path[k]
  BY <1>1, <1>2
<1>4. SubSeq(long, 1, m) = SubSeq(path, 1, m)
  BY <1>2, <1>3, PrefixesEqual
<1> QED
  BY <1>4 DEF long

LEMMA WholePrefix ==
  ASSUME NEW path \in Paths
  PROVE  SubSeq(path, 1, Len(path)) = path
BY SubSeqFull DEF Paths

\* Every directory a path goes through is in the disk.
LEMMA PrefixesThere ==
  ASSUME NEW nodes, IsDisk(nodes), NEW path \in DOMAIN nodes, NEW k \in 1..Len(path)
  PROVE  /\ SubSeq(path, 1, k) \in DOMAIN nodes
         /\ k < Len(path) => nodes[SubSeq(path, 1, k)].kind = "dir"
<1>1. path \in Named /\ path \in Paths
  BY DEF IsDisk, Named
<1>2. Len(path) \in Nat /\ Len(path) >= 1
  BY <1>1, ParentIs
<1> DEFINE n == Len(path) - 1
           T == {i \in 0..n : /\ SubSeq(path, 1, Len(path) - i) \in DOMAIN nodes
                              /\ i > 0 => nodes[SubSeq(path, 1, Len(path) - i)].kind = "dir"}
<1>3. n \in Nat
  BY <1>2
<1>4. 0 \in T
  <2>1. Len(path) - 0 = Len(path) /\ 0 \in 0..n /\ ~(0 > 0)
    BY <1>2
  <2>2. SubSeq(path, 1, Len(path) - 0) = path
    BY <1>1, <2>1, WholePrefix
  <2> QED
    BY <2>1, <2>2
<1>5. ASSUME NEW i \in 0..n, i < n, i \in T PROVE i + 1 \in T
  <2> DEFINE p == SubSeq(path, 1, Len(path) - i)
  <2>1. p \in DOMAIN nodes
    BY <1>5
  <2>2. Len(path) - i \in 0..Len(path) /\ Len(path) - i - 1 \in 0..Len(path) - i /\ Len(path) - i >= 2
    BY <1>2, <1>5
  <2>3. Len(p) = Len(path) - i
    BY <1>1, <2>2, PrefixIs
  <2>4. p \in Named
    BY <2>1 DEF IsDisk
  <2>5. Parent(p) = SubSeq(p, 1, Len(path) - i - 1)
    <3> HIDE DEF p
    <3> QED BY <2>3, <2>4, ParentIs
  <2>6. Parent(p) = SubSeq(path, 1, Len(path) - i - 1)
    <3> DEFINE a == Len(path) - i
               b == Len(path) - i - 1
    <3>1. a \in 0..Len(path) /\ b \in 0..a
      BY <2>2
    <3> HIDE DEF a, b
    <3>2. SubSeq(SubSeq(path, 1, a), 1, b) = SubSeq(path, 1, b)
      BY <1>1, <3>1, PrefixOfPrefix
    <3> QED
      BY <2>5, <3>2 DEF a, b
  <2>7. Parent(p) \in DOMAIN nodes /\ nodes[Parent(p)].kind = "dir"
    <3> DEFINE m == Len(path) - i
    <3>1. m \in 2..Len(path)
      BY <1>2, <1>5
    <3>2. Len(p) = m
      BY <2>3
    <3> HIDE DEF p, m
    <3>3. Len(p) # 1
      BY <1>2, <3>1, <3>2
    <3> QED BY <2>1, <3>3 DEF IsDisk
  <2>8. i + 1 \in 0..n /\ Len(path) - (i + 1) = Len(path) - i - 1
    BY <1>2, <1>5
  <2> QED
    BY <2>6, <2>7, <2>8
<1>6. Len(path) - k \in T
  <2>1. \A i \in 0..n : i \in T
    <3> HIDE DEF T, n
    <3> QED BY <1>3, <1>4, <1>5, BoundedInduction
  <2>2. Len(path) - k \in 0..n
    BY <1>2
  <2> HIDE DEF T
  <2> QED
    BY <2>1, <2>2
<1>7. Len(path) - (Len(path) - k) = k /\ (k < Len(path) => Len(path) - k > 0)
  BY <1>2
<1> QED
  BY <1>6, <1>7

\* A resolved path that goes through no link is itself.
LEMMA CanonicalSelf ==
  ASSUME Sound(disk), NEW path \in DOMAIN disk, disk[path].kind # "link"
  PROVE  Canonical(path) = path
<1>1. IsDisk(disk)
  BY DEF Sound
<1>2. path \in Named /\ path \in Paths
  BY <1>1 DEF IsDisk, Named
<1>3. Len(path) \in Nat /\ Len(path) >= 1
  BY <1>2, ParentIs
<1>4. PICK to : IsResolved(to, path, Len(path)) /\ Canonical(path) = to[Len(path)]
  BY <1>2, CanonicalIs
<1> DEFINE T == {k \in 0..Len(path) : to[k] = SubSeq(path, 1, k)}
<1>5. 0 \in T
  <2>1. to[0] = <<>>
    BY <1>3, <1>4 DEF IsResolved
  <2>2. SubSeq(path, 1, 0) = <<>>
    BY SubSeqEmpty
  <2>3. 0 \in 0..Len(path)
    BY <1>3
  <2>4. to[0] = SubSeq(path, 1, 0)
    BY <2>1, <2>2
  <2> QED
    BY <2>3, <2>4
<1>6. ASSUME NEW k \in 0..Len(path), k < Len(path), k \in T PROVE k + 1 \in T
  <2> DEFINE p == SubSeq(path, 1, k + 1)
  <2>1. k + 1 \in 1..Len(path) /\ k + 1 \in 0..Len(path) /\ k + 1 - 1 = k /\ k + 1 # 0
    BY <1>3, <1>6
  <2>2. to[k + 1] = NextOf(path, to[k], k + 1)
    BY <1>4, <2>1 DEF IsResolved
  <2>3. to[k] = SubSeq(path, 1, k)
    BY <1>6
  <2>4. Append(to[k], path[k + 1]) = p
    <3>1. SubSeq(path, 1, k) \in Paths /\ Len(SubSeq(path, 1, k)) = k /\ \A i \in 1..k : SubSeq(path, 1, k)[i] = path[i]
      BY <1>2, PrefixIs
    <3>2. p \in Paths /\ Len(p) = k + 1 /\ \A i \in 1..k + 1 : p[i] = path[i]
      BY <1>2, <2>1, PrefixIs
    <3>3. path[k + 1] \in Int
      BY <1>2, <2>1, ElementOfSeq DEF Paths
    <3> DEFINE s == SubSeq(path, 1, k)
               a == Append(s, path[k + 1])
    <3> HIDE DEF s, p
    <3>4. a \in Seq(Int) /\ Len(a) = k + 1 /\ \A i \in 1..k + 1 : a[i] = IF i = k + 1 THEN path[k + 1] ELSE s[i]
      BY <3>1, <3>3 DEF s, Paths
    <3>5. \A i \in 1..k + 1 : a[i] = p[i]
      BY <3>1, <3>2, <3>4 DEF s
    <3> HIDE DEF a
    <3>6. a = p
      BY <3>2, <3>4, <3>5, SeqEqual DEF Paths
    <3> QED
      BY <2>3, <3>6 DEF a, s
  <2>5. p \in DOMAIN disk /\ disk[p].kind # "link"
    <3>1. p \in DOMAIN disk /\ (k + 1 < Len(path) => disk[p].kind = "dir")
      BY <1>1, <2>1, PrefixesThere
    <3>2. k + 1 = Len(path) => p = path
      BY <1>2, WholePrefix
    <3>3. k + 1 < Len(path) \/ k + 1 = Len(path)
      BY <1>3, <2>1
    <3> HIDE DEF p
    <3> QED
      BY <3>1, <3>2, <3>3
  <2>6. k + 1 > 1 => to[k] # Gone
    <3>1. SUFFICES ASSUME k + 1 > 1 PROVE to[k] # Gone
      OBVIOUS
    <3>2. Len(SubSeq(path, 1, k)) = k
      BY <1>2, PrefixIs
    <3>3. Len(Gone) = 0
      BY DEF Gone
    <3> QED
      BY <2>3, <3>1, <3>2, <3>3
  <2> HIDE DEF p
  <2>7. NextOf(path, to[k], k + 1) = p
    BY <2>4, <2>5, <2>6 DEF NextOf
  <2> QED
    BY <2>1, <2>2, <2>7 DEF p
<1>7. Len(path) \in T
  <2> HIDE DEF T
  <2> QED BY <1>3, <1>5, <1>6, BoundedInduction
<1> QED
  BY <1>2, <1>4, <1>7, WholePrefix

\* What a link of a disk leads to.
BelowLink(nodes, path) ==
  \E link \in DOMAIN nodes : nodes[link].kind = "link" /\ IsPrefix(nodes[link].target, path)

LEMMA PrefixRefl ==
  ASSUME NEW path \in Paths
  PROVE  IsPrefix(path, path)
BY IsPrefixIs DEF Paths

LEMMA PrefixTrans ==
  ASSUME NEW a \in Paths, NEW b \in Paths, NEW c \in Paths, IsPrefix(a, b), IsPrefix(b, c)
  PROVE  IsPrefix(a, c)
<1>1. Len(a) <= Len(b) /\ \A k \in 1..Len(a) : a[k] = b[k]
  BY IsPrefixIs
<1>2. Len(b) <= Len(c) /\ \A k \in 1..Len(b) : b[k] = c[k]
  BY IsPrefixIs
<1>3. Len(a) \in Nat /\ Len(b) \in Nat /\ Len(c) \in Nat
  BY DEF Paths
<1>4. Len(a) <= Len(c) /\ \A k \in 1..Len(a) : a[k] = c[k]
  BY <1>1, <1>2, <1>3
<1> QED
  BY <1>4, IsPrefixIs

\* A path resolves to nothing, to itself, or to what is below a link.
LEMMA CanonicalCases ==
  ASSUME Sound(disk), NEW path \in Paths, Canonical(path) # Gone
  PROVE  /\ Canonical(path) \in DOMAIN disk /\ disk[Canonical(path)].kind # "link"
         /\ Canonical(path) = path \/ BelowLink(disk, Canonical(path))
<1>1. DOMAIN disk \subseteq Named /\ DOMAIN disk \subseteq Paths
  BY DEF Sound, IsDisk, Named
<1>2. Len(path) \in Nat
  BY DEF Paths
<1>3. PICK to : IsResolved(to, path, Len(path)) /\ Canonical(path) = to[Len(path)]
  BY CanonicalIs
<1>4. \A link \in DOMAIN disk : disk[link].kind = "link" =>
         /\ disk[link].target \in Paths
         /\ disk[link].target \in DOMAIN disk => disk[disk[link].target].kind # "link"
  BY DEF Sound, LeadsOn, Named
<1> DEFINE T == {k \in 0..Len(path) :
                  \/ to[k] = SubSeq(path, 1, k)
                  \/ k > 0 /\ to[k] = Gone
                  \/ to[k] \in Paths /\ BelowLink(disk, to[k])}
<1>5. 0 \in T
  <2>1. to[0] = <<>>
    BY <1>2, <1>3 DEF IsResolved
  <2>2. SubSeq(path, 1, 0) = <<>>
    BY SubSeqEmpty
  <2>3. 0 \in 0..Len(path)
    BY <1>2
  <2>4. to[0] = SubSeq(path, 1, 0)
    BY <2>1, <2>2
  <2> QED
    BY <2>3, <2>4
<1>6. ASSUME NEW k \in 0..Len(path), k < Len(path), k \in T PROVE k + 1 \in T
  <2> DEFINE next == Append(to[k], path[k + 1])
  <2>1. k + 1 \in 1..Len(path) /\ k + 1 \in 0..Len(path) /\ k + 1 - 1 = k /\ k + 1 # 0 /\ k + 1 > 0
    BY <1>2, <1>6
  <2>2. to[k + 1] = NextOf(path, to[k], k + 1)
    BY <1>3, <2>1 DEF IsResolved
  <2>3. path[k + 1] \in Int
    BY <2>1, ElementOfSeq DEF Paths
  <2>4. CASE to[k + 1] = Gone
    BY <2>1, <2>4
  <2>5. CASE to[k + 1] # Gone /\ to[k + 1] # next
    <3>1. next \in DOMAIN disk /\ disk[next].kind = "link" /\ to[k + 1] = disk[next].target
      BY <2>2, <2>5 DEF NextOf
    <3> HIDE DEF next
    <3>2. to[k + 1] \in Paths /\ IsPrefix(disk[next].target, to[k + 1])
      BY <1>4, <3>1, PrefixRefl
    <3>3. BelowLink(disk, to[k + 1])
      BY <3>1, <3>2 DEF BelowLink
    <3> QED
      BY <2>1, <3>2, <3>3
  <2>6. CASE to[k + 1] # Gone /\ to[k + 1] = next
    <3>1. k > 0 => to[k] # Gone
      BY <2>2, <2>6 DEF NextOf
    <3>2. CASE to[k] = SubSeq(path, 1, k)
      <4> DEFINE s == SubSeq(path, 1, k)
                 p == SubSeq(path, 1, k + 1)
                 a == Append(s, path[k + 1])
      <4>1. s \in Paths /\ Len(s) = k /\ \A i \in 1..k : s[i] = path[i]
        BY PrefixIs
      <4>2. p \in Paths /\ Len(p) = k + 1 /\ \A i \in 1..k + 1 : p[i] = path[i]
        BY <2>1, PrefixIs
      <4> HIDE DEF s, p
      <4>3. a \in Seq(Int) /\ Len(a) = k + 1 /\ \A i \in 1..k + 1 : a[i] = IF i = k + 1 THEN path[k + 1] ELSE s[i]
        BY <2>3, <4>1 DEF Paths
      <4>4. \A i \in 1..k + 1 : a[i] = p[i]
        BY <4>1, <4>2, <4>3
      <4> HIDE DEF a
      <4>5. a = p
        BY <4>2, <4>3, <4>4, SeqEqual DEF Paths
      <4>6. to[k + 1] = SubSeq(path, 1, k + 1)
        BY <2>6, <3>2, <4>5 DEF a, s, p
      <4> QED
        BY <2>1, <4>6
    <3>3. CASE to[k] \in Paths /\ BelowLink(disk, to[k])
      <4>1. PICK link \in DOMAIN disk : disk[link].kind = "link" /\ IsPrefix(disk[link].target, to[k])
        BY <3>3 DEF BelowLink
      <4>2. next \in Paths /\ Len(next) = Len(to[k]) + 1 /\ \A i \in 1..Len(to[k]) : next[i] = to[k][i]
        BY <2>3, <3>3 DEF Paths
      <4>3. Len(to[k]) \in Nat
        BY <3>3 DEF Paths
      <4>4. IsPrefix(to[k], next)
        <5> HIDE DEF next
        <5> QED BY <3>3, <4>2, <4>3, IsPrefixIs
      <4>5. IsPrefix(disk[link].target, next)
        <5> HIDE DEF next
        <5> QED BY <1>4, <3>3, <4>1, <4>2, <4>4, PrefixTrans
      <4>6. to[k + 1] \in Paths /\ BelowLink(disk, to[k + 1])
        <5> HIDE DEF next
        <5> QED BY <2>6, <4>1, <4>2, <4>5 DEF BelowLink
      <4> QED
        BY <2>1, <4>6
    <3> QED
      BY <1>6, <3>1, <3>2, <3>3
  <2> QED
    BY <2>4, <2>5, <2>6
<1>7. Len(path) \in T
  <2> HIDE DEF T
  <2> QED BY <1>2, <1>5, <1>6, BoundedInduction
<1>8. Canonical(path) = path \/ BelowLink(disk, Canonical(path))
  BY <1>3, <1>7, WholePrefix
<1>9. Canonical(path) \in DOMAIN disk /\ disk[Canonical(path)].kind # "link"
  <2>1. Len(path) \in 0..Len(path)
    BY <1>2
  <2>2. to[Len(path)] = IF Len(path) = 0 THEN <<>> ELSE NextOf(path, to[Len(path) - 1], Len(path))
    BY <1>3, <2>1 DEF IsResolved
  <2>3. Canonical(path) = NextOf(path, to[Len(path) - 1], Len(path))
    BY <1>3, <2>2 DEF Gone
  <2> QED
    BY <1>4, <2>3 DEF NextOf
<1> QED
  BY <1>8, <1>9

-----------------------------------------------------------------------------
(* What is in a scope *)

LEMMA ListedInIs ==
  ASSUME NEW scope, NEW nodes, NEW entry
  PROVE  entry \in ListedIn(scope, nodes) <=>
           \E node \in nodes : /\ IsUnder(scope, node[1]) /\ IsListed(scope, node[1], node[2])
                               /\ entry = FileEntry(node[1], node[2])
BY Zenon DEF ListedIn

\* What a link among some nodes leads to.
IsLinked(nodes, path) == \E link \in nodes : link[2].kind = "link" /\ IsPrefix(link[2].target, path)

LEMMA LinkedInIs ==
  ASSUME NEW scope, NEW nodes, NEW entry
  PROVE  entry \in LinkedIn(scope, nodes) <=>
           \E name, node \in nodes : /\ IsUnder(scope, name[1]) \/ IsLinked(nodes, name[1])
                                     /\ IsLinked(nodes, node[1])
                                     /\ entry = EntryOf(scope.tool, name[1], node[2])
<1> DEFINE linked == {node \in nodes : \E link \in nodes : link[2].kind = "link" /\ IsPrefix(link[2].target, node[1])}
           names  == {name \in nodes : IsUnder(scope, name[1])} \cup linked
<1>1. LinkedIn(scope, nodes) = {EntryOf(scope.tool, name[1], node[2]) : name \in names, node \in linked}
  BY DEF LinkedIn
<1>2. \A node : node \in linked <=> node \in nodes /\ IsLinked(nodes, node[1])
  BY DEF IsLinked
<1>3. \A name : name \in names <=> name \in nodes /\ (IsUnder(scope, name[1]) \/ IsLinked(nodes, name[1]))
  BY <1>2
<1> HIDE DEF linked, names
<1>4. entry \in LinkedIn(scope, nodes) <=>
        \E name \in names : \E node \in linked : entry = EntryOf(scope.tool, name[1], node[2])
  BY <1>1
<1> QED
  BY <1>2, <1>3, <1>4

LEMMA StrictPrefixIs ==
  ASSUME NEW a \in Paths, NEW b \in Paths
  PROVE  IsStrictPrefix(a, b) <=> IsPrefix(a, b) /\ Len(a) < Len(b)
<1>1. Len(a) \in Nat /\ Len(b) \in Nat
  BY DEF Paths
<1>2. ASSUME IsPrefix(a, b), ~(Len(a) < Len(b)) PROVE a = b
  <2>1. Len(a) = Len(b) /\ \A k \in 1..Len(a) : a[k] = b[k]
    BY <1>1, <1>2, IsPrefixIs
  <2> QED
    BY <2>1, SeqEqual DEF Paths
<1> QED
  BY <1>1, <1>2 DEF IsStrictPrefix

\* The directory of a path is before it.
LEMMA ParentPrefix ==
  ASSUME NEW path \in Named
  PROVE  Parent(path) \in Paths /\ IsStrictPrefix(Parent(path), path) /\ IsPrefix(Parent(path), path)
<1>1. path \in Paths
  BY DEF Named
<1>2. /\ Len(path) \in Nat /\ Len(path) >= 1 /\ Parent(path) = SubSeq(path, 1, Len(path) - 1)
      /\ Parent(path) \in Paths /\ Len(Parent(path)) = Len(path) - 1
  BY ParentIs
<1>3. Len(path) - 1 \in 0..Len(path)
  BY <1>2
<1>4. \A k \in 1..Len(Parent(path)) : Parent(path)[k] = path[k]
  BY <1>1, <1>2, <1>3, PrefixIs
<1> DEFINE p == Parent(path)
<1>5. p \in Paths /\ Len(p) <= Len(path) /\ Len(p) < Len(path) /\ \A k \in 1..Len(p) : p[k] = path[k]
  BY <1>2, <1>4
<1> HIDE DEF p
<1>6. IsPrefix(p, path)
  BY <1>1, <1>5, IsPrefixIs
<1>7. IsStrictPrefix(p, path)
  BY <1>1, <1>5, <1>6, StrictPrefixIs
<1> QED
  BY <1>5, <1>6, <1>7 DEF p

\* The way from a directory down to a path begins with one of its names.
LEMMA StepDown ==
  ASSUME NEW directory \in Paths, NEW path \in Named, IsStrictPrefix(directory, path)
  PROVE  LET k == Len(directory) + 1
             child == SubSeq(path, 1, k)
         IN  /\ k \in 1..Len(path) /\ child \in Named /\ Parent(child) = directory
             /\ k = Len(path) => child = path
             /\ k < Len(path) => IsStrictPrefix(child, path)
<1> DEFINE k == Len(directory) + 1
           child == SubSeq(path, 1, k)
<1>1. path \in Paths
  BY DEF Named
<1>2. Len(directory) \in Nat /\ Len(path) \in Nat
  BY <1>1 DEF Paths
<1>3. Len(directory) < Len(path) /\ \A j \in 1..Len(directory) : directory[j] = path[j]
  BY <1>1, StrictPrefixIs, IsPrefixIs
<1>4. k \in 1..Len(path) /\ k \in 0..Len(path)
  BY <1>2, <1>3
<1>5. child \in Paths /\ Len(child) = k /\ \A j \in 1..k : child[j] = path[j]
  BY <1>1, <1>4, PrefixIs
<1>6. child \in Named
  <2>1. Len(Gone) = 0
    BY DEF Gone
  <2> QED
    BY <1>2, <1>5, <2>1 DEF Named
<1>7. Parent(child) = directory
  <2> HIDE DEF child
  <2>1. Parent(child) = SubSeq(child, 1, k - 1) /\ Parent(child) \in Paths /\ Len(Parent(child)) = k - 1
    BY <1>5, <1>6, ParentIs
  <2>2. k - 1 = Len(directory) /\ k - 1 \in 0..Len(child)
    BY <1>2, <1>5
  <2>3. \A j \in 1..Len(directory) : Parent(child)[j] = child[j]
    BY <1>5, <2>1, <2>2, PrefixIs
  <2>4. \A j \in 1..Len(directory) : child[j] = path[j]
    BY <1>2, <1>5
  <2>5. \A j \in 1..Len(directory) : Parent(child)[j] = directory[j]
    BY <1>3, <2>3, <2>4
  <2> QED
    BY <2>1, <2>2, <2>5, SeqEqual DEF Paths
<1>8. k = Len(path) => child = path
  BY <1>1, WholePrefix
<1>9. k < Len(path) => IsStrictPrefix(child, path)
  <2> HIDE DEF child, k
  <2>1. k < Len(path) => IsPrefix(child, path)
    BY <1>1, <1>5, IsPrefixIs
  <2> QED
    BY <1>1, <1>5, <2>1, StrictPrefixIs
<1> QED
  BY <1>4, <1>6, <1>7, <1>8, <1>9

\* What a path is below is a directory of the disk, and resolves to itself.
LEMMA AncestorThere ==
  ASSUME Sound(disk), NEW path \in DOMAIN disk, NEW directory \in Named, IsStrictPrefix(directory, path)
  PROVE  directory \in DOMAIN disk /\ disk[directory].kind = "dir" /\ Canonical(directory) = directory
<1>1. IsDisk(disk) /\ path \in Paths /\ directory \in Paths
  BY DEF Sound, IsDisk, Named
<1>2. /\ Len(directory) \in Nat /\ Len(path) \in Nat /\ Len(directory) >= 1
  BY <1>1, ParentIs DEF Paths
<1>3. Len(directory) < Len(path) /\ \A j \in 1..Len(directory) : directory[j] = path[j]
  BY <1>1, StrictPrefixIs, IsPrefixIs
<1>4. Len(directory) \in 1..Len(path) /\ Len(directory) \in 0..Len(path)
  BY <1>2, <1>3
<1>5. directory = SubSeq(path, 1, Len(directory))
  <2> DEFINE p == SubSeq(path, 1, Len(directory))
  <2>1. p \in Paths /\ Len(p) = Len(directory) /\ \A j \in 1..Len(directory) : p[j] = path[j]
    BY <1>1, <1>4, PrefixIs
  <2> HIDE DEF p
  <2>2. p = directory
    BY <1>1, <1>3, <2>1, SeqEqual DEF Paths
  <2> QED
    BY <2>2 DEF p
<1>6. directory \in DOMAIN disk /\ disk[directory].kind = "dir"
  BY <1>1, <1>3, <1>4, <1>5, PrefixesThere
<1>7. disk[directory].kind # "link"
  BY <1>6
<1> QED
  BY <1>6, <1>7, CanonicalSelf

LEMMA InRootsBelow ==
  ASSUME NEW roots \in SUBSET Paths, NEW directory \in Paths, NEW path \in Paths,
         InRoots(roots, directory), IsPrefix(directory, path)
  PROVE  InRoots(roots, path)
BY PrefixTrans DEF InRoots

-----------------------------------------------------------------------------
(* A scan, while the disk changes *)

AliveInv ==
  /\ IsFiniteSet(alive) /\ NodesOf(disk) \subseteq alive /\ steady \subseteq NodesOf(disk)
  /\ \A node \in alive :
       /\ node[1] \in Named /\ node[2].kind \in {"file", "dir", "link"}
       /\ node[2].kind = "link" => node[2].target \in Named
       /\ node[1] \in FilePaths => node[2].kind = "file"
       /\ node[1] \in DirPaths => node[2].kind # "file"
       /\ node[1] \notin FilePaths \cup DirPaths => node[1] \in DOMAIN disk /\ disk[node[1]] = node[2]

\* Out of its scope, a scan is below a link.
Astray(path) ==
  alive # steady /\ IsLinked(alive, path)

IsDirAhead(directory) ==
  /\ InRoots(listing.roots, directory)
  /\ \/ \E start \in StartsOf(Scope) : directory = start \/ (Scope.recursive /\ IsPrefix(start, directory))
     \/ Astray(directory)
  /\ \E node : /\ <<directory, node>> \in alive /\ node.kind # "link"
               /\ alive = steady => node.kind = "dir" \/ directory \in listing.roots

IsNameAhead(name) ==
  /\ InRoots(listing.roots, name.path)
  /\ IsUnder(Scope, name.path) \/ Astray(name.path)
  /\ \E node : /\ <<name.path, node>> \in alive /\ node.kind # "link"
               /\ (name.isDir <=> node.kind = "dir") \/ (name.resolved /\ Astray(name.path))
  /\ name.resolved /\ Scope.tool = "documents" =>
       ~name.isDir /\ (IsSupported(name.path) \/ Astray(name.path))

AreAhead(dirs, batch) ==
  /\ \A i \in 1..Len(dirs) : IsDirAhead(dirs[i])
  /\ \A name \in batch : IsNameAhead(name)
  /\ ListsRoots => batch = {}

\* What is to be read yet leads to a path.
IsAhead(dirs, batch, path, node) ==
  IF ListsRoots THEN \E i \in 1..Len(dirs) : dirs[i] = path
  ELSE \/ \E i \in 1..Len(dirs) : LeadsTo(Scope, dirs[i], path)
       \/ \E name \in batch : \/ name.path = path /\ (name.isDir <=> node.kind = "dir")
                              \/ Scope.recursive /\ name.isDir /\ IsStrictPrefix(name.path, path)

\* Everything that is there all along was found or is ahead.
Covers(found, dirs, batch) ==
  \A node \in steady : IsUnder(Scope, node[1]) /\ IsListed(Scope, node[1], node[2]) =>
     FileEntry(node[1], node[2]) \in found \/ IsAhead(dirs, batch, node[1], node[2])

ScopeInv ==
  /\ listing.roots \subseteq Named
  /\ listing.path # NoPath => listing.path \in Named
  /\ \A start \in StartsOf(Scope) : InRoots(listing.roots, start)

BeganInv ==
  /\ command.began \in Nat /\ runStart <= command.began /\ command.began <= changed
  /\ changed = command.began => alive = steady /\ listing.roots = CanonicalRoots
  /\ command.cursor # NoListCursor =>
       /\ command.cursor.tool = command.ask.tool /\ command.cursor.recursive = command.ask.recursive
       /\ command.cursor.roots = listing.roots /\ command.cursor.path = listing.path

ScanInv ==
  listing.stage = "scanning" =>
    /\ AliveInv /\ ScopeInv /\ BeganInv
    /\ AreAhead(listing.dirs, listing.batch)
    /\ listing.found \subseteq Met
    /\ Covers(listing.found, listing.dirs, listing.batch)

\* As long as nothing changed, the cursor names what the disk has.
RunInv ==
  /\ changed \in Nat /\ runStart \in Nat /\ runStart <= changed
  /\ heldCursor # NoListCursor =>
       /\ heldCursor.total = Len(heldCursor.manifest)
       /\ changed = runStart =>
            /\ heldCursor.roots = CanonicalRoots
            /\ heldCursor.manifest = InPathOrder(ListedIn(heldCursor, NodesOf(disk)))

\* The invariant: the disk, the run of pages, the scan, and what was answered.
ExactInv == Sound(disk) /\ RunInv /\ ScanInv /\ ListingsMatchDisk

LEMMA ScopeIs ==
  /\ Scope.tool = command.ask.tool /\ Scope.recursive = command.ask.recursive
  /\ Scope.roots = listing.roots /\ Scope.path = listing.path
  /\ OfRoots(Scope) <=> ListsRoots
BY DEF Scope, OfRoots, ListsRoots

LEMMA NodesOfIs ==
  ASSUME NEW nodes, NEW path, NEW node
  PROVE  <<path, node>> \in NodesOf(nodes) <=> path \in DOMAIN nodes /\ nodes[path] = node
BY DEF NodesOf

\* What was at a path resolves to itself, as long as nothing changes, or to something below a link.
LEMMA ResolvedAlive ==
  ASSUME Sound(disk), AliveInv, NEW path, NEW node, <<path, node>> \in alive, node.kind # "link"
  PROVE  /\ alive = steady => path \in DOMAIN disk /\ disk[path] = node /\ Canonical(path) = path
         /\ Canonical(path) = Gone => alive # steady
         /\ Canonical(path) # Gone => /\ Canonical(path) \in DOMAIN disk /\ Canonical(path) \in Named
                                      /\ <<Canonical(path), disk[Canonical(path)]>> \in alive
                                      /\ disk[Canonical(path)].kind \in {"file", "dir"}
                                      /\ Canonical(path) = path \/ Astray(Canonical(path))
<1>1. path \in Named /\ path \in Paths
  BY DEF AliveInv, Named
<1>2. alive = steady => path \in DOMAIN disk /\ disk[path] = node
  BY NodesOfIs DEF AliveInv
<1>3. alive = steady => Canonical(path) = path
  BY <1>2, CanonicalSelf
<1>4. Canonical(path) = Gone => alive # steady
  BY <1>1, <1>3 DEF Named
<1>5. ASSUME Canonical(path) # Gone
      PROVE  /\ Canonical(path) \in DOMAIN disk /\ Canonical(path) \in Named
             /\ <<Canonical(path), disk[Canonical(path)]>> \in alive
             /\ disk[Canonical(path)].kind \in {"file", "dir"}
             /\ Canonical(path) = path \/ Astray(Canonical(path))
  <2> DEFINE real == Canonical(path)
  <2>1. /\ real \in DOMAIN disk /\ disk[real].kind # "link"
        /\ real = path \/ BelowLink(disk, real)
    BY <1>1, <1>5, CanonicalCases
  <2> HIDE DEF real
  <2>2. real \in Named /\ disk[real].kind \in {"file", "dir"}
    BY <2>1 DEF Sound, IsDisk
  <2>3. <<real, disk[real]>> \in alive
    BY <2>1, NodesOfIs DEF AliveInv
  <2>4. ASSUME real # path PROVE Astray(real)
    <3>1. PICK link \in DOMAIN disk : disk[link].kind = "link" /\ IsPrefix(disk[link].target, real)
      BY <2>1, <2>4 DEF BelowLink
    <3>2. <<link, disk[link]>> \in alive
      BY NodesOfIs DEF AliveInv
    <3>3. alive # steady
      BY <1>3, <2>4 DEF real
    <3> DEFINE pair == <<link, disk[link]>>
    <3>4. pair \in alive /\ pair[2].kind = "link" /\ IsPrefix(pair[2].target, real)
      BY <3>1, <3>2
    <3> HIDE DEF pair
    <3> QED
      BY <3>3, <3>4 DEF Astray, IsLinked
  <2> QED
    BY <2>1, <2>2, <2>3, <2>4 DEF real
<1> QED
  BY <1>2, <1>3, <1>4, <1>5

LEMMA EntryOfListed ==
  ASSUME NEW path, NEW node, IsListed(Scope, path, node)
  PROVE  EntryOf(Scope.tool, path, node) = FileEntry(path, node)
BY DEF EntryOf, FileEntry, IsListed

\* What may have been met: what a scope has, or what is below a link, under the path of what a scan resolved.
LEMMA MetIs ==
  ASSUME NEW path, NEW was, <<path, was>> \in alive, NEW there, NEW node, <<there, node>> \in alive,
         IsUnder(Scope, path) \/ Astray(path),
         (there = path /\ IsUnder(Scope, path) /\ IsListed(Scope, path, node)) \/ Astray(there)
  PROVE  EntryOf(Scope.tool, path, node) \in Met
<1> DEFINE pair == <<there, node>>
           name == <<path, was>>
<1>1. pair \in alive /\ pair[1] = there /\ pair[2] = node /\ name \in alive /\ name[1] = path
  OBVIOUS
<1> HIDE DEF pair, name
<1>2. CASE there = path /\ IsUnder(Scope, path) /\ IsListed(Scope, path, node)
  <2>1. FileEntry(path, node) \in ListedIn(Scope, alive)
    BY <1>1, <1>2, ListedInIs
  <2> QED
    BY <1>2, <2>1, EntryOfListed DEF Met
<1>3. CASE Astray(there)
  <2>1. IsUnder(Scope, name[1]) \/ IsLinked(alive, name[1])
    BY <1>1 DEF Astray
  <2>2. IsLinked(alive, pair[1])
    BY <1>1, <1>3 DEF Astray
  <2>3. EntryOf(Scope.tool, path, node) \in LinkedIn(Scope, alive)
    BY <1>1, <2>1, <2>2, LinkedInIs
  <2> QED
    BY <1>3, <2>3 DEF Met, Astray
<1> QED
  BY <1>2, <1>3

LEMMA MetFinite ==
  ASSUME AliveInv
  PROVE  IsFiniteSet(Met)
<1> DEFINE f == [node \in alive |-> FileEntry(node[1], node[2])]
           S == {FileEntry(node[1], node[2]) : node \in alive}
           g == [pair \in alive \X alive |-> EntryOf(Scope.tool, pair[1][1], pair[2][2])]
           T == {EntryOf(Scope.tool, pair[1][1], pair[2][2]) : pair \in alive \X alive}
<1>1. f \in Surjection(alive, S) /\ g \in Surjection(alive \X alive, T)
  BY DEF Surjection
<1>2. IsFiniteSet(alive) /\ IsFiniteSet(alive \X alive)
  BY FS_Product DEF AliveInv
<1>3. \A name, node \in alive : EntryOf(Scope.tool, name[1], node[2]) \in T
  <2>1. SUFFICES ASSUME NEW name \in alive, NEW node \in alive
                 PROVE  EntryOf(Scope.tool, name[1], node[2]) \in T
    OBVIOUS
  <2> DEFINE pair == <<name, node>>
  <2>2. pair \in alive \X alive /\ pair[1] = name /\ pair[2] = node
    OBVIOUS
  <2> HIDE DEF pair
  <2> QED
    BY <2>2
<1>4. \A node \in alive : FileEntry(node[1], node[2]) \in S
  OBVIOUS
<1> HIDE DEF f, g, S, T
<1>5. IsFiniteSet(S) /\ IsFiniteSet(T)
  BY <1>1, <1>2, FS_Surjection
<1>6. IsFiniteSet(S \cup T)
  BY <1>5, FS_Union
<1>7. ListedIn(Scope, alive) \subseteq S
  BY <1>4, ListedInIs
<1>8. LinkedIn(Scope, alive) \subseteq T
  BY <1>3, LinkedInIs
<1>9. Met \subseteq S \cup T
  BY <1>7, <1>8 DEF Met
<1> QED
  BY <1>6, <1>9, FS_Subset

-----------------------------------------------------------------------------
(* The steps of a scan *)

LEMMA RootsStay ==
  ASSUME UNCHANGED <<disk, configured>>
  PROVE  CanonicalRoots' = CanonicalRoots
BY DEF CanonicalRoots, Canonical, Gone

\* What a step of a scan leaves as it was.
LEMMA SameScan ==
  ASSUME NothingElse, listing'.roots = listing.roots, listing'.path = listing.path
  PROVE  /\ UNCHANGED <<disk, configured, command, heldCursor, changed, runStart, alive, steady>>
         /\ Scope' = Scope /\ Met' = Met /\ (ListsRoots' <=> ListsRoots) /\ CanonicalRoots' = CanonicalRoots
<1>1. UNCHANGED <<disk, configured, command, heldCursor, changed, runStart, alive, steady>>
  BY DEF NothingElse
<1>2. Scope' = Scope
  BY <1>1 DEF Scope
<1>3. Met' = Met
  BY <1>1, <1>2 DEF Met
<1>4. ListsRoots' <=> ListsRoots
  BY <1>1 DEF ListsRoots
<1>5. CanonicalRoots' = CanonicalRoots
  BY <1>1, RootsStay
<1> QED
  BY <1>1, <1>2, <1>3, <1>4, <1>5

LEMMA RunStays ==
  ASSUME RunInv, UNCHANGED <<disk, heldCursor, changed, runStart>>, CanonicalRoots' = CanonicalRoots
  PROVE  RunInv'
<1>1. NodesOf(disk)' = NodesOf(disk)
  BY DEF NodesOf
<1> QED
  BY <1>1 DEF RunInv

LEMMA ScanGoesOn ==
  ASSUME ListInv, ExactInv, NothingElse, UNCHANGED outcome,
         listing.stage = "scanning", listing'.stage = "scanning",
         listing'.roots = listing.roots, listing'.path = listing.path,
         AreAhead(listing'.dirs, listing'.batch), listing'.found \subseteq Met,
         Covers(listing'.found, listing'.dirs, listing'.batch)
  PROVE  ExactInv'
<1>1. /\ UNCHANGED <<disk, configured, command, heldCursor, changed, runStart, alive, steady>>
      /\ Scope' = Scope /\ Met' = Met /\ (ListsRoots' <=> ListsRoots) /\ CanonicalRoots' = CanonicalRoots
  BY SameScan
<1>2. Sound(disk)' /\ RunInv'
  BY <1>1, RunStays DEF ExactInv
<1>3. ListingsMatchDisk'
  BY DEF ListingsMatchDisk, ListInv, CallInv, NoOutcome
<1>4. AliveInv'
  BY <1>1 DEF ExactInv, ScanInv, AliveInv, NodesOf
<1>5. ScopeInv'
  BY <1>1 DEF ExactInv, ScanInv, ScopeInv
<1>6. BeganInv'
  BY <1>1 DEF ExactInv, ScanInv, BeganInv
<1>7. AreAhead(listing.dirs, listing.batch)'
  BY <1>1 DEF AreAhead, IsDirAhead, IsNameAhead, Astray, IsLinked
<1>8. Covers(listing.found, listing.dirs, listing.batch)'
  BY <1>1 DEF Covers, IsAhead
<1> QED
  BY <1>1, <1>2, <1>3, <1>4, <1>5, <1>6, <1>7, <1>8 DEF ExactInv, ScanInv

\* A scan fails only because of the disk.
LEMMA ScanFails ==
  ASSUME ListInv, ExactInv, NothingElse, listing.stage = "scanning", NEW why, FailListing(why), why # "stale",
         why \in {"retrieval", "blocked"} =>
           alive # steady \/ \E node \in alive : node[1] \in listing.roots /\ node[2].kind # "dir",
         why = "limit" => Cardinality(Met) > MaxEntries
  PROVE  ExactInv'
<1>0. /\ outcome' = Error(why, TRUE) /\ listing'.stage = "idle"
      /\ listing'.roots = listing.roots /\ listing'.path = listing.path
  BY DEF FailListing, ListInv, ListingShape
<1>1. /\ UNCHANGED <<disk, configured, command, heldCursor, changed, runStart, alive, steady>>
      /\ Scope' = Scope /\ Met' = Met /\ (ListsRoots' <=> ListsRoots) /\ CanonicalRoots' = CanonicalRoots
  BY <1>0, SameScan
<1>2. Sound(disk)' /\ RunInv'
  BY <1>1, RunStays DEF ExactInv
<1>3. outcome'.answer = "error" /\ outcome'.why = why
  BY <1>0 DEF Error
<1>4. ListingsMatchDisk'
  BY <1>0, <1>1, <1>3 DEF ListingsMatchDisk
<1> QED
  BY <1>0, <1>2, <1>4 DEF ExactInv, ScanInv

\* An entry that a scan may have met.
LEMMA FoundExact ==
  ASSUME ListInv, ExactInv, NothingElse, listing.stage = "scanning", NEW entry \in Met, NEW next,
         next = [listing EXCEPT !.dirs = next.dirs, !.batch = next.batch], Found(entry, next),
         AreAhead(next.dirs, next.batch), Covers(Put(listing.found, entry), next.dirs, next.batch)
  PROVE  ExactInv'
<1>1. AliveInv /\ listing.found \subseteq Met
  BY DEF ExactInv, ScanInv
<1>2. Put(listing.found, entry) \subseteq Met
  BY <1>1 DEF Put
<1>3. CASE FailListing("limit") /\ Cardinality(Put(listing.found, entry)) > MaxEntries
  <2>1. IsFiniteSet(Met)
    BY <1>1, MetFinite
  <2>2. IsFiniteSet(Put(listing.found, entry)) /\ Cardinality(Put(listing.found, entry)) <= Cardinality(Met)
    BY <1>2, <2>1, FS_Subset
  <2>3. Cardinality(Put(listing.found, entry)) \in Nat /\ Cardinality(Met) \in Nat /\ MaxEntries \in Nat
    BY <2>1, <2>2, FS_CardinalityType, CallAssumption
  <2>4. Cardinality(Met) > MaxEntries
    BY <1>3, <2>2, <2>3
  <2> QED
    BY <1>3, <2>4, ScanFails
<1>4. CASE listing' = [next EXCEPT !.found = Put(listing.found, entry)] /\ UNCHANGED outcome
  <2>1. /\ DOMAIN next = DOMAIN listing /\ next.stage = listing.stage
        /\ next.roots = listing.roots /\ next.path = listing.path
    BY DEF ListInv, ListingShape
  <2>2. /\ listing'.stage = "scanning" /\ listing'.dirs = next.dirs /\ listing'.batch = next.batch
        /\ listing'.found = Put(listing.found, entry)
        /\ listing'.roots = listing.roots /\ listing'.path = listing.path
    BY <1>4, <2>1 DEF ListInv, ListingShape
  <2> QED
    BY <1>2, <1>4, <2>2, ScanGoesOn
<1> QED
  BY <1>3, <1>4 DEF Found

\* A step that finds nothing.
LEMMA NextExact ==
  ASSUME ListInv, ExactInv, NothingElse, listing.stage = "scanning", NEW next,
         next = [listing EXCEPT !.dirs = next.dirs, !.batch = next.batch],
         listing' = next, UNCHANGED outcome,
         AreAhead(next.dirs, next.batch), Covers(listing.found, next.dirs, next.batch)
  PROVE  ExactInv'
<1>1. /\ DOMAIN next = DOMAIN listing /\ next.stage = listing.stage /\ next.found = listing.found
      /\ next.roots = listing.roots /\ next.path = listing.path
  BY DEF ListInv, ListingShape
<1>2. listing.found \subseteq Met
  BY DEF ExactInv, ScanInv
<1> QED
  BY <1>1, <1>2, ScanGoesOn

LEMMA LastIs ==
  ASSUME NEW dirs \in Seq(Paths), dirs # <<>>
  PROVE  /\ Len(dirs) \in Nat /\ Len(dirs) \in 1..Len(dirs) /\ Last(dirs) = dirs[Len(dirs)]
         /\ Last(dirs) \in Paths /\ Front(dirs) \in Seq(Paths) /\ Len(Front(dirs)) = Len(dirs) - 1
         /\ \A i \in 1..Len(dirs) - 1 : Front(dirs)[i] = dirs[i]
<1>1. Len(dirs) \in Nat /\ Len(dirs) # 0 /\ Len(dirs) \in 1..Len(dirs)
  BY EmptySeq
<1>2. Len(dirs) - 1 \in 0..Len(dirs)
  BY <1>1
<1>3. /\ SubSeq(dirs, 1, Len(dirs) - 1) \in Seq(Paths) /\ Len(SubSeq(dirs, 1, Len(dirs) - 1)) = Len(dirs) - 1
      /\ \A i \in 1..Len(dirs) - 1 : SubSeq(dirs, 1, Len(dirs) - 1)[i] = dirs[i]
  BY <1>2, FirstOnes
<1> QED
  BY <1>1, <1>3, ElementOfSeq DEF Last, Front

\* Without the directory read, and with the names in it.
LEMMA FrontAhead ==
  ASSUME NEW dirs \in Seq(Paths), dirs # <<>>, NEW batch, AreAhead(dirs, {}), \A name \in batch : IsNameAhead(name),
         ListsRoots => batch = {}
  PROVE  AreAhead(Front(dirs), batch)
<1>1. /\ Len(dirs) \in Nat /\ Len(Front(dirs)) = Len(dirs) - 1
      /\ \A i \in 1..Len(dirs) - 1 : Front(dirs)[i] = dirs[i]
  BY LastIs
<1>2. ASSUME NEW i \in 1..Len(Front(dirs)) PROVE IsDirAhead(Front(dirs)[i])
  <2>1. i \in 1..Len(dirs) - 1 /\ i \in 1..Len(dirs)
    BY <1>1
  <2>2. IsDirAhead(dirs[i])
    BY <2>1 DEF AreAhead
  <2> QED
    BY <1>1, <2>1, <2>2
<1> QED
  BY <1>2 DEF AreAhead

\* A path that is ahead is so without the directory read, or is below it.
LEMMA FrontLeads ==
  ASSUME NEW dirs \in Seq(Paths), dirs # <<>>, NEW batch, NEW path, NEW node, IsAhead(dirs, {}, path, node)
  PROVE  \/ IsAhead(Front(dirs), batch, path, node)
         \/ IF ListsRoots THEN Last(dirs) = path ELSE LeadsTo(Scope, Last(dirs), path)
<1>1. /\ Len(dirs) \in Nat /\ Last(dirs) = dirs[Len(dirs)] /\ Len(Front(dirs)) = Len(dirs) - 1
      /\ \A i \in 1..Len(dirs) - 1 : Front(dirs)[i] = dirs[i]
  BY LastIs
<1>2. PICK i \in 1..Len(dirs) : IF ListsRoots THEN dirs[i] = path ELSE LeadsTo(Scope, dirs[i], path)
  BY DEF IsAhead
<1>3. CASE i = Len(dirs)
  BY <1>1, <1>2, <1>3
<1>4. CASE i # Len(dirs)
  <2>1. i \in 1..Len(Front(dirs)) /\ Front(dirs)[i] = dirs[i]
    BY <1>1, <1>4
  <2> QED
    BY <1>2, <2>1 DEF IsAhead
<1> QED
  BY <1>3, <1>4

\* An entry takes the place of none that is there all along.
LEMMA PutKeeps ==
  ASSUME NEW found, NEW entry, NEW node, FileEntry(node[1], node[2]) \in found,
         entry.path = node[1] => entry = FileEntry(node[1], node[2])
  PROVE  FileEntry(node[1], node[2]) \in Put(found, entry)
BY FileEntryPath DEF Put

-----------------------------------------------------------------------------
(* The steps of a scan, one by one *)

\* A root is listed, or it went away.
LEMMA ListRootExact ==
  ASSUME ListInv, ExactInv, ListRoot
  PROVE  ExactInv'
<1> DEFINE dirs == listing.dirs
           directory == Last(dirs)
           root == Canonical(directory)
           next == [listing EXCEPT !.dirs = Front(@)]
           entry == FileEntry(root, disk[root])
<1>1. /\ NothingElse /\ listing.stage = "scanning" /\ ListsRoots /\ dirs # <<>> /\ dirs \in Seq(Paths)
  BY DEF ListRoot, ListInv, ListingShape
<1>2. /\ Sound(disk) /\ AliveInv /\ AreAhead(dirs, listing.batch) /\ Covers(listing.found, dirs, listing.batch)
      /\ Scope.roots \subseteq Named
  BY <1>1, ScopeIs DEF ExactInv, ScanInv, ScopeInv
<1>3. listing.batch = {}
  BY <1>1, <1>2 DEF AreAhead
<1>4. AreAhead(Front(dirs), {})
  BY <1>1, <1>2, <1>3, FrontAhead
<1>5. IsDirAhead(directory)
  BY <1>1, <1>2, LastIs DEF AreAhead
<1>6. PICK node : <<directory, node>> \in alive /\ node.kind # "link"
  BY <1>5 DEF IsDirAhead
<1>7. /\ root = Gone => alive # steady
      /\ root # Gone => /\ root \in DOMAIN disk /\ <<root, disk[root]>> \in alive
                        /\ root = directory \/ Astray(root)
  BY <1>2, <1>6, ResolvedAlive
<1>8. /\ next = [listing EXCEPT !.dirs = next.dirs, !.batch = next.batch]
      /\ next.dirs = Front(dirs) /\ next.batch = {}
  BY <1>3 DEF ListInv, ListingShape
<1>9. command.ask.tool = "directory" /\ listing.path = NoPath /\ ~command.ask.recursive /\ OfRoots(Scope)
  BY <1>1, CallAssumption, ScopeIs DEF ListsRoots, ListInv, CallInv
\* A root that is there all along.
<1>10. ASSUME NEW there \in steady, IsListed(Scope, there[1], there[2]), there[1] = directory
       PROVE  root = directory /\ disk[root] = there[2] /\ disk[root].kind = "dir"
  <2>1. there[1] \in DOMAIN disk /\ disk[there[1]] = there[2]
    BY <1>2 DEF AliveInv, NodesOf
  <2>2. there[2].kind = "dir"
    BY <1>9, <1>10 DEF IsListed
  <2>3. disk[directory].kind # "link" /\ directory \in DOMAIN disk
    BY <1>10, <2>1, <2>2
  <2>4. root = directory
    BY <1>2, <2>3, CanonicalSelf
  <2> QED
    BY <1>10, <2>1, <2>2, <2>4
<1>11. \/ root = Gone /\ FailListing("retrieval")
       \/ root # Gone /\ disk[root].kind = "dir" /\ InRoots(listing.roots, root) /\ Found(entry, next)
       \/ /\ root # Gone /\ ~(disk[root].kind = "dir" /\ InRoots(listing.roots, root))
          /\ listing' = next /\ UNCHANGED outcome
  BY DEF ListRoot
<1> HIDE DEF next, root, directory, dirs
<1>12. CASE root = Gone /\ FailListing("retrieval")
  BY <1>1, <1>7, <1>12, ScanFails
<1>13. CASE root # Gone /\ disk[root].kind = "dir" /\ InRoots(listing.roots, root) /\ Found(entry, next)
  <2>1. root = directory => IsUnder(Scope, root) \/ Astray(root)
    BY <1>5, <1>9, ScopeIs DEF IsDirAhead, IsUnder, StartsOf
  <2>2. IsListed(Scope, root, disk[root])
    BY <1>9, <1>13, ScopeIs DEF IsListed
  <2>3. entry \in Met
    <3>1. EntryOf(Scope.tool, root, disk[root]) \in Met
      BY <1>7, <1>13, <2>1, <2>2, MetIs
    <3> QED
      BY <2>2, <3>1, EntryOfListed
  <2>4. Covers(Put(listing.found, entry), Front(dirs), {})
    <3>1. SUFFICES ASSUME NEW there \in steady, IsUnder(Scope, there[1]), IsListed(Scope, there[1], there[2])
                   PROVE  \/ FileEntry(there[1], there[2]) \in Put(listing.found, entry)
                          \/ IsAhead(Front(dirs), {}, there[1], there[2])
      BY DEF Covers
    <3>2. CASE FileEntry(there[1], there[2]) \in listing.found
      <4>1. disk[there[1]] = there[2]
        BY <1>2, <3>1 DEF AliveInv, NodesOf
      <4>2. entry.path = there[1] => entry = FileEntry(there[1], there[2])
        BY <4>1, FileEntryPath
      <4> HIDE DEF entry
      <4> QED
        BY <3>2, <4>2, PutKeeps
    <3>3. CASE IsAhead(dirs, {}, there[1], there[2])
      <4>1. IsAhead(Front(dirs), {}, there[1], there[2]) \/ directory = there[1]
        BY <1>1, <3>3, FrontLeads DEF directory
      <4>2. directory = there[1] => entry = FileEntry(there[1], there[2])
        BY <1>10, <3>1
      <4> QED
        BY <4>1, <4>2 DEF Put
    <3> QED
      BY <1>2, <1>3, <3>1, <3>2, <3>3 DEF Covers
  <2> HIDE DEF entry
  <2> QED
    BY <1>1, <1>4, <1>8, <1>13, <2>3, <2>4, FoundExact
<1>14. CASE /\ root # Gone /\ ~(disk[root].kind = "dir" /\ InRoots(listing.roots, root))
            /\ listing' = next /\ UNCHANGED outcome
  <2>1. Covers(listing.found, Front(dirs), {})
    <3>1. SUFFICES ASSUME NEW there \in steady, IsUnder(Scope, there[1]), IsListed(Scope, there[1], there[2]),
                          IsAhead(dirs, {}, there[1], there[2])
                   PROVE  IsAhead(Front(dirs), {}, there[1], there[2])
      BY <1>2, <1>3 DEF Covers
    <3>2. IsAhead(Front(dirs), {}, there[1], there[2]) \/ directory = there[1]
      BY <1>1, <3>1, FrontLeads DEF directory
    <3>3. directory # there[1]
      BY <1>5, <1>10, <1>14, <3>1 DEF IsDirAhead
    <3> QED
      BY <3>2, <3>3
  <2> QED
    BY <1>1, <1>4, <1>8, <1>14, <2>1, NextExact
<1> QED
  BY <1>11, <1>12, <1>13, <1>14

\* The name in a directory that leads to a path.
LEMMA NameThere ==
  ASSUME Sound(disk), NEW path \in DOMAIN disk, disk[path].kind # "link", NEW directory \in Named,
         LeadsTo(Scope, directory, path)
  PROVE  /\ directory \in DOMAIN disk /\ disk[directory].kind = "dir" /\ Canonical(directory) = directory
         /\ \E child \in DOMAIN disk :
              /\ Parent(child) = directory /\ disk[child].kind # "link"
              /\ child = path \/ (Scope.recursive /\ disk[child].kind = "dir" /\ IsStrictPrefix(child, path))
<1>1. IsDisk(disk) /\ path \in Named /\ directory \in Paths
  BY DEF Sound, IsDisk, Named
<1>2. IsStrictPrefix(directory, path)
  BY <1>1, ParentPrefix DEF LeadsTo
<1>3. directory \in DOMAIN disk /\ disk[directory].kind = "dir" /\ Canonical(directory) = directory
  BY <1>2, AncestorThere
<1>4. CASE ~Scope.recursive
  <2>1. Parent(path) = directory
    BY <1>4 DEF LeadsTo
  <2> QED
    BY <1>3, <2>1
<1>5. CASE Scope.recursive
  <2> DEFINE k == Len(directory) + 1
             child == SubSeq(path, 1, k)
  <2>1. /\ k \in 1..Len(path) /\ child \in Named /\ Parent(child) = directory
        /\ k = Len(path) => child = path
        /\ k < Len(path) => IsStrictPrefix(child, path)
    BY <1>1, <1>2, StepDown
  <2>2. child \in DOMAIN disk /\ (k < Len(path) => disk[child].kind = "dir")
    BY <1>1, <2>1, PrefixesThere
  <2>3. Len(path) \in Nat
    BY <1>1, ParentIs
  <2>4. k < Len(path) \/ k = Len(path)
    BY <2>1, <2>3
  <2> HIDE DEF child, k
  <2>5. disk[child].kind # "link"
    BY <2>1, <2>2, <2>4
  <2> QED
    BY <1>3, <1>5, <2>1, <2>2, <2>4, <2>5
<1> QED
  BY <1>4, <1>5

\* The names of a directory are in the scope when it is, and below a link when it is.
LEMMA NamesAhead ==
  ASSUME Sound(disk), AliveInv, ScopeInv, ~ListsRoots, NEW directory, IsDirAhead(directory),
         Canonical(directory) # Gone, InRoots(listing.roots, Canonical(directory)),
         NEW path \in DOMAIN disk, Parent(path) = Canonical(directory), disk[path].kind # "link",
         NEW name, name.path = path, name.isDir <=> disk[path].kind = "dir", ~name.resolved
  PROVE  IsNameAhead(name)
<1> DEFINE real == Canonical(directory)
<1>1. /\ real \in Named /\ real \in Paths /\ path \in Named /\ path \in Paths /\ real = Parent(path)
      /\ listing.roots \in SUBSET Paths
  BY ParentIs, CanonicalThere, ParentPrefix DEF Sound, IsDisk, Named, ScopeInv
<1>2. IsPrefix(real, path) /\ IsStrictPrefix(real, path)
  BY <1>1, ParentPrefix
<1>3. InRoots(listing.roots, path)
  BY <1>1, <1>2, InRootsBelow
<1>4. PICK node : <<directory, node>> \in alive /\ node.kind # "link"
  BY DEF IsDirAhead
<1>5. real = directory \/ Astray(real)
  BY <1>4, ResolvedAlive
<1>6. ASSUME Astray(real) PROVE Astray(path)
  <2>1. PICK link \in alive : link[2].kind = "link" /\ IsPrefix(link[2].target, real)
    BY <1>6 DEF Astray, IsLinked
  <2>2. link[2].target \in Paths
    BY <2>1 DEF AliveInv, Named
  <2>3. IsPrefix(link[2].target, path)
    BY <1>1, <1>2, <2>1, <2>2, PrefixTrans
  <2> QED
    BY <1>6, <2>1, <2>3 DEF Astray, IsLinked
<1>7. ASSUME real = directory, ~Astray(directory) PROVE IsUnder(Scope, path)
  <2>1. PICK start \in StartsOf(Scope) : directory = start \/ (Scope.recursive /\ IsPrefix(start, directory))
    BY <1>7 DEF IsDirAhead
  <2>2. start \in Paths
    BY ScopeIs DEF StartsOf, ScopeInv, Named
  <2>3. CASE directory = start
    BY <1>1, <1>2, <1>7, <2>1, <2>3, ScopeIs DEF LeadsTo, IsUnder
  <2>4. CASE Scope.recursive /\ IsPrefix(start, directory)
    <3>1. IsPrefix(start, path)
      BY <1>1, <1>2, <1>7, <2>2, <2>4, PrefixTrans
    <3>2. Len(start) <= Len(directory) /\ Len(directory) < Len(path)
      BY <1>1, <1>2, <1>7, <2>2, <2>4, IsPrefixIs, StrictPrefixIs
    <3>3. Len(start) < Len(path)
      BY <1>1, <1>7, <2>2, <3>2 DEF Paths
    <3>4. IsStrictPrefix(start, path)
      BY <1>1, <2>2, <3>1, <3>3, StrictPrefixIs
    <3> QED
      BY <2>1, <2>4, <3>4, ScopeIs DEF LeadsTo, IsUnder
  <2> QED
    BY <2>1, <2>3, <2>4
<1>8. IsUnder(Scope, path) \/ Astray(path)
  BY <1>5, <1>6, <1>7
<1>9. <<path, disk[path]>> \in alive
  BY NodesOfIs DEF AliveInv
<1> QED
  BY <1>3, <1>8, <1>9 DEF IsNameAhead

\* The names of a directory stand for what the directory stood for.
LEMMA ReadDirectoryExact ==
  ASSUME ListInv, ExactInv, ReadDirectory
  PROVE  ExactInv'
<1> DEFINE dirs == listing.dirs
           directory == Last(dirs)
           real  == Canonical(directory)
           names == {path \in DOMAIN disk : Parent(path) = real /\ disk[path].kind # "link"}
           batch == {NameOf(path, disk[path]) : path \in names}
           skip  == [listing EXCEPT !.dirs = Front(dirs)]
           next  == [listing EXCEPT !.dirs = Front(dirs), !.batch = batch]
<1>1. /\ NothingElse /\ listing.stage = "scanning" /\ ~ListsRoots /\ listing.batch = {}
      /\ dirs # <<>> /\ dirs \in Seq(Paths)
  BY DEF ReadDirectory, ListInv, ListingShape
<1>2. /\ Sound(disk) /\ AliveInv /\ AreAhead(dirs, {}) /\ Covers(listing.found, dirs, {}) /\ ScopeInv
  BY <1>1 DEF ExactInv, ScanInv
<1>3. IsDirAhead(directory)
  BY <1>1, <1>2, LastIs DEF AreAhead
<1>4. PICK node : /\ <<directory, node>> \in alive /\ node.kind # "link"
                  /\ alive = steady => node.kind = "dir" \/ directory \in listing.roots
  BY <1>3 DEF IsDirAhead
<1>5. /\ real = Gone => alive # steady
      /\ alive = steady => real = directory /\ disk[directory] = node
      /\ real # Gone => real \in DOMAIN disk
  BY <1>2, <1>4, ResolvedAlive
<1>6. directory \in Named
  <2> DEFINE pair == <<directory, node>>
  <2>1. pair \in alive /\ pair[1] = directory
    BY <1>4
  <2> HIDE DEF pair
  <2> QED
    BY <1>2, <2>1 DEF AliveInv
<1>7. /\ skip = [listing EXCEPT !.dirs = skip.dirs, !.batch = skip.batch]
      /\ skip.dirs = Front(dirs) /\ skip.batch = {}
  BY <1>1 DEF ListInv, ListingShape
<1>8. /\ next = [listing EXCEPT !.dirs = next.dirs, !.batch = next.batch]
      /\ next.dirs = Front(dirs) /\ next.batch = batch
  BY DEF ListInv, ListingShape
\* A directory that leads to what is there all along is read.
<1>9. ASSUME NEW there \in steady, IsListed(Scope, there[1], there[2]), LeadsTo(Scope, directory, there[1])
      PROVE  /\ real = directory /\ InRoots(listing.roots, real)
             /\ \E name \in batch :
                  \/ name.path = there[1] /\ (name.isDir <=> there[2].kind = "dir")
                  \/ Scope.recursive /\ name.isDir /\ IsStrictPrefix(name.path, there[1])
  <2>1. there[1] \in DOMAIN disk /\ disk[there[1]] = there[2]
    BY <1>2 DEF AliveInv, NodesOf
  <2>2. disk[there[1]].kind # "link"
    BY <1>9, <2>1 DEF IsListed
  <2>3. real = directory
    BY <1>2, <1>6, <1>9, <2>1, <2>2, NameThere
  <2>4. PICK child \in DOMAIN disk :
          /\ Parent(child) = directory /\ disk[child].kind # "link"
          /\ child = there[1] \/ (Scope.recursive /\ disk[child].kind = "dir" /\ IsStrictPrefix(child, there[1]))
    BY <1>2, <1>6, <1>9, <2>1, <2>2, NameThere
  <2> DEFINE name == NameOf(child, disk[child])
  <2>5. name \in batch
    BY <2>3, <2>4
  <2>6. name.path = child /\ (name.isDir <=> disk[child].kind = "dir")
    BY DEF NameOf
  <2> HIDE DEF name, batch, real
  <2>7. \/ name.path = there[1] /\ (name.isDir <=> there[2].kind = "dir")
        \/ Scope.recursive /\ name.isDir /\ IsStrictPrefix(name.path, there[1])
    BY <2>1, <2>4, <2>6
  <2> QED
    BY <1>3, <2>3, <2>5, <2>7 DEF IsDirAhead
<1>10. \/ /\ real = Gone \/ (real # Gone /\ InRoots(listing.roots, real) /\ disk[real].kind # "dir")
          /\ FailListing("retrieval")
       \/ real # Gone /\ ~InRoots(listing.roots, real) /\ FailListing("blocked")
       \/ ~InRoots(listing.roots, real) /\ listing' = skip /\ UNCHANGED outcome
       \/ real # Gone /\ InRoots(listing.roots, real) /\ listing' = next /\ UNCHANGED outcome
  BY DEF ReadDirectory
<1>11. CASE /\ real = Gone \/ (real # Gone /\ InRoots(listing.roots, real) /\ disk[real].kind # "dir")
            /\ FailListing("retrieval")
  <2> DEFINE pair == <<directory, node>>
  <2>1. pair \in alive /\ pair[1] = directory /\ pair[2] = node
    BY <1>4
  <2> HIDE DEF pair, real
  <2>2. alive # steady \/ (pair[1] \in listing.roots /\ pair[2].kind # "dir")
    BY <1>4, <1>5, <1>11, <2>1
  <2> QED
    BY <1>1, <1>11, <2>1, <2>2, ScanFails
<1>12. CASE real # Gone /\ ~InRoots(listing.roots, real) /\ FailListing("blocked")
  <2>1. alive # steady
    BY <1>3, <1>5, <1>12 DEF IsDirAhead
  <2> QED
    BY <1>1, <1>12, <2>1, ScanFails
<1>13. CASE ~InRoots(listing.roots, real) /\ listing' = skip /\ UNCHANGED outcome
  <2>1. AreAhead(Front(dirs), {})
    BY <1>1, <1>2, FrontAhead
  <2>2. Covers(listing.found, Front(dirs), {})
    <3>1. SUFFICES ASSUME NEW there \in steady, IsUnder(Scope, there[1]), IsListed(Scope, there[1], there[2]),
                          IsAhead(dirs, {}, there[1], there[2])
                   PROVE  IsAhead(Front(dirs), {}, there[1], there[2])
      BY <1>2 DEF Covers
    <3>2. IsAhead(Front(dirs), {}, there[1], there[2]) \/ LeadsTo(Scope, directory, there[1])
      BY <1>1, <3>1, FrontLeads
    <3> QED
      BY <1>9, <1>13, <3>1, <3>2
  <2> HIDE DEF skip
  <2> QED
    BY <1>1, <1>7, <1>13, <2>1, <2>2, NextExact
<1>14. CASE real # Gone /\ InRoots(listing.roots, real) /\ listing' = next /\ UNCHANGED outcome
  <2>1. ASSUME NEW name \in batch PROVE IsNameAhead(name)
    <3>1. PICK path \in names : name = NameOf(path, disk[path])
      OBVIOUS
    <3>2. name.path = path /\ (name.isDir <=> disk[path].kind = "dir") /\ ~name.resolved
      BY <3>1 DEF NameOf
    <3> HIDE DEF batch
    <3> QED
      BY <1>1, <1>2, <1>3, <1>14, <3>2, NamesAhead
  <2> HIDE DEF batch
  <2>2. AreAhead(Front(dirs), batch)
    BY <1>1, <1>2, <2>1, FrontAhead
  <2>3. Covers(listing.found, Front(dirs), batch)
    <3>1. SUFFICES ASSUME NEW there \in steady, IsUnder(Scope, there[1]), IsListed(Scope, there[1], there[2]),
                          IsAhead(dirs, {}, there[1], there[2])
                   PROVE  IsAhead(Front(dirs), batch, there[1], there[2])
      BY <1>2 DEF Covers
    <3>2. IsAhead(Front(dirs), batch, there[1], there[2]) \/ LeadsTo(Scope, directory, there[1])
      BY <1>1, <3>1, FrontLeads
    <3>3. LeadsTo(Scope, directory, there[1]) => IsAhead(Front(dirs), batch, there[1], there[2])
      BY <1>1, <1>9, <3>1 DEF IsAhead
    <3> QED
      BY <3>2, <3>3
  <2> HIDE DEF next
  <2> QED
    BY <1>1, <1>8, <1>14, <2>2, <2>3, NextExact
<1> QED
  BY <1>10, <1>11, <1>12, <1>13, <1>14

\* Without a name that was taken, a path is ahead unless that name led to it.
LEMMA TakenLeads ==
  ASSUME ~ListsRoots, NEW dirs, NEW batch, NEW name, NEW path, NEW node, IsAhead(dirs, batch, path, node)
  PROVE  \/ IsAhead(dirs, batch \ {name}, path, node)
         \/ name.path = path /\ (name.isDir <=> node.kind = "dir")
         \/ Scope.recursive /\ name.isDir /\ IsStrictPrefix(name.path, path)
BY DEF IsAhead

\* What a name leads to, when that is there all along.
LEMMA NameResolved ==
  ASSUME Sound(disk), AliveInv, NEW name, IsNameAhead(name), NEW there \in steady,
         IsListed(Scope, there[1], there[2]),
         \/ name.path = there[1] /\ (name.isDir <=> there[2].kind = "dir")
         \/ Scope.recursive /\ name.isDir /\ IsStrictPrefix(name.path, there[1])
  PROVE  /\ Canonical(name.path) = name.path /\ name.path # Gone /\ InRoots(listing.roots, name.path)
         /\ name.path = there[1] => disk[name.path] = there[2]
<1>1. there[1] \in DOMAIN disk /\ disk[there[1]] = there[2]
  BY DEF AliveInv, NodesOf
<1>2. PICK node : <<name.path, node>> \in alive
  BY DEF IsNameAhead
<1>3. name.path \in Named
  <2> DEFINE pair == <<name.path, node>>
  <2>1. pair \in alive /\ pair[1] = name.path
    BY <1>2
  <2> HIDE DEF pair
  <2> QED
    BY <2>1 DEF AliveInv
<1>4. CASE name.path = there[1]
  <2>1. disk[name.path].kind # "link" /\ name.path \in DOMAIN disk
    BY <1>1, <1>4 DEF IsListed
  <2>2. Canonical(name.path) = name.path
    BY <2>1, CanonicalSelf
  <2> QED
    BY <1>1, <1>3, <1>4, <2>2 DEF IsNameAhead, Named
<1>5. CASE name.path # there[1]
  <2>1. Canonical(name.path) = name.path
    BY <1>1, <1>3, <1>5, AncestorThere
  <2> QED
    BY <1>3, <1>5, <2>1 DEF IsNameAhead, Named
<1> QED
  BY <1>4, <1>5

\* A name that resolved stands for what it stood for before.
LEMMA ResolvedAhead ==
  ASSUME Sound(disk), AliveInv, NEW name, IsNameAhead(name), ~name.resolved, Canonical(name.path) # Gone,
         InRoots(listing.roots, Canonical(name.path)),
         Scope.tool = "documents" => ~name.isDir /\ IsSupported(name.path)
  PROVE  IsNameAhead(Resolved(name, Canonical(name.path)))
<1> DEFINE real == Canonical(name.path)
           new  == Resolved(name, real)
<1>1. new.path = real /\ new.isDir = name.isDir /\ new.resolved
  BY DEF Resolved
<1>2. PICK node : <<name.path, node>> \in alive /\ node.kind # "link" /\ (name.isDir <=> node.kind = "dir")
  BY DEF IsNameAhead
<1>3. /\ <<real, disk[real]>> \in alive /\ disk[real].kind # "link"
      /\ real = name.path \/ Astray(real)
  BY <1>2, ResolvedAlive
<1> HIDE DEF new, real
<1>4. IsUnder(Scope, real) \/ Astray(real)
  BY <1>3 DEF IsNameAhead
<1>5. \E there : /\ <<real, there>> \in alive /\ there.kind # "link"
                 /\ (new.isDir <=> there.kind = "dir") \/ (new.resolved /\ Astray(real))
  BY <1>1, <1>2, <1>3
<1>6. Scope.tool = "documents" => ~new.isDir /\ (IsSupported(real) \/ Astray(real))
  BY <1>1, <1>3
<1>7. InRoots(listing.roots, real)
  BY DEF real
<1> QED
  BY <1>1, <1>4, <1>5, <1>6, <1>7 DEF IsNameAhead, new, real

\* A name of list_documents is resolved, goes down, or is out of its scope.
LEMMA TakeDocumentExact ==
  ASSUME ListInv, ExactInv, NEW name, TakeDocument(name)
  PROVE  ExactInv'
<1> DEFINE dirs == listing.dirs
           left == listing.batch \ {name}
           real == Canonical(name.path)
           wanted == IF name.isDir THEN command.ask.recursive ELSE IsSupported(name.path)
           next == [listing EXCEPT !.batch = @ \ {name}]
           down == [next EXCEPT !.dirs = Append(@, real)]
           new  == Resolved(name, real)
           held == [next EXCEPT !.batch = @ \cup {new}]
<1>1. /\ NothingElse /\ listing.stage = "scanning" /\ name \in listing.batch
      /\ command.ask.tool = "documents" /\ ~ListsRoots /\ dirs \in Seq(Paths)
  BY DEF TakeDocument, IsNextName, ListInv, ListingShape, ListsRoots
<1>2. /\ Sound(disk) /\ AliveInv /\ AreAhead(dirs, listing.batch) /\ Covers(listing.found, dirs, listing.batch)
      /\ ScopeInv
  BY <1>1 DEF ExactInv, ScanInv
<1>3. IsNameAhead(name) /\ AreAhead(dirs, left) /\ ~name.resolved
  BY <1>1, <1>2 DEF AreAhead, TakeDocument, IsNextName
<1>4. PICK node : <<name.path, node>> \in alive /\ node.kind # "link" /\ (name.isDir <=> node.kind = "dir")
  BY <1>3 DEF IsNameAhead
<1>5. /\ real = Gone => alive # steady
      /\ alive = steady => real = name.path /\ disk[name.path] = node
      /\ real # Gone => /\ real \in DOMAIN disk /\ real \in Named /\ <<real, disk[real]>> \in alive
                        /\ disk[real].kind \in {"file", "dir"}
                        /\ real = name.path \/ Astray(real)
  BY <1>2, <1>4, ResolvedAlive
<1>6. /\ next = [listing EXCEPT !.dirs = next.dirs, !.batch = next.batch]
      /\ next.dirs = dirs /\ next.batch = left
  BY DEF ListInv, ListingShape
<1>7. /\ down = [listing EXCEPT !.dirs = down.dirs, !.batch = down.batch]
      /\ down.dirs = Append(dirs, real) /\ down.batch = left
  BY DEF ListInv, ListingShape
<1>7a. /\ held = [listing EXCEPT !.dirs = held.dirs, !.batch = held.batch]
       /\ held.dirs = dirs /\ held.batch = left \cup {new}
  BY DEF ListInv, ListingShape
<1>8. /\ Scope.tool = "documents" /\ (Scope.recursive <=> command.ask.recursive)
      /\ ~OfRoots(Scope) /\ Scope.roots = listing.roots /\ Scope.path = listing.path
  BY <1>1, ScopeIs
\* What is there all along is wanted when its name is taken.
<1>9. ASSUME NEW there \in steady, IsListed(Scope, there[1], there[2]),
             \/ name.path = there[1] /\ (name.isDir <=> there[2].kind = "dir")
             \/ Scope.recursive /\ name.isDir /\ IsStrictPrefix(name.path, there[1])
      PROVE  /\ wanted /\ real = name.path /\ real # Gone /\ InRoots(listing.roots, real)
             /\ name.isDir => IsStrictPrefix(real, there[1]) /\ Scope.recursive
             /\ ~name.isDir => name.path = there[1] /\ there[2].kind # "dir"
  <2>1. there[2].kind = "file" /\ IsSupported(there[1])
    BY <1>8, <1>9 DEF IsListed
  <2>2. /\ real = name.path /\ real # Gone /\ InRoots(listing.roots, name.path)
        /\ name.path = there[1] => disk[name.path] = there[2]
    BY <1>2, <1>3, <1>9, NameResolved
  <2> HIDE DEF real
  <2>3. CASE name.isDir
    BY <1>8, <1>9, <2>1, <2>2, <2>3
  <2>4. CASE ~name.isDir
    BY <1>9, <2>1, <2>2, <2>4
  <2> QED
    BY <2>3, <2>4
<1>10. \/ wanted /\ real = Gone /\ FailListing("retrieval")
       \/ (~wanted \/ ~InRoots(listing.roots, real)) /\ listing' = next /\ UNCHANGED outcome
       \/ /\ wanted /\ real # Gone /\ InRoots(listing.roots, real) /\ name.isDir
          /\ listing' = down /\ UNCHANGED outcome
       \/ /\ wanted /\ real # Gone /\ InRoots(listing.roots, real) /\ ~name.isDir
          /\ listing' = held /\ UNCHANGED outcome
  BY DEF TakeDocument
<1> HIDE DEF real
<1>11. CASE wanted /\ real = Gone /\ FailListing("retrieval")
  BY <1>1, <1>5, <1>11, ScanFails
<1>12. CASE (~wanted \/ ~InRoots(listing.roots, real)) /\ listing' = next /\ UNCHANGED outcome
  <2>1. Covers(listing.found, dirs, left)
    <3>1. SUFFICES ASSUME NEW there \in steady, IsUnder(Scope, there[1]), IsListed(Scope, there[1], there[2]),
                          IsAhead(dirs, listing.batch, there[1], there[2])
                   PROVE  IsAhead(dirs, left, there[1], there[2])
      BY <1>2 DEF Covers
    <3> HIDE DEF wanted
    <3>2. ~(\/ name.path = there[1] /\ (name.isDir <=> there[2].kind = "dir")
            \/ Scope.recursive /\ name.isDir /\ IsStrictPrefix(name.path, there[1]))
      BY <1>9, <1>12, <3>1
    <3> QED
      BY <1>1, <3>1, <3>2, TakenLeads
  <2> HIDE DEF next, left, dirs
  <2> QED
    BY <1>1, <1>3, <1>6, <1>12, <2>1, NextExact
<1>13. CASE /\ wanted /\ real # Gone /\ InRoots(listing.roots, real) /\ name.isDir
            /\ listing' = down /\ UNCHANGED outcome
  <2> DEFINE longer == Append(dirs, real)
  <2>1. real \in Paths /\ Scope.recursive
    BY <1>5, <1>8, <1>13 DEF Named
  <2>2. /\ Len(longer) = Len(dirs) + 1 /\ Len(dirs) \in Nat /\ longer[Len(dirs) + 1] = real
        /\ \A i \in 1..Len(dirs) : longer[i] = dirs[i]
    BY <1>1, <2>1
  <2> HIDE DEF longer
  <2>3. IsDirAhead(real)
    <3>1. ASSUME real = name.path, ~Astray(real)
          PROVE  \E start \in StartsOf(Scope) : Scope.recursive /\ IsPrefix(start, real)
      <4>1. IsUnder(Scope, real)
        BY <1>3, <3>1 DEF IsNameAhead
      <4> QED
        BY <1>8, <2>1, <4>1 DEF IsUnder, LeadsTo, IsStrictPrefix
    <3>2. \/ \E start \in StartsOf(Scope) : real = start \/ (Scope.recursive /\ IsPrefix(start, real))
          \/ Astray(real)
      BY <1>5, <1>13, <3>1
    <3>3. <<real, disk[real]>> \in alive /\ disk[real].kind # "link"
      BY <1>5, <1>13
    <3>4. alive = steady => disk[real].kind = "dir"
      BY <1>4, <1>5, <1>13
    <3> QED
      BY <1>13, <3>2, <3>3, <3>4 DEF IsDirAhead
  <2>4. AreAhead(longer, left)
    <3>1. ASSUME NEW i \in 1..Len(longer) PROVE IsDirAhead(longer[i])
      <4>1. CASE i \in 1..Len(dirs)
        BY <1>3, <2>2, <4>1 DEF AreAhead
      <4>2. CASE i = Len(dirs) + 1
        BY <2>2, <2>3, <4>2
      <4> QED
        BY <2>2, <4>1, <4>2
    <3> QED
      BY <1>3, <3>1 DEF AreAhead
  <2>5. Covers(listing.found, longer, left)
    <3>1. SUFFICES ASSUME NEW there \in steady, IsUnder(Scope, there[1]), IsListed(Scope, there[1], there[2]),
                          IsAhead(dirs, listing.batch, there[1], there[2])
                   PROVE  IsAhead(longer, left, there[1], there[2])
      BY <1>2 DEF Covers
    <3>2. IsAhead(dirs, left, there[1], there[2]) => IsAhead(longer, left, there[1], there[2])
      <4>1. \A i \in 1..Len(dirs) : i \in 1..Len(longer) /\ longer[i] = dirs[i]
        BY <2>2
      <4> QED
        BY <1>1, <4>1 DEF IsAhead
    <3> HIDE DEF wanted
    <3>3. CASE \/ name.path = there[1] /\ (name.isDir <=> there[2].kind = "dir")
               \/ Scope.recursive /\ name.isDir /\ IsStrictPrefix(name.path, there[1])
      <4>1. IsStrictPrefix(real, there[1]) /\ Scope.recursive
        BY <1>9, <1>13, <3>1, <3>3
      <4>2. Len(dirs) + 1 \in 1..Len(longer) /\ longer[Len(dirs) + 1] = real
        BY <2>2
      <4>3. LeadsTo(Scope, longer[Len(dirs) + 1], there[1])
        BY <4>1, <4>2 DEF LeadsTo
      <4> QED
        BY <1>1, <4>2, <4>3 DEF IsAhead
    <3> QED
      BY <1>1, <3>1, <3>2, <3>3, TakenLeads
  <2>6. down.dirs = longer
    BY <1>7 DEF longer
  <2> HIDE DEF down, left, dirs
  <2> QED
    BY <1>1, <1>7, <1>13, <2>4, <2>5, <2>6, NextExact
<1>14. CASE /\ wanted /\ real # Gone /\ InRoots(listing.roots, real) /\ ~name.isDir
            /\ listing' = held /\ UNCHANGED outcome
  <2>1. IsNameAhead(new)
    BY <1>2, <1>3, <1>8, <1>14, ResolvedAhead DEF real
  <2>2. AreAhead(dirs, left \cup {new})
    BY <1>1, <1>3, <2>1 DEF AreAhead
  <2>3. Covers(listing.found, dirs, left \cup {new})
    <3>1. SUFFICES ASSUME NEW there \in steady, IsUnder(Scope, there[1]), IsListed(Scope, there[1], there[2]),
                          IsAhead(dirs, listing.batch, there[1], there[2])
                   PROVE  IsAhead(dirs, left \cup {new}, there[1], there[2])
      BY <1>2 DEF Covers
    <3> HIDE DEF wanted
    <3>2. CASE \/ name.path = there[1] /\ (name.isDir <=> there[2].kind = "dir")
               \/ Scope.recursive /\ name.isDir /\ IsStrictPrefix(name.path, there[1])
      <4>1. real = there[1] /\ there[2].kind # "dir"
        BY <1>9, <1>14, <3>1, <3>2
      <4>2. new.path = real /\ new.isDir = name.isDir
        BY DEF Resolved
      <4> HIDE DEF new
      <4> QED
        BY <1>1, <1>14, <4>1, <4>2 DEF IsAhead
    <3>3. CASE IsAhead(dirs, left, there[1], there[2])
      BY <1>1, <3>3 DEF IsAhead
    <3> QED
      BY <1>1, <3>1, <3>2, <3>3, TakenLeads
  <2> HIDE DEF held, next, new, left, dirs
  <2> QED
    BY <1>1, <1>7a, <1>14, <2>2, <2>3, NextExact
<1> QED
  BY <1>10, <1>11, <1>12, <1>13, <1>14

\* A name of list_directory is resolved or is out of the roots.
LEMMA TakeChildExact ==
  ASSUME ListInv, ExactInv, NEW name, TakeChild(name)
  PROVE  ExactInv'
<1> DEFINE dirs == listing.dirs
           left == listing.batch \ {name}
           real == Canonical(name.path)
           next == [listing EXCEPT !.batch = @ \ {name}]
           new  == Resolved(name, real)
           held == [next EXCEPT !.batch = @ \cup {new}]
<1>1. /\ NothingElse /\ listing.stage = "scanning" /\ name \in listing.batch
      /\ command.ask.tool = "directory" /\ dirs \in Seq(Paths)
  BY DEF TakeChild, IsNextName, ListInv, ListingShape
<1>2. /\ Sound(disk) /\ AliveInv /\ AreAhead(dirs, listing.batch) /\ Covers(listing.found, dirs, listing.batch)
      /\ ScopeInv
  BY <1>1 DEF ExactInv, ScanInv
<1>3. IsNameAhead(name) /\ AreAhead(dirs, left) /\ ~ListsRoots /\ ~name.resolved
  BY <1>1, <1>2 DEF AreAhead, TakeChild, IsNextName
<1>4. PICK node : <<name.path, node>> \in alive /\ node.kind # "link"
  BY <1>3 DEF IsNameAhead
<1>5. real = Gone => alive # steady
  BY <1>2, <1>4, ResolvedAlive
<1>6. /\ next = [listing EXCEPT !.dirs = next.dirs, !.batch = next.batch]
      /\ next.dirs = dirs /\ next.batch = left
  BY DEF ListInv, ListingShape
<1>7. /\ held = [listing EXCEPT !.dirs = held.dirs, !.batch = held.batch]
      /\ held.dirs = dirs /\ held.batch = left \cup {new}
  BY DEF ListInv, ListingShape
<1>8. Scope.tool = "directory" /\ ~Scope.recursive
  BY <1>1, <1>3, ScopeIs, CallAssumption DEF ListInv, CallInv
<1>9. ASSUME NEW there \in steady, IsListed(Scope, there[1], there[2]),
             \/ name.path = there[1] /\ (name.isDir <=> there[2].kind = "dir")
             \/ Scope.recursive /\ name.isDir /\ IsStrictPrefix(name.path, there[1])
      PROVE  InRoots(listing.roots, real) /\ real = there[1] /\ (name.isDir <=> there[2].kind = "dir")
  BY <1>2, <1>3, <1>8, <1>9, NameResolved
<1>10. \/ real = Gone /\ FailListing("retrieval")
       \/ real # Gone /\ InRoots(listing.roots, real) /\ listing' = held /\ UNCHANGED outcome
       \/ ~InRoots(listing.roots, real) /\ listing' = next /\ UNCHANGED outcome
  BY DEF TakeChild
<1> HIDE DEF real
<1>11. CASE real = Gone /\ FailListing("retrieval")
  BY <1>1, <1>5, <1>11, ScanFails
<1>12. CASE real # Gone /\ InRoots(listing.roots, real) /\ listing' = held /\ UNCHANGED outcome
  <2>1. IsNameAhead(new)
    BY <1>2, <1>3, <1>8, <1>12, ResolvedAhead DEF real
  <2>2. AreAhead(dirs, left \cup {new})
    BY <1>3, <2>1 DEF AreAhead
  <2>3. Covers(listing.found, dirs, left \cup {new})
    <3>1. SUFFICES ASSUME NEW there \in steady, IsUnder(Scope, there[1]), IsListed(Scope, there[1], there[2]),
                          IsAhead(dirs, listing.batch, there[1], there[2])
                   PROVE  IsAhead(dirs, left \cup {new}, there[1], there[2])
      BY <1>2 DEF Covers
    <3>2. CASE \/ name.path = there[1] /\ (name.isDir <=> there[2].kind = "dir")
               \/ Scope.recursive /\ name.isDir /\ IsStrictPrefix(name.path, there[1])
      <4>1. real = there[1] /\ (name.isDir <=> there[2].kind = "dir")
        BY <1>9, <3>1, <3>2
      <4>2. new.path = real /\ new.isDir = name.isDir
        BY DEF Resolved
      <4> HIDE DEF new
      <4> QED
        BY <1>3, <4>1, <4>2 DEF IsAhead
    <3>3. CASE IsAhead(dirs, left, there[1], there[2])
      BY <1>3, <3>3 DEF IsAhead
    <3> QED
      BY <1>3, <3>1, <3>2, <3>3, TakenLeads
  <2> HIDE DEF held, next, new, left, dirs
  <2> QED
    BY <1>1, <1>7, <1>12, <2>2, <2>3, NextExact
<1>13. CASE ~InRoots(listing.roots, real) /\ listing' = next /\ UNCHANGED outcome
  <2>1. Covers(listing.found, dirs, left)
    <3>1. SUFFICES ASSUME NEW there \in steady, IsUnder(Scope, there[1]), IsListed(Scope, there[1], there[2]),
                          IsAhead(dirs, listing.batch, there[1], there[2])
                   PROVE  IsAhead(dirs, left, there[1], there[2])
      BY <1>2 DEF Covers
    <3>2. ~(\/ name.path = there[1] /\ (name.isDir <=> there[2].kind = "dir")
            \/ Scope.recursive /\ name.isDir /\ IsStrictPrefix(name.path, there[1]))
      BY <1>9, <1>13, <3>1
    <3> QED
      BY <1>3, <3>1, <3>2, TakenLeads
  <2> HIDE DEF next, left, dirs
  <2> QED
    BY <1>1, <1>3, <1>6, <1>13, <2>1, NextExact
<1> QED
  BY <1>10, <1>11, <1>12, <1>13

\* What a name resolved to is found, or is none of the scope any more.
LEMMA MeasureExact ==
  ASSUME ListInv, ExactInv, NEW name, Measure(name)
  PROVE  ExactInv'
<1> DEFINE dirs == listing.dirs
           left == listing.batch \ {name}
           path == name.path
           there == Canonical(path)
           taken == command.ask.tool = "documents" \/ disk[there].kind = "dir" \/ IsSupported(path)
           next == [listing EXCEPT !.batch = @ \ {name}]
           entry == EntryOf(Scope.tool, path, disk[there])
<1>1. /\ NothingElse /\ listing.stage = "scanning" /\ name \in listing.batch /\ name.resolved
      /\ dirs \in Seq(Paths)
  BY DEF Measure, ListInv, ListingShape
<1>2. /\ Sound(disk) /\ AliveInv /\ AreAhead(dirs, listing.batch) /\ Covers(listing.found, dirs, listing.batch)
  BY <1>1 DEF ExactInv, ScanInv
<1>3. IsNameAhead(name) /\ AreAhead(dirs, left) /\ ~ListsRoots
  BY <1>1, <1>2 DEF AreAhead
<1>4. PICK node : /\ <<path, node>> \in alive /\ node.kind # "link"
                  /\ (name.isDir <=> node.kind = "dir") \/ Astray(path)
  BY <1>3 DEF IsNameAhead
<1>5. /\ there = Gone => alive # steady
      /\ there # Gone => /\ there \in DOMAIN disk /\ <<there, disk[there]>> \in alive
                         /\ disk[there].kind \in {"file", "dir"}
                         /\ there = path \/ Astray(there)
  BY <1>2, <1>4, ResolvedAlive
<1>6. /\ next = [listing EXCEPT !.dirs = next.dirs, !.batch = next.batch]
      /\ next.dirs = dirs /\ next.batch = left
  BY DEF ListInv, ListingShape
<1>7. /\ Scope.tool = command.ask.tool /\ Scope.tool \in {"documents", "directory"} /\ ~OfRoots(Scope)
      /\ Scope.tool = "documents" => ~name.isDir /\ (IsSupported(path) \/ Astray(path))
      /\ Scope.tool = "directory" => ~Scope.recursive
  BY <1>1, <1>3, ScopeIs, CallAssumption DEF ListInv, CallInv, IsNameAhead
\* What is there all along is measured itself.
<1>8. ASSUME NEW kept \in steady, IsListed(Scope, kept[1], kept[2]), path = kept[1]
      PROVE  there # Gone /\ taken /\ entry = FileEntry(kept[1], kept[2])
  <2>1. kept[1] \in DOMAIN disk /\ disk[kept[1]] = kept[2]
    BY <1>2, <1>8 DEF AliveInv, NodesOf
  <2>2. disk[path].kind # "link" /\ path \in Named
    BY <1>2, <1>8, <2>1 DEF IsListed, Sound, IsDisk
  <2>3. there = path
    BY <1>2, <1>8, <2>1, <2>2, CanonicalSelf
  <2>4. entry = FileEntry(kept[1], kept[2])
    BY <1>8, <2>1, <2>3, EntryOfListed
  <2>5. taken
    BY <1>7, <1>8, <2>1, <2>3 DEF IsListed
  <2> QED
    BY <2>2, <2>3, <2>4, <2>5 DEF Named
<1>9. \A kept \in steady :
        /\ IsListed(Scope, kept[1], kept[2])
        /\ \/ name.path = kept[1] /\ (name.isDir <=> kept[2].kind = "dir")
           \/ Scope.recursive /\ name.isDir /\ IsStrictPrefix(name.path, kept[1])
        => path = kept[1]
  BY <1>7
<1>10. \/ there = Gone /\ FailListing("retrieval")
       \/ there # Gone /\ taken /\ Found(entry, next)
       \/ ~taken /\ listing' = next /\ UNCHANGED outcome
  BY <1>7 DEF Measure
<1> HIDE DEF path, there
<1>11. CASE there = Gone /\ FailListing("retrieval")
  BY <1>1, <1>5, <1>11, ScanFails
<1>12. CASE there # Gone /\ taken /\ Found(entry, next)
  <2>1. entry \in Met
    <3>1. IsUnder(Scope, path) \/ Astray(path)
      BY <1>3 DEF IsNameAhead, path
    <3>2. ASSUME there = path, ~Astray(path) PROVE IsListed(Scope, path, disk[path])
      <4> DEFINE was == <<path, node>>
                 is == <<path, disk[path]>>
      <4>1. was \in alive /\ was[1] = path /\ was[2] = node /\ is \in alive /\ is[1] = path /\ is[2] = disk[path]
        BY <1>4, <1>5, <1>12, <3>2
      <4> HIDE DEF was, is
      <4>2. CASE Scope.tool = "documents"
        <5>1. node.kind = "file"
          BY <1>2, <1>4, <1>7, <3>2, <4>1, <4>2 DEF AliveInv
        <5>2. disk[path].kind = "file"
          BY <1>2, <4>1, <5>1 DEF AliveInv
        <5> QED
          BY <1>7, <3>2, <4>2, <5>2 DEF IsListed
      <4>3. CASE Scope.tool = "directory"
        BY <1>5, <1>7, <1>12, <3>2, <4>3 DEF IsListed
      <4> QED
        BY <1>7, <4>2, <4>3
    <3> QED
      BY <1>4, <1>5, <1>12, <3>1, <3>2, MetIs
  <2>2. Covers(Put(listing.found, entry), dirs, left)
    <3>1. SUFFICES ASSUME NEW kept \in steady, IsUnder(Scope, kept[1]), IsListed(Scope, kept[1], kept[2])
                   PROVE  \/ FileEntry(kept[1], kept[2]) \in Put(listing.found, entry)
                          \/ IsAhead(dirs, left, kept[1], kept[2])
      BY DEF Covers
    <3>2. entry.path = path
      BY EntryOfPath
    <3> HIDE DEF entry, taken
    <3>3. path = kept[1] => entry = FileEntry(kept[1], kept[2])
      BY <1>8, <3>1
    <3>4. CASE FileEntry(kept[1], kept[2]) \in listing.found
      BY <3>2, <3>3, <3>4, PutKeeps
    <3>5. CASE path = kept[1]
      BY <3>3, <3>5 DEF Put
    <3>6. CASE IsAhead(dirs, listing.batch, kept[1], kept[2]) /\ path # kept[1]
      BY <1>3, <1>9, <3>1, <3>6, TakenLeads
    <3> QED
      BY <1>2, <3>1, <3>4, <3>5, <3>6 DEF Covers
  <2> HIDE DEF entry, next, left, dirs
  <2> QED
    BY <1>1, <1>3, <1>6, <1>12, <2>1, <2>2, FoundExact
<1>13. CASE ~taken /\ listing' = next /\ UNCHANGED outcome
  <2>1. Covers(listing.found, dirs, left)
    <3>1. SUFFICES ASSUME NEW kept \in steady, IsUnder(Scope, kept[1]), IsListed(Scope, kept[1], kept[2]),
                          IsAhead(dirs, listing.batch, kept[1], kept[2])
                   PROVE  IsAhead(dirs, left, kept[1], kept[2])
      BY <1>2 DEF Covers
    <3> HIDE DEF taken, entry
    <3>2. path # kept[1]
      BY <1>8, <1>13, <3>1
    <3> QED
      BY <1>3, <1>9, <3>1, <3>2, TakenLeads
  <2> HIDE DEF next, left, dirs
  <2> QED
    BY <1>1, <1>3, <1>6, <1>13, <2>1, NextExact
<1> QED
  BY <1>10, <1>11, <1>12, <1>13

-----------------------------------------------------------------------------
(* The beginning of a scan *)

LEMMA PathRefusalIs ==
  ASSUME NEW path, NEW roots
  PROVE  /\ PathRefusal(path, roots) \in {"retrieval", "blocked", "invalid request", "none"}
         /\ PathRefusal(path, roots) = "none" => path # Gone /\ InRoots(roots, path) /\ disk[path].kind = "dir"
<1>1. CASE path = Gone
  BY <1>1 DEF PathRefusal
<1>2. CASE path # Gone /\ ~InRoots(roots, path)
  BY <1>2 DEF PathRefusal
<1>3. CASE path # Gone /\ InRoots(roots, path)
  BY <1>3 DEF PathRefusal
<1> QED
  BY <1>1, <1>2, <1>3

LEMMA CursorRefusalIs ==
  ASSUME NEW ask, NEW cursor, NEW roots, NEW path
  PROVE  LET why == CursorRefusal(ask, cursor, roots, path)
         IN  /\ why \in {"mismatch", "stale", "none"}
             /\ why = "stale" => cursor # NoListCursor /\ cursor.roots # roots
             /\ why = "none" /\ cursor # NoListCursor =>
                  cursor.recursive = ask.recursive /\ cursor.path = path /\ cursor.roots = roots
<1>1. CASE cursor = NoListCursor
  BY <1>1 DEF CursorRefusal
<1>2. CASE cursor # NoListCursor /\ (cursor.recursive # ask.recursive \/ cursor.path # path)
  BY <1>2 DEF CursorRefusal
<1>3. CASE cursor # NoListCursor /\ cursor.recursive = ask.recursive /\ cursor.path = path
  BY <1>3 DEF CursorRefusal
<1> QED
  BY <1>1, <1>2, <1>3

\* What a refusal says of the call: never that there is too much, and stale only of other roots.
LEMMA RefusalIs ==
  ASSUME NEW ask, NEW cursor
  PROVE  LET path == IF ask.path = NoPath THEN NoPath ELSE Canonical(ask.path)
         IN  /\ Refusal(ask, cursor) # "limit"
             /\ Refusal(ask, cursor) = "stale" => cursor # NoListCursor /\ cursor.roots # CanonicalRoots
             /\ Refusal(ask, cursor) = "none" =>
                  /\ ask.path # NoPath => path # Gone /\ InRoots(CanonicalRoots, path) /\ disk[path].kind = "dir"
                  /\ cursor # NoListCursor =>
                       /\ cursor.tool = ask.tool /\ cursor.recursive = ask.recursive
                       /\ cursor.path = path /\ cursor.roots = CanonicalRoots
<1> DEFINE roots == CanonicalRoots
           path == IF ask.path = NoPath THEN NoPath ELSE Canonical(ask.path)
           ofPath == IF ask.path # NoPath THEN PathRefusal(path, roots) ELSE "none"
           ofCursor == CursorRefusal(ask, cursor, roots, path)
<1>1. /\ ofPath \in {"retrieval", "blocked", "invalid request", "none"}
      /\ ofPath = "none" /\ ask.path # NoPath => path # Gone /\ InRoots(roots, path) /\ disk[path].kind = "dir"
  BY PathRefusalIs
<1>2. /\ ofCursor \in {"mismatch", "stale", "none"}
      /\ ofCursor = "stale" => cursor # NoListCursor /\ cursor.roots # roots
      /\ ofCursor = "none" /\ cursor # NoListCursor =>
           cursor.recursive = ask.recursive /\ cursor.path = path /\ cursor.roots = roots
  BY CursorRefusalIs
<1>3. Refusal(ask, cursor) =
        IF ask.max = 0 THEN "invalid request"
        ELSE IF IsForeign(ask, cursor) THEN "invalid cursor"
        ELSE IF ask.path # NoPath /\ roots = {} THEN "blocked"
        ELSE IF ofPath # "none" THEN ofPath ELSE ofCursor
  BY DEF Refusal
<1> HIDE DEF roots, path, ofPath, ofCursor
<1>4. /\ Refusal(ask, cursor) # "limit"
      /\ Refusal(ask, cursor) = "stale" => ofCursor = "stale"
      /\ Refusal(ask, cursor) = "none" => ~IsForeign(ask, cursor) /\ ofPath = "none" /\ ofCursor = "none"
  BY <1>1, <1>2, <1>3
<1> QED
  BY <1>1, <1>2, <1>4 DEF IsForeign, roots, path

\* A root that resolves is there, and no link.
LEMMA RootThere ==
  ASSUME Sound(disk), configured \in RootSets, NEW root \in CanonicalRoots
  PROVE  root \in DOMAIN disk /\ disk[root].kind # "link" /\ root \in Named /\ root \in Paths
<1>1. PICK given \in configured : root = Canonical(given) /\ root # Gone
  BY DEF CanonicalRoots
<1>2. given \in Paths
  BY CallAssumption DEF Named
<1>3. root \in DOMAIN disk /\ disk[root].kind # "link"
  BY <1>1, <1>2, CanonicalCases
<1> QED
  BY <1>3 DEF Sound, IsDisk, Named

LEMMA SoundAlive ==
  ASSUME NEW nodes, Sound(nodes)
  PROVE  /\ IsFiniteSet(NodesOf(nodes))
         /\ \A node \in NodesOf(nodes) :
              /\ node[1] \in Named /\ node[2].kind \in {"file", "dir", "link"}
              /\ node[2].kind = "link" => node[2].target \in Named
              /\ node[1] \in FilePaths => node[2].kind = "file"
              /\ node[1] \in DirPaths => node[2].kind # "file"
              /\ node[1] \in DOMAIN nodes /\ nodes[node[1]] = node[2]
<1> DEFINE f == [path \in DOMAIN nodes |-> <<path, nodes[path]>>]
<1>1. f \in Surjection(DOMAIN nodes, NodesOf(nodes))
  BY DEF Surjection, NodesOf
<1>2. IsFiniteSet(NodesOf(nodes))
  <2> HIDE DEF f
  <2> QED BY <1>1, FS_Surjection DEF Sound, IsDisk
<1>3. ASSUME NEW node \in NodesOf(nodes)
      PROVE  node[1] \in DOMAIN nodes /\ nodes[node[1]] = node[2]
  BY DEF NodesOf
<1> QED
  BY <1>2, <1>3 DEF Sound, IsDisk, LeadsOn

\* To begin with, everything in scope is ahead.
LEMMA BeginListingExact ==
  ASSUME ListInv, ExactInv, NEW ask \in Asks, NEW cursor \in {NoListCursor, heldCursor}, BeginListing(ask, cursor)
  PROVE  ExactInv'
<1> DEFINE roots == CanonicalRoots
           path  == IF ask.path = NoPath THEN NoPath ELSE Canonical(ask.path)
           dirs  == IF path = NoPath THEN RootsToRead(roots) ELSE <<path>>
           begun == [stage |-> "scanning", roots |-> roots, path |-> path, batch |-> {}, found |-> {}, dirs |-> dirs]
<1>1. /\ listing.stage = "idle" /\ UNCHANGED <<disk, configured, changed, runStart>>
      /\ command' = [ask |-> ask, cursor |-> cursor, began |-> changed]
      /\ alive' = NodesOf(disk) /\ steady' = NodesOf(disk)
  BY DEF BeginListing, NodesOf
<1>2. Sound(disk) /\ RunInv /\ configured \in RootSets /\ Sound(disk)' /\ ask.path \in Paths
  BY <1>1, CallAssumption DEF ExactInv, ListInv, ListingShape
<1>3. CanonicalRoots' = roots
  BY <1>1, RootsStay
<1>4. changed \in Nat /\ runStart \in Nat /\ runStart <= changed
  BY <1>2 DEF RunInv
<1>5. CASE Refusal(ask, cursor) # "none"
  <2> DEFINE why == Refusal(ask, cursor)
  <2>1. outcome' = Error(why, FALSE) /\ UNCHANGED <<listing, heldCursor, pagesRead>>
    BY <1>5 DEF BeginListing
  <2>2. RunInv'
    BY <1>1, <1>2, <1>3, <2>1, RunStays
  <2>3. why # "limit" /\ (why = "stale" => cursor # NoListCursor /\ cursor.roots # roots)
    BY RefusalIs
  <2> HIDE DEF why
  <2>4. why = "stale" => changed > runStart
    BY <1>2, <1>4, <2>3 DEF RunInv
  <2>5. outcome'.answer = "error" /\ outcome'.why = why /\ ~outcome'.scanned
    BY <2>1 DEF Error
  <2>6. ListingsMatchDisk'
    BY <1>1, <2>3, <2>4, <2>5 DEF ListingsMatchDisk
  <2> QED
    BY <1>1, <1>2, <2>1, <2>2, <2>6 DEF ExactInv, ScanInv
<1>6. CASE Refusal(ask, cursor) = "none" /\ roots = {}
  <2>1. listing' = NoListing /\ heldCursor' = NoListCursor /\ outcome' = [answer |-> "page", complete |-> TRUE]
    BY <1>6 DEF BeginListing
  <2>2. RunInv'
    BY <1>1, <1>4, <2>1 DEF RunInv
  <2>3. ListingsMatchDisk'
    BY <2>1 DEF ListingsMatchDisk, NoListing
  <2> QED
    BY <1>2, <2>1, <2>2, <2>3 DEF ExactInv, ScanInv, NoListing
<1>7. CASE Refusal(ask, cursor) = "none" /\ roots # {}
  <2>1. outcome' = NoOutcome /\ listing' = begun /\ UNCHANGED heldCursor
    BY <1>7 DEF BeginListing
  <2>2. /\ ask.path # NoPath => path # Gone /\ InRoots(roots, path) /\ disk[path].kind = "dir"
        /\ cursor # NoListCursor => /\ cursor.tool = ask.tool /\ cursor.recursive = ask.recursive
                                    /\ cursor.path = path /\ cursor.roots = roots
    BY <1>7, RefusalIs
  <2>3. path # NoPath => path \in DOMAIN disk /\ path \in Named /\ InRoots(roots, path) /\ disk[path].kind = "dir"
    BY <1>2, <2>2, CanonicalThere DEF Sound, IsDisk
  <2>4. \A root \in roots : root \in DOMAIN disk /\ disk[root].kind # "link" /\ root \in Named /\ InRoots(roots, root)
    BY <1>2, RootThere, PrefixRefl DEF InRoots
  <2>5. /\ dirs \in Seq(Paths)
        /\ \A i \in 1..Len(dirs) : dirs[i] \in IF path = NoPath THEN roots ELSE {path}
        /\ \A start \in IF path = NoPath THEN roots ELSE {path} : \E i \in 1..Len(dirs) : dirs[i] = start
    <3>1. CASE path = NoPath
      <4>1. IsFiniteSet(roots) /\ roots \subseteq Paths
        BY CanonicalRootsAre DEF ListInv, ListingShape
      <4>2. RootsToRead(roots) \in Seq(roots) /\ \A root \in roots : \E i \in 1..Len(RootsToRead(roots)) : RootsToRead(roots)[i] = root
        BY <4>1, RootsToReadIs
      <4>3. RootsToRead(roots) \in Seq(Paths)
        BY <4>1, <4>2, SeqMonotonic
      <4> HIDE DEF roots, path
      <4> QED
        BY <3>1, <4>2, <4>3, ElementOfSeq
    <3>2. CASE path # NoPath
      <4>1. path \in Paths
        BY <2>3, <3>2 DEF Named
      <4> HIDE DEF path
      <4>2. dirs = <<path>>
        BY <3>2
      <4> QED
        BY <3>2, <4>1, <4>2
    <3> QED
      BY <3>1, <3>2
  <2> HIDE DEF path, dirs, roots
  <2>6. /\ listing'.stage = "scanning" /\ listing'.roots = roots /\ listing'.path = path /\ listing'.batch = {}
        /\ listing'.found = {} /\ listing'.dirs = dirs
    BY <2>1
  <2>7. /\ command'.ask = ask /\ command'.cursor = cursor /\ command'.began = changed
    BY <1>1
  <2>8. /\ Scope'.tool = ask.tool /\ Scope'.recursive = ask.recursive /\ Scope'.roots = roots /\ Scope'.path = path
        /\ ListsRoots' <=> (ask.tool = "directory" /\ path = NoPath)
    BY <2>6, <2>7 DEF Scope, ListsRoots
  <2>9. AliveInv'
    BY <1>1, <1>2, SoundAlive DEF AliveInv, NodesOf
  <2>10. ScopeInv'
    BY <2>3, <2>4, <2>6, <2>8 DEF ScopeInv, StartsOf
  <2>11. BeganInv'
    BY <1>1, <1>3, <1>4, <2>2, <2>6, <2>7 DEF BeganInv, roots
  <2>12. AreAhead(listing.dirs, listing.batch)'
    <3>1. ASSUME NEW d, d \in IF path = NoPath THEN roots ELSE {path} PROVE IsDirAhead(d)'
      <4>1. /\ d \in DOMAIN disk /\ disk[d].kind # "link" /\ InRoots(roots, d)
            /\ disk[d].kind = "dir" \/ d \in roots
        BY <2>3, <2>4, <3>1
      <4>2. <<d, disk[d]>> \in alive'
        BY <1>1, <4>1, NodesOfIs
      <4>3. d \in StartsOf(Scope)'
        BY <2>8, <3>1 DEF StartsOf
      <4> QED
        BY <2>6, <4>1, <4>2, <4>3 DEF IsDirAhead
    <3>2. \A i \in 1..Len(listing'.dirs) : listing'.dirs[i] \in IF path = NoPath THEN roots ELSE {path}
      BY <2>5, <2>6
    <3> QED
      BY <2>6, <3>1, <3>2 DEF AreAhead
  <2>13. Covers(listing.found, listing.dirs, listing.batch)'
    <3>1. SUFFICES ASSUME NEW there \in steady', IsUnder(Scope, there[1])'
                   PROVE  IsAhead(listing.dirs, listing.batch, there[1], there[2])'
      BY DEF Covers
    <3>2. CASE ask.tool = "directory" /\ path = NoPath
      <4>1. there[1] \in roots
        BY <2>8, <3>1, <3>2 DEF IsUnder, OfRoots
      <4> QED
        BY <2>5, <2>6, <2>8, <3>2, <4>1 DEF IsAhead
    <3>3. CASE ~(ask.tool = "directory" /\ path = NoPath)
      <4>1. PICK start \in StartsOf(Scope)' : LeadsTo(Scope, start, there[1])'
        BY <2>8, <3>1, <3>3 DEF IsUnder, OfRoots
      <4>2. PICK i \in 1..Len(dirs) : dirs[i] = start
        BY <2>5, <2>8, <4>1 DEF StartsOf
      <4> QED
        BY <2>6, <2>8, <3>3, <4>1, <4>2 DEF IsAhead
    <3> QED
      BY <3>2, <3>3
  <2>14. ListingsMatchDisk'
    BY <2>1 DEF ListingsMatchDisk, NoOutcome
  <2>15. RunInv'
    BY <1>1, <1>2, <1>3, <2>1, RunStays DEF roots
  <2> QED
    BY <1>2, <2>6, <2>9, <2>10, <2>11, <2>12, <2>13, <2>14, <2>15 DEF ExactInv, ScanInv
<1> QED
  BY <1>5, <1>6, <1>7

-----------------------------------------------------------------------------
(* The end of a scan *)

\* A disk on which nothing changed lists the same.
LEMMA SameListed ==
  ASSUME NEW scope, NEW other, NEW nodes, scope.tool = other.tool, scope.recursive = other.recursive,
         scope.roots = other.roots, scope.path = other.path
  PROVE  ListedIn(scope, nodes) = ListedIn(other, nodes)
<1>1. /\ OfRoots(scope) <=> OfRoots(other)
      /\ StartsOf(scope) = StartsOf(other)
  BY DEF OfRoots, StartsOf
<1>2. \A path : IsUnder(scope, path) <=> IsUnder(other, path)
  BY <1>1 DEF IsUnder, LeadsTo
<1>3. \A path, node : IsListed(scope, path, node) <=> IsListed(other, path, node)
  BY <1>1 DEF IsListed
<1>4. \A entry : entry \in ListedIn(scope, nodes) <=> entry \in ListedIn(other, nodes)
  BY <1>2, <1>3, ListedInIs
<1> QED
  BY <1>4

\* More nodes list more.
LEMMA ListedMonotone ==
  ASSUME NEW scope, NEW few, NEW many, few \subseteq many
  PROVE  ListedIn(scope, few) \subseteq ListedIn(scope, many) /\ LinkedIn(scope, few) \subseteq LinkedIn(scope, many)
<1>1. ListedIn(scope, few) \subseteq ListedIn(scope, many)
  BY ListedInIs
<1>2. \A path : IsLinked(few, path) => IsLinked(many, path)
  BY DEF IsLinked
<1>3. LinkedIn(scope, few) \subseteq LinkedIn(scope, many)
  BY <1>2, LinkedInIs
<1> QED
  BY <1>1, <1>3

\* In the end nothing is ahead, so everything that was there all along was found.
LEMMA AnswerListingExact ==
  ASSUME ListInv, ExactInv, AnswerListing
  PROVE  ExactInv'
<1> DEFINE entries == InPathOrder(listing.found)
           cursor  == command.cursor
           start   == IF cursor = NoListCursor THEN 0 ELSE cursor.next
           wanted  == IF command.ask.max < MaxResults THEN command.ask.max ELSE MaxResults
           end     == IF start + wanted < Len(entries) THEN start + wanted ELSE Len(entries)
           complete == end = Len(entries)
<1>1. /\ listing.stage = "scanning" /\ listing.batch = {} /\ listing.dirs = <<>>
      /\ listing' = [listing EXCEPT !.stage = "idle"]
      /\ UNCHANGED <<disk, configured, command, changed, alive, steady>>
      /\ runStart' = IF cursor = NoListCursor THEN command.began ELSE runStart
  BY DEF AnswerListing
<1>2. /\ Sound(disk) /\ RunInv /\ AliveInv /\ BeganInv /\ listing.found \subseteq Met
      /\ Covers(listing.found, <<>>, {})
  BY <1>1 DEF ExactInv, ScanInv
<1>3. /\ listing'.stage = "idle" /\ listing'.found = listing.found
      /\ listing'.roots = listing.roots /\ listing'.path = listing.path
  BY <1>1 DEF ListInv, ListingShape
<1>4. Scope' = Scope /\ Met' = Met /\ CanonicalRoots' = CanonicalRoots /\ NodesOf(disk)' = NodesOf(disk)
  <2>1. Scope' = Scope
    BY <1>1, <1>3 DEF Scope
  <2> QED
    BY <1>1, <2>1, RootsStay DEF Met, NodesOf
<1>5. ListedIn(Scope, steady) \subseteq listing.found
  <2>1. ASSUME NEW there \in steady, IsUnder(Scope, there[1]), IsListed(Scope, there[1], there[2])
        PROVE  FileEntry(there[1], there[2]) \in listing.found
    <3>1. ~IsAhead(<<>>, {}, there[1], there[2])
      BY DEF IsAhead
    <3> QED
      BY <1>2, <2>1, <3>1 DEF Covers
  <2> QED
    BY <2>1, ListedInIs
\* What a scan finds under which nothing changes.
<1>6. ASSUME changed = command.began
      PROVE  listing.roots = CanonicalRoots /\ entries = InPathOrder(ListedIn(Scope, NodesOf(disk)))
  <2>1. alive = steady /\ listing.roots = CanonicalRoots
    BY <1>2, <1>6 DEF BeganInv
  <2>2. alive = NodesOf(disk)
    BY <1>2, <2>1 DEF AliveInv
  <2>3. listing.found = ListedIn(Scope, NodesOf(disk))
    BY <1>2, <1>5, <2>1, <2>2 DEF Met
  <2> QED
    BY <2>1, <2>3
<1>7. /\ command.began \in Nat /\ changed \in Nat /\ runStart \in Nat
      /\ runStart <= command.began /\ command.began <= changed
  BY <1>2 DEF BeganInv, RunInv
<1>8. CASE IsStale(cursor, entries)
  <2>1. outcome' = Error("stale", TRUE) /\ UNCHANGED <<heldCursor, pagesRead>>
    BY <1>8 DEF AnswerListing
  <2>2. cursor # NoListCursor /\ cursor = heldCursor
    BY <1>1, <1>8 DEF IsStale, ListInv, CallInv
  <2>3. runStart' = runStart
    BY <1>1, <2>2
  <2>4. RunInv'
    BY <1>1, <1>2, <1>4, <2>1, <2>3, RunStays
  <2>5. changed # runStart
    <3>1. SUFFICES ASSUME changed = runStart PROVE FALSE
      OBVIOUS
    <3>2. changed = command.began
      BY <1>7, <3>1
    <3>3. cursor.total = Len(cursor.manifest) /\ cursor.manifest = InPathOrder(ListedIn(cursor, NodesOf(disk)))
      BY <1>2, <2>2, <3>1 DEF RunInv
    <3>4. /\ cursor.tool = Scope.tool /\ cursor.recursive = Scope.recursive
          /\ cursor.roots = Scope.roots /\ cursor.path = Scope.path
      BY <1>2, <2>2, ScopeIs DEF BeganInv
    <3>5. ListedIn(cursor, NodesOf(disk)) = ListedIn(Scope, NodesOf(disk))
      BY <3>4, SameListed
    <3> HIDE DEF entries, cursor
    <3> QED
      BY <1>6, <1>8, <3>2, <3>3, <3>5 DEF IsStale
  <2>6. outcome'.answer = "error" /\ outcome'.why = "stale"
    BY <2>1 DEF Error
  <2>7. changed' > runStart'
    BY <1>1, <1>7, <2>3, <2>5
  <2>8. ListingsMatchDisk'
    BY <2>6, <2>7 DEF ListingsMatchDisk
  <2> QED
    BY <1>1, <1>2, <1>3, <2>4, <2>8 DEF ExactInv, ScanInv
<1>9. CASE ~IsStale(cursor, entries)
  <2>1. /\ outcome' = [answer |-> "page", complete |-> complete]
        /\ heldCursor' = IF complete THEN NoListCursor ELSE CursorAfter(end, entries)
    BY <1>9 DEF AnswerListing
  <2> HIDE DEF entries, end
  <2> DEFINE new == CursorAfter(end, entries)
  <2>2. /\ new.total = Len(entries) /\ new.manifest = entries /\ new.tool = Scope.tool
        /\ new.recursive = Scope.recursive /\ new.roots = Scope.roots /\ new.path = Scope.path
        /\ new.roots = listing.roots
    BY ScopeIs DEF CursorAfter
  <2> HIDE DEF new
  <2>3. heldCursor' # NoListCursor => heldCursor' = new
    BY <2>1 DEF new
  <2>4. changed' \in Nat /\ runStart' \in Nat /\ runStart' <= changed' /\ (changed' = runStart' => changed = command.began)
    BY <1>1, <1>7
  <2>5. changed = command.began => /\ new.roots = CanonicalRoots
                                   /\ new.manifest = InPathOrder(ListedIn(new, NodesOf(disk)))
    <3>1. ListedIn(new, NodesOf(disk)) = ListedIn(Scope, NodesOf(disk))
      BY <2>2, SameListed
    <3> QED
      BY <1>6, <2>2, <3>1
  <2>6. RunInv'
    <3>1. ASSUME heldCursor' # NoListCursor
          PROVE  /\ heldCursor'.total = Len(heldCursor'.manifest)
                 /\ changed' = runStart' =>
                      /\ heldCursor'.roots = CanonicalRoots'
                      /\ heldCursor'.manifest = InPathOrder(ListedIn(heldCursor', NodesOf(disk)))
      BY <1>4, <2>2, <2>3, <2>4, <2>5, <3>1
    <3> QED
      BY <1>4, <2>4, <3>1 DEF RunInv
  <2>7. outcome'.answer = "page"
    BY <2>1
  <2>8. ListingsMatchDisk'
    BY <1>1, <1>2, <1>3, <1>4, <1>5, <2>7 DEF ListingsMatchDisk
  <2> QED
    BY <1>1, <1>2, <1>3, <2>6, <2>8 DEF ExactInv, ScanInv
<1> QED
  BY <1>8, <1>9

-----------------------------------------------------------------------------
(* The disk changes under a scan, or between two *)

\* What changes under a scan leaves what was there all along found or ahead.
LEMMA BecomeExact ==
  ASSUME ListInv, ExactInv, NEW new, Become(new), Sound(new), Follows(new, disk)
  PROVE  ExactInv'
<1>1. /\ disk' = new /\ changed' = changed + 1 /\ UNCHANGED <<configured, command, listing, outcome, heldCursor, runStart>>
      /\ IF listing.stage = "scanning" THEN alive' = alive \cup NodesOf(new) /\ steady' = steady \cap NodesOf(new)
         ELSE UNCHANGED <<alive, steady>>
  BY DEF Become, NodesOf
<1>2. Sound(disk)' /\ Scope' = Scope /\ (ListsRoots' <=> ListsRoots)
  BY <1>1 DEF Scope, ListsRoots, Sound, IsDisk, LeadsOn
<1>3. changed \in Nat /\ runStart \in Nat /\ runStart <= changed
  BY DEF ExactInv, RunInv
<1>4. changed' \in Nat /\ runStart' < changed' /\ runStart' \in Nat
  BY <1>1, <1>3
<1>5. RunInv'
  BY <1>1, <1>4 DEF ExactInv, RunInv
<1>6. CASE listing.stage # "scanning"
  <2>1. Met' = Met /\ UNCHANGED <<alive, steady>>
    BY <1>1, <1>2, <1>6 DEF Met
  <2>2. ListingsMatchDisk'
    BY <1>1, <1>2, <1>3, <1>4, <2>1 DEF ExactInv, ListingsMatchDisk
  <2> QED
    BY <1>1, <1>2, <1>5, <1>6, <2>2 DEF ExactInv, ScanInv
<1>7. CASE listing.stage = "scanning"
  <2>1. /\ AliveInv /\ ScopeInv /\ BeganInv /\ AreAhead(listing.dirs, listing.batch)
        /\ listing.found \subseteq Met /\ Covers(listing.found, listing.dirs, listing.batch)
    BY <1>7 DEF ExactInv, ScanInv
  <2>2. alive' = alive \cup NodesOf(new) /\ steady' = steady \cap NodesOf(new)
    BY <1>1, <1>7
  <2>3. alive # steady => alive' # steady'
    BY <2>1, <2>2 DEF AliveInv
  <2>4. AliveInv'
    <3>1. IsFiniteSet(NodesOf(new))
      BY SoundAlive
    <3>2. IsFiniteSet(alive')
      BY <2>1, <2>2, <3>1, FS_Union DEF AliveInv
    <3>3. ASSUME NEW node \in alive'
          PROVE  /\ node[1] \in Named /\ node[2].kind \in {"file", "dir", "link"}
                 /\ node[2].kind = "link" => node[2].target \in Named
                 /\ node[1] \in FilePaths => node[2].kind = "file"
                 /\ node[1] \in DirPaths => node[2].kind # "file"
                 /\ node[1] \notin FilePaths \cup DirPaths => node[1] \in DOMAIN new /\ new[node[1]] = node[2]
      <4>1. CASE node \in NodesOf(new)
        BY <4>1, SoundAlive
      <4>2. CASE node \in alive
        BY <2>1, <4>2 DEF AliveInv, Follows
      <4> QED
        BY <2>2, <4>1, <4>2
    <3>4. NodesOf(disk)' = NodesOf(new)
      BY <1>1 DEF NodesOf
    <3>5. NodesOf(new) \subseteq alive' /\ steady' \subseteq NodesOf(new)
      BY <2>2
    <3> QED
      BY <1>1, <3>2, <3>3, <3>4, <3>5 DEF AliveInv
  <2>5. ScopeInv'
    BY <1>1, <1>2, <2>1 DEF ScopeInv
  <2>6. BeganInv'
    BY <1>1, <1>3, <2>1 DEF BeganInv
  <2>7. \A path : Astray(path) => Astray(path)'
    BY <2>2, <2>3 DEF Astray, IsLinked
  <2>8. AreAhead(listing.dirs, listing.batch)'
    <3>1. ASSUME NEW d, IsDirAhead(d) PROVE IsDirAhead(d)'
      <4>1. PICK node : /\ <<d, node>> \in alive /\ node.kind # "link"
                        /\ alive = steady => node.kind = "dir" \/ d \in listing.roots
        BY <3>1 DEF IsDirAhead
      <4>2. /\ <<d, node>> \in alive' /\ node.kind # "link"
            /\ alive' = steady' => node.kind = "dir" \/ d \in listing.roots
        BY <2>2, <2>3, <4>1
      <4> QED
        BY <1>1, <1>2, <2>7, <3>1, <4>2 DEF IsDirAhead
    <3>2. ASSUME NEW name, IsNameAhead(name) PROVE IsNameAhead(name)'
      <4>1. PICK node : /\ <<name.path, node>> \in alive /\ node.kind # "link"
                        /\ (name.isDir <=> node.kind = "dir") \/ (name.resolved /\ Astray(name.path))
        BY <3>2 DEF IsNameAhead
      <4>2. <<name.path, node>> \in alive'
        BY <2>2, <4>1
      <4> QED
        BY <1>1, <1>2, <2>7, <3>2, <4>1, <4>2 DEF IsNameAhead
    <3> QED
      BY <1>1, <1>2, <2>1, <3>1, <3>2 DEF AreAhead
  <2>9. Met \subseteq Met'
    <3>1. alive \subseteq alive'
      BY <2>2
    <3> DEFINE much == alive'
    <3>2. ListedIn(Scope, alive) \subseteq ListedIn(Scope, much) /\ LinkedIn(Scope, alive) \subseteq LinkedIn(Scope, much)
      BY <3>1, ListedMonotone
    <3> QED
      BY <1>2, <2>3, <3>2 DEF Met
  <2>10. Covers(listing.found, listing.dirs, listing.batch)'
    BY <1>1, <1>2, <2>1, <2>2 DEF Covers, IsAhead
  <2>11. ListingsMatchDisk'
    BY <1>1, <1>7 DEF ListingsMatchDisk, ListInv, CallInv, NoOutcome
  <2> QED
    BY <1>1, <1>2, <1>5, <2>1, <2>4, <2>5, <2>6, <2>8, <2>9, <2>10, <2>11 DEF ExactInv, ScanInv
<1> QED
  BY <1>6, <1>7

LEMMA DiskChangeExact ==
  ASSUME ListInv, ExactInv, WriteFile \/ MakeDir \/ RemoveFile \/ RemoveDir \/ MakeLink
  PROVE  ExactInv'
<1>1. Sound(disk)
  BY DEF ExactInv
<1> QED
  BY <1>1, DiskChange, BecomeExact

LEMMA ExactInitInv ==
  ASSUME ListInit
  PROVE  ExactInv
<1>1. Sound(disk)
  BY DiskAssumption DEF ListInit, Sound
<1> QED
  BY <1>1 DEF ListInit, ExactInv, RunInv, ScanInv, ListingsMatchDisk, NoListing, NoOutcome

\* One step of a call or of the disk.
LEMMA ExactStep ==
  ASSUME ListInv, ExactInv, [ListNext]_listVars
  PROVE  ExactInv'
<1>1. CASE UNCHANGED listVars
  <2>1. /\ UNCHANGED <<disk, configured, command, listing, outcome, heldCursor, changed, runStart, alive, steady>>
    BY <1>1 DEF listVars
  <2>2. /\ Scope' = Scope /\ (ListsRoots' <=> ListsRoots) /\ CanonicalRoots' = CanonicalRoots
        /\ NodesOf(disk)' = NodesOf(disk)
    BY <2>1, RootsStay DEF Scope, ListsRoots, NodesOf
  <2>3. Met' = Met
    BY <2>1, <2>2 DEF Met
  <2>4. Sound(disk)' /\ ListingsMatchDisk'
    BY <2>1, <2>2, <2>3 DEF ExactInv, ListingsMatchDisk, Sound, IsDisk, LeadsOn
  <2>5. RunInv'
    BY <2>1, <2>2, RunStays DEF ExactInv
  <2>6. ScanInv'
    <3>1. AliveInv' <=> AliveInv
      BY <2>1, <2>2 DEF AliveInv
    <3>2. ScopeInv' <=> ScopeInv
      BY <2>1, <2>2 DEF ScopeInv
    <3>3. BeganInv' <=> BeganInv
      BY <2>1, <2>2 DEF BeganInv
    <3>4. AreAhead(listing.dirs, listing.batch)' <=> AreAhead(listing.dirs, listing.batch)
      BY <2>1, <2>2 DEF AreAhead, IsDirAhead, IsNameAhead, Astray, IsLinked
    <3>5. Covers(listing.found, listing.dirs, listing.batch)' <=> Covers(listing.found, listing.dirs, listing.batch)
      BY <2>1, <2>2 DEF Covers, IsAhead
    <3> QED
      BY <2>1, <2>3, <3>1, <3>2, <3>3, <3>4, <3>5 DEF ExactInv, ScanInv
  <2> QED
    BY <2>4, <2>5, <2>6 DEF ExactInv
<1>2. CASE ListCall
  BY <1>2, BeginListingExact, ListRootExact, ReadDirectoryExact, AnswerListingExact, TakeDocumentExact,
     TakeChildExact, MeasureExact DEF ListCall
<1> QED
  BY <1>1, <1>2, DiskChangeExact DEF ListNext

\* However the disk changes under a scan, its listing has every entry in its scope that was there all along
\* and none that never was, and a call fails only because of the disk.
THEOREM ListingsAreOfTheDisk == ListSpec => []ListingsMatchDisk
<1>1. ExactInv => ListingsMatchDisk
  BY DEF ExactInv
<1>2. ListSpec => []ExactInv
  BY ListAlways, ExactInitInv, ExactStep, PTL DEF ListSpec
<1> QED
  BY <1>1, <1>2, PTL

\* The listings of a disk that changes are exact: one listing, page after page, of what the disk had.
THEOREM ListingsAreExact == ListSpec => []ListingsExact
<1>1. PagesAreOneListing /\ ListingsMatchDisk => ListingsExact
  BY DEF ListingsExact
<1> QED
  BY <1>1, ListingsAreWhole, ListingsAreOfTheDisk, PTL
=============================================================================
