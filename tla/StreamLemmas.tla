---------------------------- MODULE StreamLemmas ----------------------------
(***************************************************************************)
(* What the folds and concatenations of the models compute, and what a     *)
(* section's stream lists. Induction over the naturals comes from the      *)
(* well-founded order of the library.                                      *)
(***************************************************************************)
EXTENDS SectionStream, FiniteSetsExt, SequenceTheorems, WellFoundedInduction, TLAPS

-----------------------------------------------------------------------------
(* Induction over the naturals *)

\* Some well-founded relation on the naturals holds their order.
LEMMA LessThan ==
  \E R : /\ IsWellFoundedOn(R, Nat)
         /\ \A x, y \in Nat : y < x => <<y, x>> \in R
<1>1. IsWellFoundedOn(OpToRel(<, Nat), Nat)
  BY NatLessThanWellFounded
<1>2. \A x, y \in Nat : y < x => <<y, x>> \in OpToRel(<, Nat)
  BY DEF OpToRel
<1> QED
  BY <1>1, <1>2, Zenon

\* A set of naturals that is not empty has a least element.
LEMMA LeastNat ==
  ASSUME NEW T, T \subseteq Nat, T # {}
  PROVE  \E x \in T : \A y \in T : x <= y
<1>1. PICK R : /\ IsWellFoundedOn(R, Nat)
               /\ \A x, y \in Nat : y < x => <<y, x>> \in R
  BY LessThan
<1>2. PICK x \in T : \A y \in T : <<y, x>> \notin R
  BY <1>1, WFMin
<1>3. ASSUME NEW y \in T PROVE x <= y
  <2>1. x \in Nat /\ y \in Nat
    OBVIOUS
  <2>2. ~(y < x)
    BY <1>1, <1>2, <2>1
  <2> QED
    BY <2>1, <2>2
<1> QED
  BY <1>3

\* Induction, of a set: one that holds 0 and every successor holds every natural.
LEMMA SetInduction ==
  ASSUME NEW T, 0 \in T, \A n \in Nat : n \in T => n + 1 \in T
  PROVE  Nat \subseteq T
<1>1. SUFFICES ASSUME Nat \ T # {} PROVE FALSE
  OBVIOUS
<1>2. PICK x \in Nat \ T : \A y \in Nat \ T : x <= y
  BY <1>1, LeastNat
<1>3. x # 0 /\ x - 1 \in Nat /\ x - 1 \notin Nat \ T
  BY <1>2
<1> QED
  BY <1>2, <1>3

\* Induction up to a bound.
LEMMA BoundedInduction ==
  ASSUME NEW n \in Nat, NEW T, 0 \in T, \A k \in 0..n : k < n /\ k \in T => k + 1 \in T
  PROVE  /\ \A k \in 0..n : k \in T
         /\ n \in T
<1> DEFINE U == {k \in Nat : k <= n => k \in T}
<1>1. 0 \in U
  OBVIOUS
<1>2. \A k \in Nat : k \in U => k + 1 \in U
  OBVIOUS
<1>3. Nat \subseteq U
  <2> HIDE DEF U
  <2> QED BY <1>1, <1>2, SetInduction
<1> QED
  BY <1>3

\* Min and Max pick an element of a set of naturals that is bounded and not empty.
LEMMA MinOf ==
  ASSUME NEW T, T \subseteq Nat, T # {}
  PROVE  Min(T) \in T /\ \A y \in T : Min(T) <= y
BY LeastNat DEF Min

LEMMA MaxOf ==
  ASSUME NEW n \in Nat, NEW T, T \subseteq 0..n, T # {}
  PROVE  Max(T) \in T /\ \A y \in T : y <= Max(T)
<1> DEFINE U == {n - y : y \in T}
<1>1. U \subseteq Nat /\ U # {}
  <2>1. \A y \in T : n - y \in Nat
    OBVIOUS
  <2>2. PICK y \in T : TRUE
    OBVIOUS
  <2>3. n - y \in U
    OBVIOUS
  <2> QED
    BY <2>1, <2>3
<1>2. PICK u \in U : \A v \in U : u <= v
  <2> HIDE DEF U
  <2> QED BY <1>1, LeastNat
<1>3. PICK x \in T : u = n - x
  OBVIOUS
<1>4. \A y \in T : x >= y
  <2> TAKE y \in T
  <2>1. n - x <= n - y
    BY <1>2, <1>3
  <2> QED
    BY <2>1
<1> QED
  BY <1>4 DEF Max

\* Of two naturals.
LEMMA MinOfTwo ==
  ASSUME NEW a \in Nat, NEW b \in Nat
  PROVE  Min({a, b}) = IF a <= b THEN a ELSE b
<1>1. Min({a, b}) \in {a, b} /\ \A y \in {a, b} : Min({a, b}) <= y
  BY {a, b} # {}, MinOf
<1> QED
  BY <1>1

-----------------------------------------------------------------------------
(* Folds over 1..n *)

\* The largest of a part of 1..k+1 that holds k + 1.
LEMMA MaxOfInterval ==
  ASSUME NEW k \in Nat, NEW s, s \subseteq 1..k + 1, k + 1 \in s
  PROVE  Max(s) = k + 1
<1>1. Max(s) \in s /\ \A y \in s : y <= Max(s)
  <2>1. s \subseteq 0..k + 1 /\ k + 1 \in Nat /\ s # {}
    OBVIOUS
  <2> QED
    BY <2>1, MaxOf
<1>0. \A y \in s : y \in Nat /\ y <= k + 1
  OBVIOUS
<1>2. Max(s) \in Nat /\ Max(s) <= k + 1
  BY <1>0, <1>1
<1>3. k + 1 <= Max(s)
  BY <1>1
<1> QED
  BY <1>2, <1>3

\* What a fold of 1..n computes of every part of it.
IsFold(f, n, Acc, base, g) ==
  /\ f \in [SUBSET (1..n) -> Acc]
  /\ \A s \in SUBSET (1..n) :
       f[s] = IF s = {} THEN base ELSE g[<<f[s \ {Max(s)}], Max(s)>>]

\* The function a fold is defined by exists.
LEMMA FoldExists ==
  ASSUME NEW n \in Nat, NEW Acc, NEW base \in Acc, NEW g \in [Acc \X (1..n) -> Acc]
  PROVE  \E f : IsFold(f, n, Acc, base, g)
<1> DEFINE T == {k \in 0..n : \E f : IsFold(f, k, Acc, base, g)}
<1>1. 0 \in T
  <2>1. 1..0 = {} /\ SUBSET (1..0) = {{}}
    OBVIOUS
  <2>2. IsFold([s \in SUBSET (1..0) |-> base], 0, Acc, base, g)
    BY <2>1 DEF IsFold
  <2> QED
    BY <2>2
<1>2. ASSUME NEW k \in 0..n, k < n, k \in T PROVE k + 1 \in T
  <2>1. PICK f : IsFold(f, k, Acc, base, g)
    BY <1>2
  <2> DEFINE h == [s \in SUBSET (1..k + 1) |->
                     IF k + 1 \in s THEN g[<<f[s \ {k + 1}], k + 1>>] ELSE f[s]]
  <2>2. h \in [SUBSET (1..k + 1) -> Acc]
    <3> SUFFICES ASSUME NEW s \in SUBSET (1..k + 1) PROVE h[s] \in Acc
      OBVIOUS
    <3>1. CASE k + 1 \in s
      <4>1. s \ {k + 1} \in SUBSET (1..k)
        OBVIOUS
      <4>2. f[s \ {k + 1}] \in Acc /\ k + 1 \in 1..n
        BY <4>1, <2>1, <1>2 DEF IsFold
      <4> QED
        BY <4>2, <3>1
    <3>2. CASE k + 1 \notin s
      <4>1. s \in SUBSET (1..k)
        BY <3>2
      <4> QED
        BY <4>1, <2>1, <3>2 DEF IsFold
    <3> QED
      BY <3>1, <3>2
  <2>3. ASSUME NEW s \in SUBSET (1..k + 1)
        PROVE  h[s] = IF s = {} THEN base ELSE g[<<h[s \ {Max(s)}], Max(s)>>]
    <3>1. CASE k + 1 \in s
      <4>1. Max(s) = k + 1
        BY <3>1, k \in Nat, s \subseteq 1..k + 1, MaxOfInterval
      <4>2. s \ {k + 1} \in SUBSET (1..k + 1) /\ k + 1 \notin s \ {k + 1}
        OBVIOUS
      <4>3. h[s \ {k + 1}] = f[s \ {k + 1}]
        BY <4>2
      <4> QED
        BY <4>1, <4>3, <3>1
    <3>2. CASE k + 1 \notin s
      <4>1. s \in SUBSET (1..k) /\ h[s] = f[s]
        BY <3>2
      <4>2. s \ {Max(s)} \in SUBSET (1..k + 1) /\ k + 1 \notin s \ {Max(s)}
        BY <3>2
      <4>3. h[s \ {Max(s)}] = f[s \ {Max(s)}]
        BY <4>2
      <4> QED
        BY <4>1, <4>3, <2>1 DEF IsFold
    <3> QED
      BY <3>1, <3>2
  <2>4. IsFold(h, k + 1, Acc, base, g)
    <3> HIDE DEF h
    <3> QED BY <2>2, <2>3 DEF IsFold
  <2> QED
    BY <2>4, <1>2
<1>3. n \in T
  <2> HIDE DEF T
  <2> QED BY <1>1, <1>2, BoundedInduction
<1> QED
  BY <1>3

\* A fold that adds the w[1] .. w[n], the last of a part first.
FoldsWeights(f, w, n) ==
  f = [s \in SUBSET (1..n) |-> IF s = {} THEN 0 ELSE f[s \ {Max(s)}] + w[Max(s)]]

\* The fold that adds weights exists.
LEMMA FoldsWeightsExists ==
  ASSUME NEW n \in Nat, NEW w \in [1..n -> Nat]
  PROVE  \E f : FoldsWeights(f, w, n)
<1> DEFINE g == [x \in Nat \X (1..n) |-> x[1] + w[x[2]]]
<1>1. g \in [Nat \X (1..n) -> Nat]
  OBVIOUS
<1>2. PICK f : IsFold(f, n, Nat, 0, g)
  <2> HIDE DEF g
  <2> QED BY <1>1, 0 \in Nat, FoldExists, Zenon
<1>3. ASSUME NEW s \in SUBSET (1..n)
      PROVE  f[s] = IF s = {} THEN 0 ELSE f[s \ {Max(s)}] + w[Max(s)]
  <2>1. CASE s = {}
    BY <2>1, <1>2 DEF IsFold
  <2>2. CASE s # {}
    <3>1. Max(s) \in s
      <4>1. s \subseteq 0..n
        OBVIOUS
      <4> QED
        BY <4>1, <2>2, MaxOf
    <3>2. s \ {Max(s)} \in SUBSET (1..n)
      OBVIOUS
    <3>3. <<f[s \ {Max(s)}], Max(s)>> \in Nat \X (1..n)
      BY <1>2, <3>1, <3>2 DEF IsFold
    <3> QED
      BY <1>2, <2>2, <3>3 DEF IsFold
  <2> QED
    BY <2>1, <2>2
<1>4. FoldsWeights(f, w, n)
  BY <1>2, <1>3 DEF FoldsWeights, IsFold
<1> QED
  BY <1>4

IsPartialSums(P, w, n) ==
  /\ P \in [0..n -> Nat]
  /\ P[0] = 0
  /\ \A k \in 1..n : P[k] = P[k - 1] + w[k]

\* Such a fold computes the partial sums of w.
LEMMA FoldIsSum ==
  ASSUME NEW n \in Nat, NEW w \in [1..n -> Nat], NEW P, IsPartialSums(P, w, n),
         NEW c, FoldsWeights(c, w, n)
  PROVE  c[1..n] = P[n]
<1> DEFINE T == {k \in 0..n : c[1..k] = P[k]}
<1>1. 0 \in T
  <2>1. 1..0 = {} /\ {} \in SUBSET (1..n)
    OBVIOUS
  <2>2. c[{}] = 0
    BY <2>1 DEF FoldsWeights
  <2> QED
    BY <2>1, <2>2 DEF IsPartialSums
<1>2. ASSUME NEW k \in 0..n, k < n, k \in T PROVE k + 1 \in T
  <2>1. 1..k + 1 \in SUBSET (1..n) /\ 1..k + 1 # {}
    <3>1. k + 1 \in 1..n /\ k + 1 \in 1..k + 1
      BY <1>2
    <3>2. \A i \in 1..k + 1 : i \in 1..n
      BY <3>1
    <3> QED
      BY <3>1, <3>2
  <2>2. Max(1..k + 1) = k + 1
    BY MaxOfInterval
  <2>3. (1..k + 1) \ {k + 1} = 1..k
    OBVIOUS
  <2>4. c[1..k + 1] = c[1..k] + w[k + 1]
    BY <2>1, <2>2, <2>3 DEF FoldsWeights
  <2>5. P[k + 1] = P[k] + w[k + 1]
    BY <1>2 DEF IsPartialSums
  <2> QED
    BY <2>4, <2>5, <1>2
<1>3. n \in T
  <2> HIDE DEF T
  <2> QED BY <1>1, <1>2, BoundedInduction
<1> QED
  BY <1>3

\* The partial sums exist.
LEMMA PartialSumsExist ==
  ASSUME NEW n \in Nat, NEW w \in [1..n -> Nat]
  PROVE  \E P : IsPartialSums(P, w, n)
<1> DEFINE T == {k \in 0..n : \E P : IsPartialSums(P, w, k)}
<1>1. 0 \in T
  <2>1. IsPartialSums([k \in 0..0 |-> 0], w, 0)
    BY DEF IsPartialSums
  <2> QED
    BY <2>1
<1>2. ASSUME NEW k \in 0..n, k < n, k \in T PROVE k + 1 \in T
  <2>1. PICK P : IsPartialSums(P, w, k)
    BY <1>2
  <2>2. IsPartialSums([j \in 0..k + 1 |-> IF j = k + 1 THEN P[k] + w[k + 1] ELSE P[j]], w, k + 1)
    BY <2>1, <1>2, SMTT(40) DEF IsPartialSums
  <2> QED
    BY <2>2, <1>2
<1>3. n \in T
  <2> HIDE DEF T
  <2> QED BY <1>1, <1>2, BoundedInduction
<1> QED
  BY <1>3

\* Partial sums never shrink.
LEMMA PartialSumsGrow ==
  ASSUME NEW n \in Nat, NEW w \in [1..n -> Nat], NEW P, IsPartialSums(P, w, n),
         NEW a \in 0..n, NEW b \in a..n
  PROVE  P[a] <= P[b]
<1> DEFINE T == {k \in 0..n : k >= a => P[a] <= P[k]}
<1>1. 0 \in T
  BY DEF IsPartialSums
<1>2. ASSUME NEW k \in 0..n, k < n, k \in T PROVE k + 1 \in T
  <2>1. P[k + 1] = P[k] + w[k + 1] /\ P[k] \in Nat /\ P[k + 1] \in Nat /\ w[k + 1] \in Nat /\ P[a] \in Nat
    BY <1>2 DEF IsPartialSums
  <2> QED
    BY <2>1, <1>2
<1>3. \A k \in 0..n : k \in T
  <2> HIDE DEF T
  <2> QED BY <1>1, <1>2, BoundedInduction
<1> QED
  BY <1>3

\* Every position falls in one of the steps of the partial sums.
LEMMA PartialSumsLocate ==
  ASSUME NEW n \in Nat, NEW w \in [1..n -> Nat], NEW P, IsPartialSums(P, w, n),
         NEW j \in 1..P[n]
  PROVE  \E k \in 1..n : P[k - 1] < j /\ j <= P[k]
<1> DEFINE T == {k \in 0..n : j <= P[k]}
<1>1. P[n] \in Nat /\ n \in T
  BY DEF IsPartialSums
<1>2. PICK k \in T : \A m \in T : k <= m
  <2>1. T \subseteq Nat /\ T # {}
    BY <1>1
  <2> HIDE DEF T
  <2> QED BY <2>1, LeastNat
<1>3. k # 0
  BY <1>1 DEF IsPartialSums
<1>4. k \in 1..n /\ k - 1 \in 0..n /\ k - 1 \notin T
  BY <1>2, <1>3
<1>5. P[k - 1] \in Nat
  BY <1>4 DEF IsPartialSums
<1> QED
  BY <1>1, <1>4, <1>5

-----------------------------------------------------------------------------
(* Concatenations *)

IsFlatten(f, seqs) ==
  f = [i \in 1..Len(seqs) |-> IF i = 1 THEN seqs[i] ELSE f[i - 1] \o seqs[i]]

LensOf(seqs) == [k \in 1..Len(seqs) |-> Len(seqs[k])]

\* s holds the first m of seqs one after the other, at the offsets P.
IsJoin(s, seqs, m, P, T) ==
  /\ s \in Seq(T)
  /\ Len(s) = P[m]
  /\ \A k \in 1..m : \A i \in 1..Len(seqs[k]) : s[P[k - 1] + i] = seqs[k][i]

\* The function FlattenSeq is defined by exists.
LEMMA FlattenExists ==
  ASSUME NEW T, NEW seqs \in Seq(Seq(T))
  PROVE  \E f : IsFlatten(f, seqs)
<1> DEFINE IsUpTo(f, m) ==
             f = [i \in 1..m |-> IF i = 1 THEN seqs[i] ELSE f[i - 1] \o seqs[i]]
           U == {m \in 0..Len(seqs) : \E f : IsUpTo(f, m)}
<1>1. 0 \in U
  <2>1. IsUpTo([i \in 1..0 |-> seqs[i]], 0)
    OBVIOUS
  <2> HIDE DEF IsUpTo
  <2> QED
    BY <2>1
<1>2. ASSUME NEW m \in 0..Len(seqs), m < Len(seqs), m \in U PROVE m + 1 \in U
  <2>1. PICK f : IsUpTo(f, m)
    BY <1>2
  <2> DEFINE h == [i \in 1..m + 1 |->
                     IF i = m + 1 THEN IF i = 1 THEN seqs[i] ELSE f[m] \o seqs[i] ELSE f[i]]
  <2>2. ASSUME NEW i \in 1..m + 1
        PROVE  h[i] = IF i = 1 THEN seqs[i] ELSE h[i - 1] \o seqs[i]
    <3>1. CASE i = m + 1
      <4>1. i # 1 => i - 1 \in 1..m + 1 /\ i - 1 # m + 1 /\ i - 1 = m
        BY <3>1
      <4> QED
        BY <3>1, <4>1
    <3>2. CASE i # m + 1
      <4>1. i \in 1..m
        BY <3>2
      <4>2. i # 1 => i - 1 \in 1..m + 1 /\ i - 1 # m + 1
        BY <3>2
      <4>3. h[i] = f[i] /\ (i # 1 => h[i - 1] = f[i - 1])
        BY <3>2, <4>2
      <4>4. f[i] = IF i = 1 THEN seqs[i] ELSE f[i - 1] \o seqs[i]
        BY <2>1, <4>1
      <4> HIDE DEF h
      <4> QED
        BY <4>3, <4>4
    <3> QED
      BY <3>1, <3>2
  <2>3. IsUpTo(h, m + 1)
    <3>1. h = [i \in 1..m + 1 |-> h[i]]
      OBVIOUS
    <3> HIDE DEF h
    <3> QED
      BY <2>2, <3>1
  <2> HIDE DEF IsUpTo
  <2> QED
    BY <2>3, <1>2
<1>3. Len(seqs) \in U
  <2> HIDE DEF U
  <2> QED BY <1>1, <1>2, BoundedInduction, Len(seqs) \in Nat
<1> QED
  BY <1>3 DEF IsFlatten

\* One more sequence goes behind those joined so far.
LEMMA JoinNext ==
  ASSUME NEW T, NEW seqs \in Seq(Seq(T)), NEW P, IsPartialSums(P, LensOf(seqs), Len(seqs)),
         NEW m \in 1..Len(seqs), m < Len(seqs), NEW s, IsJoin(s, seqs, m, P, T)
  PROVE  IsJoin(s \o seqs[m + 1], seqs, m + 1, P, T)
<1> DEFINE n == Len(seqs)
           r == s \o seqs[m + 1]
<1>1. /\ n \in Nat /\ m \in 0..n /\ m + 1 \in 1..n /\ m + 1 \in 0..n
      /\ LensOf(seqs) \in [1..n -> Nat]
      /\ \A k \in 1..n : seqs[k] \in Seq(T) /\ LensOf(seqs)[k] = Len(seqs[k])
  BY DEF LensOf
<1>2. P \in [0..n -> Nat] /\ \A k \in 1..n : P[k] = P[k - 1] + Len(seqs[k])
  BY <1>1 DEF IsPartialSums
<1>3. s \in Seq(T) /\ Len(s) = P[m] /\ seqs[m + 1] \in Seq(T) /\ (m + 1) - 1 = m
  BY <1>1 DEF IsJoin
<1>4. /\ r \in Seq(T)
      /\ Len(r) = Len(s) + Len(seqs[m + 1])
      /\ \A j \in 1..Len(s) + Len(seqs[m + 1]) :
           r[j] = IF j <= Len(s) THEN s[j] ELSE seqs[m + 1][j - Len(s)]
  <2> QED BY <1>3, ConcatProperties, Zenon
<1>5. Len(r) = P[m + 1]
  BY <1>1, <1>2, <1>3, <1>4
<1>6. ASSUME NEW k \in 1..m + 1, NEW i \in 1..Len(seqs[k])
      PROVE  r[P[k - 1] + i] = seqs[k][i]
  <2>0. P[m] \in Nat /\ P[k - 1] \in Nat /\ Len(seqs[m + 1]) \in Nat /\ Len(seqs[k]) \in Nat
    <3>1. k - 1 \in 0..n /\ k \in 1..n
      BY <1>1
    <3> QED
      BY <1>1, <1>2, <1>3, <3>1
  <2>3. i \in Nat /\ 1 <= i /\ i <= Len(seqs[k]) /\ Len(s) \in Nat
    BY <1>3, <2>0
  <2> HIDE DEF r
  <2>1. CASE k = m + 1
    <3>1. P[k - 1] = P[m] /\ i \in 1..Len(seqs[m + 1])
      BY <1>3, <2>1
    <3>2. /\ P[m] + i \in 1..Len(s) + Len(seqs[m + 1])
          /\ ~(P[m] + i <= Len(s)) /\ (P[m] + i) - Len(s) = i
      BY <1>3, <2>0, <2>1, <2>3, SMTT(30)
    <3> QED
      BY <1>4, <3>1, <3>2, <2>1
  <2>2. CASE k # m + 1
    <3>1. k \in 1..m /\ k \in 0..n /\ m \in k..n /\ k \in 1..n
      BY <1>1, <2>2
    <3>2. P[k] = P[k - 1] + Len(seqs[k]) /\ P[k] \in Nat
      BY <3>1, <1>2
    <3>3. P[k] <= P[m]
      BY <3>1, <1>1, PartialSumsGrow
    <3>4. P[k - 1] + i <= Len(s) /\ P[k - 1] + i \in 1..Len(s) + Len(seqs[m + 1])
      <4>1. P[k - 1] + i <= P[k] /\ P[k - 1] + i \in Nat /\ 1 <= P[k - 1] + i
        BY <2>0, <2>3, <3>2, SMTT(30)
      <4>2. P[k - 1] + i <= P[m]
        BY <2>0, <3>2, <3>3, <4>1, SMTT(30)
      <4>3. P[k - 1] + i <= Len(s)
        BY <1>3, <4>2
      <4>4. Len(s) <= Len(s) + Len(seqs[m + 1])
        BY <2>0, <2>3
      <4>5. P[k - 1] + i <= Len(s) + Len(seqs[m + 1])
        BY <2>0, <2>3, <4>1, <4>3, <4>4, SMTT(30)
      <4> QED
        BY <2>0, <2>3, <4>1, <4>3, <4>5
    <3>5. s[P[k - 1] + i] = seqs[k][i]
      BY <3>1 DEF IsJoin
    <3> QED
      BY <1>4, <3>4, <3>5
  <2> QED
    BY <2>1, <2>2
<1> QED
  BY <1>4, <1>5, <1>6 DEF IsJoin

\* What FlattenSeq returns: each of the sequences, at its offset.
LEMMA Flattened ==
  ASSUME NEW T, NEW seqs \in Seq(Seq(T)), NEW P, IsPartialSums(P, LensOf(seqs), Len(seqs))
  PROVE  IsJoin(FlattenSeq(seqs), seqs, Len(seqs), P, T)
<1> DEFINE n == Len(seqs)
<1>0. /\ n \in Nat
      /\ LensOf(seqs) \in [1..n -> Nat]
      /\ \A k \in 1..n : seqs[k] \in Seq(T) /\ LensOf(seqs)[k] = Len(seqs[k])
  BY DEF LensOf
<1>1. CASE n = 0
  <2>1. FlattenSeq(seqs) = seqs /\ seqs = <<>>
    BY <1>1 DEF FlattenSeq
  <2> QED
    BY <2>1, <1>1 DEF IsJoin, IsPartialSums
<1>2. CASE n # 0
  <2> DEFINE c == CHOOSE f : IsFlatten(f, seqs)
             U == {m \in 0..n : m = 0 \/ IsJoin(c[m], seqs, m, P, T)}
  <2>1. IsFlatten(c, seqs)
    BY FlattenExists
  <2>2. FlattenSeq(seqs) = c[n]
    BY <1>2 DEF FlattenSeq, IsFlatten
  <2> HIDE DEF c
  <2>3. ASSUME NEW m \in 0..n, m < n, m \in U PROVE m + 1 \in U
    <3>1. m + 1 \in 1..n /\ seqs[m + 1] \in Seq(T) /\ P[m + 1] = P[m] + Len(seqs[m + 1])
      BY <1>0, <2>3 DEF IsPartialSums
    <3>2. CASE m = 0
      <4>1. c[1] = seqs[1]
        BY <2>1, <3>1, <3>2 DEF IsFlatten
      <4>2. P[0] = 0 /\ P[1] = Len(seqs[1])
        BY <3>1, <3>2 DEF IsPartialSums
      <4>3. IsJoin(c[1], seqs, 1, P, T)
        BY <3>1, <3>2, <4>1, <4>2 DEF IsJoin
      <4> QED
        BY <3>1, <3>2, <4>3
    <3>3. CASE m # 0
      <4>1. c[m + 1] = c[m] \o seqs[m + 1]
        <5>1. m + 1 \in 1..Len(seqs) /\ m + 1 # 1 /\ (m + 1) - 1 = m
          BY <3>1, <3>3
        <5>2. \A i \in 1..Len(seqs) : c[i] = IF i = 1 THEN seqs[i] ELSE c[i - 1] \o seqs[i]
          BY <2>1, Zenon DEF IsFlatten
        <5> QED
          BY <5>1, <5>2
      <4>2. IsJoin(c[m], seqs, m, P, T)
        BY <2>3, <3>3
      <4>3. m \in 1..n /\ m < n
        BY <2>3, <3>3
      <4>6. IsJoin(c[m + 1], seqs, m + 1, P, T)
        BY <4>1, <4>2, <4>3, JoinNext
      <4> QED
        BY <3>1, <4>6
    <3> QED
      BY <3>2, <3>3
  <2>4. n \in U
    <3>1. 0 \in U
      BY <1>0
    <3> HIDE DEF U, n
    <3> QED BY <1>0, <3>1, <2>3, BoundedInduction
  <2> QED
    BY <1>2, <2>2, <2>4
<1> QED
  BY <1>1, <1>2

\* Every position of a concatenation is one of one of its sequences.
LEMMA FlattenPlace ==
  ASSUME NEW T, NEW seqs \in Seq(Seq(T)), NEW P, IsPartialSums(P, LensOf(seqs), Len(seqs)),
         NEW a \in 1..Len(FlattenSeq(seqs))
  PROVE  \E k \in 1..Len(seqs) : \E i \in 1..Len(seqs[k]) :
           a = P[k - 1] + i /\ FlattenSeq(seqs)[a] = seqs[k][i]
<1> DEFINE n == Len(seqs)
<1>1. n \in Nat /\ LensOf(seqs) \in [1..n -> Nat]
  BY DEF LensOf
<1>2. IsJoin(FlattenSeq(seqs), seqs, n, P, T)
  BY Flattened
<1>3. a \in 1..P[n]
  BY <1>2 DEF IsJoin
<1>4. PICK k \in 1..n : P[k - 1] < a /\ a <= P[k]
  BY <1>1, <1>3, PartialSumsLocate
<1>5. P[k - 1] \in Nat /\ P[k] = P[k - 1] + Len(seqs[k]) /\ Len(seqs[k]) \in Nat /\ a \in Nat
  <2>1. k - 1 \in 0..n /\ LensOf(seqs)[k] = Len(seqs[k]) /\ P \in [0..n -> Nat]
    BY <1>1 DEF LensOf, IsPartialSums
  <2>2. n \in 0..n /\ k \in 0..n
    BY <1>1
  <2>3. P[n] \in Nat /\ P[k - 1] \in Nat /\ P[k] \in Nat
    BY <2>1, <2>2
  <2>4. P[k] = P[k - 1] + Len(seqs[k])
    BY <2>1 DEF IsPartialSums
  <2>5. seqs[k] \in Seq(T)
    OBVIOUS
  <2> QED
    BY <1>3, <2>3, <2>4, <2>5
<1>6. a - P[k - 1] \in 1..Len(seqs[k]) /\ a = P[k - 1] + (a - P[k - 1])
  BY <1>4, <1>5
<1>7. FlattenSeq(seqs)[P[k - 1] + (a - P[k - 1])] = seqs[k][a - P[k - 1]]
  BY <1>2, <1>4, <1>6 DEF IsJoin
<1> QED
  BY <1>4, <1>6, <1>7

\* Every position of flat is one of one of the sequences, at its partial sum.
IsPlaced(flat, seqs, P) ==
  \A a \in 1..Len(flat) :
    \E k \in 1..Len(seqs) : \E i \in 1..Len(seqs[k]) : a = P[k - 1] + i /\ flat[a] = seqs[k][i]

LEMMA FlattenPlaces ==
  ASSUME NEW T, NEW seqs \in Seq(Seq(T)), NEW P, IsPartialSums(P, LensOf(seqs), Len(seqs))
  PROVE  IsPlaced(FlattenSeq(seqs), seqs, P)
<1> SUFFICES ASSUME NEW a \in 1..Len(FlattenSeq(seqs))
             PROVE  \E k \in 1..Len(seqs) : \E i \in 1..Len(seqs[k]) :
                      a = P[k - 1] + i /\ FlattenSeq(seqs)[a] = seqs[k][i]
  BY DEF IsPlaced
<1> QED BY FlattenPlace

\* Lists that are runs of one list, in order, flatten to it.
LEMMA JoinsTo ==
  ASSUME NEW T, NEW seqs \in Seq(Seq(T)), NEW P, IsPartialSums(P, LensOf(seqs), Len(seqs)),
         NEW list \in Seq(T), Len(list) = P[Len(seqs)],
         \A k \in 1..Len(seqs) : \A j \in 1..Len(seqs[k]) : seqs[k][j] = list[P[k - 1] + j]
  PROVE  FlattenSeq(seqs) = list
<1> DEFINE flat == FlattenSeq(seqs)
<1>1. IsJoin(flat, seqs, Len(seqs), P, T)
  BY Flattened
<1>2. flat \in Seq(T) /\ Len(flat) = P[Len(seqs)]
  BY <1>1 DEF IsJoin
<1>7. IsPlaced(flat, seqs, P)
  BY FlattenPlaces
<1>3. ASSUME NEW i \in 1..Len(flat) PROVE flat[i] = list[i]
  <2>1. PICK k \in 1..Len(seqs) : \E j \in 1..Len(seqs[k]) :
          i = P[k - 1] + j /\ flat[i] = seqs[k][j]
    BY <1>7 DEF IsPlaced
  <2>2. PICK j \in 1..Len(seqs[k]) : i = P[k - 1] + j /\ flat[i] = seqs[k][j]
    BY <2>1
  <2> HIDE DEF flat
  <2> QED BY <2>2
<1> HIDE DEF flat
<1>4. flat = [i \in 1..Len(flat) |-> flat[i]] /\ list = [i \in 1..Len(list) |-> list[i]]
  BY <1>2
<1>5. Len(flat) = Len(list)
  BY <1>2
<1>6. flat = list
  BY <1>3, <1>4, <1>5
<1> QED BY <1>6 DEF flat

\* The offsets of a concatenation exist.
LEMMA FlattenOffsets ==
  ASSUME NEW T, NEW seqs \in Seq(Seq(T))
  PROVE  \E P : IsPartialSums(P, LensOf(seqs), Len(seqs))
<1>1. Len(seqs) \in Nat /\ LensOf(seqs) \in [1..Len(seqs) -> Nat]
  BY DEF LensOf
<1> QED
  BY <1>1, PartialSumsExist

\* K differs on any two items of a list, and on any two of a list of lists.
Differs(K, list) == \A a, b \in 1..Len(list) : K[list[a]] = K[list[b]] => a = b

DiffersInAll(K, seqs) ==
  \A k, l \in 1..Len(seqs) : \A i \in 1..Len(seqs[k]), j \in 1..Len(seqs[l]) :
    K[seqs[k][i]] = K[seqs[l][j]] => k = l /\ i = j

\* Every item of the list is one of one of the lists.
IsAmong(list, seqs) ==
  \A a \in 1..Len(list) : \E k \in 1..Len(seqs) : \E i \in 1..Len(seqs[k]) : list[a] = seqs[k][i]

\* Lists without a common item concatenate to one without repetition.
LEMMA FlattenDistinct ==
  ASSUME NEW T, NEW seqs \in Seq(Seq(T)), NEW K, DiffersInAll(K, seqs)
  PROVE  /\ FlattenSeq(seqs) \in Seq(T)
         /\ Differs(K, FlattenSeq(seqs))
         /\ IsAmong(FlattenSeq(seqs), seqs)
<1>1. PICK P : IsPartialSums(P, LensOf(seqs), Len(seqs))
  BY FlattenOffsets
<1>2. FlattenSeq(seqs) \in Seq(T)
  BY <1>1, Flattened DEF IsJoin
<1>3. \A a \in 1..Len(FlattenSeq(seqs)) :
        \E k \in 1..Len(seqs) : \E i \in 1..Len(seqs[k]) :
          a = P[k - 1] + i /\ FlattenSeq(seqs)[a] = seqs[k][i]
  <2> TAKE a \in 1..Len(FlattenSeq(seqs))
  <2> QED
    BY <1>1, FlattenPlace
<1>4. ASSUME NEW a \in 1..Len(FlattenSeq(seqs)), NEW b \in 1..Len(FlattenSeq(seqs)),
             K[FlattenSeq(seqs)[a]] = K[FlattenSeq(seqs)[b]]
      PROVE  a = b
  <2>1. PICK k \in 1..Len(seqs) : \E i \in 1..Len(seqs[k]) :
          a = P[k - 1] + i /\ FlattenSeq(seqs)[a] = seqs[k][i]
    BY <1>3
  <2>2. PICK i \in 1..Len(seqs[k]) : a = P[k - 1] + i /\ FlattenSeq(seqs)[a] = seqs[k][i]
    BY <2>1
  <2>3. PICK l \in 1..Len(seqs) : \E j \in 1..Len(seqs[l]) :
          b = P[l - 1] + j /\ FlattenSeq(seqs)[b] = seqs[l][j]
    BY <1>3
  <2>4. PICK j \in 1..Len(seqs[l]) : b = P[l - 1] + j /\ FlattenSeq(seqs)[b] = seqs[l][j]
    BY <2>3
  <2>5. k = l /\ i = j
    <3>1. K[seqs[k][i]] = K[seqs[l][j]]
      BY <1>4, <2>2, <2>4
    <3> QED
      BY <3>1 DEF DiffersInAll
  <2> QED
    BY <2>2, <2>4, <2>5
<1>5. IsAmong(FlattenSeq(seqs), seqs)
  <2> SUFFICES ASSUME NEW a \in 1..Len(FlattenSeq(seqs))
               PROVE  \E k \in 1..Len(seqs) : \E i \in 1..Len(seqs[k]) :
                        FlattenSeq(seqs)[a] = seqs[k][i]
    BY DEF IsAmong
  <2> QED
    BY <1>3
<1> QED
  BY <1>2, <1>4, <1>5 DEF Differs

-----------------------------------------------------------------------------
(* The stream of a section *)

Units == [para : Nat, sent : Nat]
Entries == [unit : Units, eligible : BOOLEAN]

\* The sentences of a section are distinct.
LEMMA SentencesDistinct ==
  ASSUME NEW section \in Seq(Nat)
  PROVE  /\ LayoutOf(section).sentences \in Seq(Units)
         /\ \A a, b \in 1..Len(LayoutOf(section).sentences) :
              LayoutOf(section).sentences[a] = LayoutOf(section).sentences[b] => a = b
<1> DEFINE seqs == [p \in 1..Len(section) |-> [s \in 1..section[p] |-> Sentence(p, s)]]
           K == [u \in Units |-> u]
<1>1. \A p \in 1..Len(section) :
        /\ section[p] \in Nat
        /\ seqs[p] \in Seq(Units) /\ Len(seqs[p]) = section[p]
        /\ \A s \in 1..section[p] : seqs[p][s] = [para |-> p, sent |-> s] /\ seqs[p][s] \in Units
  <2> TAKE p \in 1..Len(section)
  <2>1. section[p] \in Nat /\ p \in Nat
    OBVIOUS
  <2>2. seqs[p] = [s \in 1..section[p] |-> [para |-> p, sent |-> s]]
    BY DEF Sentence
  <2>3. \A s \in 1..section[p] : [para |-> p, sent |-> s] \in Units
    BY <2>1 DEF Units
  <2> HIDE DEF seqs
  <2> QED
    BY <2>1, <2>2, <2>3
<1>2. seqs \in Seq(Seq(Units)) /\ Len(seqs) = Len(section)
  BY <1>1
<1>3. DiffersInAll(K, seqs)
  <2> SUFFICES ASSUME NEW k \in 1..Len(seqs), NEW l \in 1..Len(seqs), NEW i \in 1..Len(seqs[k]),
                      NEW j \in 1..Len(seqs[l]), K[seqs[k][i]] = K[seqs[l][j]]
               PROVE  k = l /\ i = j
    BY DEF DiffersInAll
  <2>1. seqs[k][i] = [para |-> k, sent |-> i] /\ seqs[l][j] = [para |-> l, sent |-> j]
    BY <1>1, <1>2
  <2>2. K[seqs[k][i]] = seqs[k][i] /\ K[seqs[l][j]] = seqs[l][j]
    BY <1>1, <1>2
  <2> HIDE DEF seqs, K
  <2>3. [para |-> k, sent |-> i] = [para |-> l, sent |-> j]
    BY <2>1, <2>2
  <2>4. [para |-> k, sent |-> i].para = [para |-> l, sent |-> j].para /\ [para |-> k, sent |-> i].sent = [para |-> l, sent |-> j].sent
    BY <2>3
  <2> QED
    BY <2>4
<1>4. LayoutOf(section).sentences = FlattenSeq(seqs)
  BY DEF LayoutOf
<1>5. FlattenSeq(seqs) \in Seq(Units) /\ Differs(K, FlattenSeq(seqs))
  <2> HIDE DEF seqs, K
  <2> QED BY <1>2, <1>3, FlattenDistinct
<1>6. \A a \in 1..Len(FlattenSeq(seqs)) : K[FlattenSeq(seqs)[a]] = FlattenSeq(seqs)[a]
  BY <1>5
<1> HIDE DEF seqs, K
<1> QED
  BY <1>4, <1>5, <1>6 DEF Differs

\* What walk_section_stream lists of one paragraph are distinct units of it.
LEMMA ParagraphRun ==
  ASSUME NEW section \in Seq(Nat), NEW p
  PROVE  /\ ParagraphSentences(LayoutOf(section), p) \in Seq(Units)
         /\ \A a \in 1..Len(ParagraphSentences(LayoutOf(section), p)) :
              ParagraphSentences(LayoutOf(section), p)[a].para = p
         /\ \A a, b \in 1..Len(ParagraphSentences(LayoutOf(section), p)) :
              ParagraphSentences(LayoutOf(section), p)[a] =
                ParagraphSentences(LayoutOf(section), p)[b] => a = b
<1> DEFINE list == LayoutOf(section).sentences
           seqs == [i \in 1..Len(list) |-> IF list[i].para = p THEN <<list[i]>> ELSE <<>>]
           K == [u \in Units |-> u]
<1>1. list \in Seq(Units) /\ \A a, b \in 1..Len(list) : list[a] = list[b] => a = b
  BY SentencesDistinct
<1>2. ParagraphSentences(LayoutOf(section), p) = FlattenSeq(seqs)
  <2>1. seqs = [i \in 1..Len(list) |->
                  IF i \in {j \in 1..Len(list) : list[j].para = p} THEN <<list[i]>> ELSE <<>>]
    OBVIOUS
  <2> HIDE DEF seqs
  <2> QED
    BY <2>1 DEF ParagraphSentences, Selected
<1> HIDE DEF list
<1>3. /\ seqs \in Seq(Seq(Units)) /\ Len(seqs) = Len(list)
      /\ \A k \in 1..Len(seqs) : \A i \in 1..Len(seqs[k]) :
           i = 1 /\ seqs[k][i] = list[k] /\ list[k].para = p /\ list[k] \in Units
  <2>1. \A k \in 1..Len(list) : list[k] \in Units
    BY <1>1
  <2>2. \A k \in 1..Len(list) : seqs[k] \in Seq(Units)
    BY <2>1
  <2>3. Len(list) \in Nat
    BY <1>1
  <2>4. seqs \in Seq(Seq(Units)) /\ Len(seqs) = Len(list)
    BY <2>2, <2>3
  <2> QED
    BY <2>1, <2>4
<1>4. DiffersInAll(K, seqs)
  <2> SUFFICES ASSUME NEW k \in 1..Len(seqs), NEW l \in 1..Len(seqs), NEW i \in 1..Len(seqs[k]),
                      NEW j \in 1..Len(seqs[l]), K[seqs[k][i]] = K[seqs[l][j]]
               PROVE  k = l /\ i = j
    BY DEF DiffersInAll
  <2>1. /\ i = 1 /\ seqs[k][i] = list[k] /\ list[k] \in Units
        /\ j = 1 /\ seqs[l][j] = list[l] /\ list[l] \in Units
    BY <1>3
  <2> HIDE DEF seqs
  <2>2. list[k] = list[l]
    BY <2>1
  <2> QED
    BY <1>1, <1>3, <2>1, <2>2
<1>5. /\ FlattenSeq(seqs) \in Seq(Units)
      /\ Differs(K, FlattenSeq(seqs))
      /\ IsAmong(FlattenSeq(seqs), seqs)
  <2> HIDE DEF seqs, K
  <2> QED BY <1>3, <1>4, FlattenDistinct
<1>6. \A a \in 1..Len(FlattenSeq(seqs)) :
        K[FlattenSeq(seqs)[a]] = FlattenSeq(seqs)[a] /\ FlattenSeq(seqs)[a].para = p
  <2> TAKE a \in 1..Len(FlattenSeq(seqs))
  <2> HIDE DEF seqs
  <2>1. PICK k \in 1..Len(seqs) : \E i \in 1..Len(seqs[k]) : FlattenSeq(seqs)[a] = seqs[k][i]
    BY <1>5 DEF IsAmong
  <2>2. FlattenSeq(seqs)[a] = list[k] /\ list[k].para = p /\ list[k] \in Units
    BY <1>3, <2>1
  <2> QED
    BY <2>2
<1> HIDE DEF seqs, K
<1> QED
  BY <1>2, <1>5, <1>6 DEF Differs

\* A list of entries of distinct units.
IsStream(list, units) ==
  /\ list \in Seq(Entries)
  /\ \A i \in 1..Len(list) : units = "paragraph" => list[i].unit.sent = 0
  /\ \A i, j \in 1..Len(list) : list[i].unit = list[j].unit => i = j

\* The entries of one paragraph are distinct units of it, whole or sentence by sentence.
LEMMA ParagraphEntries ==
  ASSUME NEW section \in Seq(Nat), NEW p \in Nat, NEW units \in Kinds
  PROVE  /\ IsStream(EntriesOf(LayoutOf(section), p, units), units)
         /\ \A i \in 1..Len(EntriesOf(LayoutOf(section), p, units)) :
              EntriesOf(LayoutOf(section), p, units)[i].unit.para = p
<1> DEFINE coarse == IsCoarse(LayoutOf(section), p)
           run == ParagraphSentences(LayoutOf(section), p)
           list == EntriesOf(LayoutOf(section), p, units)
<1>0. (~coarse) \in BOOLEAN
  OBVIOUS
<1>1. CASE units = "paragraph" \/ coarse
  <2>1. list = <<[unit |-> Paragraph(p), eligible |-> ~coarse]>>
    BY <1>1 DEF EntriesOf
  <2>2. Paragraph(p) \in Units /\ Paragraph(p).para = p /\ Paragraph(p).sent = 0
    BY DEF Paragraph, Units
  <2>3. [unit |-> Paragraph(p), eligible |-> ~coarse] \in Entries
    BY <2>2, <1>0 DEF Entries
  <2>4. list \in Seq(Entries) /\ Len(list) = 1 /\ list[1].unit = Paragraph(p)
    BY <2>1, <2>3
  <2> HIDE DEF coarse
  <2> QED
    BY <2>2, <2>4 DEF IsStream
<1>2. CASE ~(units = "paragraph" \/ coarse)
  <2>1. list = [i \in 1..Len(run) |-> [unit |-> run[i], eligible |-> ~coarse]]
    BY <1>2 DEF EntriesOf
  <2>2. /\ run \in Seq(Units)
        /\ \A a \in 1..Len(run) : run[a].para = p
        /\ \A a, b \in 1..Len(run) : run[a] = run[b] => a = b
    BY ParagraphRun
  <2> HIDE DEF run, coarse
  <2>3. \A i \in 1..Len(run) : [unit |-> run[i], eligible |-> ~coarse] \in Entries
    BY <1>0, <2>2 DEF Entries
  <2>4. list \in Seq(Entries) /\ Len(list) = Len(run) /\ \A i \in 1..Len(run) : list[i].unit = run[i]
    BY <2>1, <2>2, <2>3
  <2> QED
    BY <1>2, <2>2, <2>4 DEF IsStream
<1> QED
  BY <1>1, <1>2

\* The stream of a section has each of its units once.
LEMMA StreamDistinct ==
  ASSUME NEW section \in Seq(Nat), NEW units \in Kinds
  PROVE  IsStream(Stream(section, units, "preserve_source"), units)
<1> DEFINE layout == LayoutOf(section)
           seqs == [i \in 1..Len(layout.paragraphs) |->
                      EntriesOf(layout, layout.paragraphs[i], units)]
           K == [e \in Entries |-> e.unit]
<1>1. Stream(section, units, "preserve_source") = FlattenSeq(seqs)
  BY DEF Stream, Kept, Walk
<1>2. seqs = [p \in 1..Len(section) |-> EntriesOf(LayoutOf(section), p, units)]
  BY DEF LayoutOf
<1> HIDE DEF layout, seqs
<1>3. \A p \in 1..Len(section) :
        IsStream(seqs[p], units) /\ \A i \in 1..Len(seqs[p]) : seqs[p][i].unit.para = p
  BY <1>2, ParagraphEntries
<1>4. seqs \in Seq(Seq(Entries)) /\ Len(seqs) = Len(section)
  <2>1. \A p \in 1..Len(section) : EntriesOf(LayoutOf(section), p, units) \in Seq(Entries)
    <3>1. \A p \in 1..Len(section) : seqs[p] \in Seq(Entries)
      BY <1>3 DEF IsStream
    <3> QED
      BY <1>2, <3>1
  <2>2. seqs \in [1..Len(section) -> Seq(Entries)] /\ Len(section) \in Nat
    BY <1>2, <2>1
  <2> QED
    BY <2>2
<1>5. DiffersInAll(K, seqs)
  <2> SUFFICES ASSUME NEW k \in 1..Len(seqs), NEW l \in 1..Len(seqs), NEW i \in 1..Len(seqs[k]),
                      NEW j \in 1..Len(seqs[l]), K[seqs[k][i]] = K[seqs[l][j]]
               PROVE  k = l /\ i = j
    BY DEF DiffersInAll
  <2>1. seqs[k] \in Seq(Entries) /\ seqs[l] \in Seq(Entries)
    BY <1>4, SMTT(30)
  <2>2. seqs[k][i] \in Entries /\ seqs[l][j] \in Entries
    BY <2>1
  <2>3. seqs[k][i].unit = seqs[l][j].unit
    BY <2>2
  <2>4. seqs[k][i].unit.para = k /\ seqs[l][j].unit.para = l
    BY <1>3, <1>4
  <2> QED
    <3>1. k = l
      BY <2>3, <2>4
    <3>2. \A a, b \in 1..Len(seqs[k]) : seqs[k][a].unit = seqs[k][b].unit => a = b
      BY <1>3, <1>4 DEF IsStream
    <3> QED
      BY <2>3, <3>1, <3>2
<1>6. /\ FlattenSeq(seqs) \in Seq(Entries)
      /\ Differs(K, FlattenSeq(seqs))
      /\ IsAmong(FlattenSeq(seqs), seqs)
  <2> HIDE DEF K
  <2> QED BY <1>4, <1>5, FlattenDistinct
<1>7. \A a \in 1..Len(FlattenSeq(seqs)) : K[FlattenSeq(seqs)[a]] = FlattenSeq(seqs)[a].unit
  BY <1>6
<1>8. \A a \in 1..Len(FlattenSeq(seqs)) : units = "paragraph" => FlattenSeq(seqs)[a].unit.sent = 0
  <2> TAKE a \in 1..Len(FlattenSeq(seqs))
  <2>1. PICK k \in 1..Len(seqs) : \E i \in 1..Len(seqs[k]) : FlattenSeq(seqs)[a] = seqs[k][i]
    BY <1>6 DEF IsAmong
  <2> QED
    BY <1>3, <1>4, <2>1 DEF IsStream
<1> HIDE DEF K
<1> QED
  BY <1>1, <1>6, <1>7, <1>8 DEF IsStream, Differs

-----------------------------------------------------------------------------
(* Selections *)

\* Partial sums never shrink, and are naturals.
LEMMA SumsGrow ==
  ASSUME NEW n \in Nat, NEW w \in [1..n -> Nat], NEW P, IsPartialSums(P, w, n),
         NEW a \in Nat, NEW b \in Nat, a <= b, b <= n
  PROVE  P[a] <= P[b] /\ P[a] \in Nat /\ P[b] \in Nat
<1>1. a \in 0..n /\ b \in a..n /\ b \in 0..n
  OBVIOUS
<1>2. P[a] <= P[b]
  BY <1>1, PartialSumsGrow
<1> QED
  BY <1>1, <1>2 DEF IsPartialSums

\* One step of partial sums.
LEMMA SumsStep ==
  ASSUME NEW n \in Nat, NEW w \in [1..n -> Nat], NEW P, IsPartialSums(P, w, n), NEW k \in 1..n
  PROVE  P[k - 1] \in Nat /\ P[k] \in Nat /\ P[k] = P[k - 1] + w[k] /\ w[k] \in Nat
<1>1. k - 1 \in 0..n /\ k \in 0..n
  OBVIOUS
<1> QED
  BY <1>1 DEF IsPartialSums

\* C counts the chosen ones among the first of 1..n.
Counts(C, chosen, n) ==
  /\ C \in [0..n -> Nat]
  /\ C[0] = 0
  /\ \A i \in 1..n : C[i] = C[i - 1] + IF i \in chosen THEN 1 ELSE 0

\* As partial sums of ones and zeros.
LEMMA CountsAreSums ==
  ASSUME NEW n \in Nat, NEW chosen, NEW C, Counts(C, chosen, n)
  PROVE  /\ [i \in 1..n |-> IF i \in chosen THEN 1 ELSE 0] \in [1..n -> Nat]
         /\ IsPartialSums(C, [i \in 1..n |-> IF i \in chosen THEN 1 ELSE 0], n)
BY DEF Counts, IsPartialSums

LEMMA CountsExist ==
  ASSUME NEW n \in Nat, NEW chosen
  PROVE  \E C : Counts(C, chosen, n)
<1> DEFINE w == [i \in 1..n |-> IF i \in chosen THEN 1 ELSE 0]
<1>1. w \in [1..n -> Nat]
  OBVIOUS
<1>2. PICK C : IsPartialSums(C, w, n)
  <2> HIDE DEF w
  <2> QED BY <1>1, PartialSumsExist
<1>3. Counts(C, chosen, n)
  BY <1>2 DEF Counts, IsPartialSums
<1> QED
  BY <1>3

LEMMA CountsGrow ==
  ASSUME NEW n \in Nat, NEW chosen, NEW C, Counts(C, chosen, n), NEW a \in 0..n, NEW b \in a..n
  PROVE  C[a] <= C[b] /\ C[a] \in Nat /\ C[b] \in Nat
<1> DEFINE w == [i \in 1..n |-> IF i \in chosen THEN 1 ELSE 0]
<1>1. w \in [1..n -> Nat] /\ IsPartialSums(C, w, n)
  BY CountsAreSums
<1>2. C[a] <= C[b]
  <2> HIDE DEF w
  <2> QED BY <1>1, PartialSumsGrow
<1> QED
  BY <1>2 DEF Counts

\* A chosen place raises the count.
LEMMA CountsAt ==
  ASSUME NEW n \in Nat, NEW chosen, NEW C, Counts(C, chosen, n), NEW i \in 1..n, i \in chosen
  PROVE  C[i - 1] \in Nat /\ C[i] = C[i - 1] + 1
BY DEF Counts

\* Every count is that of a chosen place.
LEMMA CountsPlace ==
  ASSUME NEW n \in Nat, NEW chosen, NEW C, Counts(C, chosen, n), NEW q \in 1..C[n]
  PROVE  \E i \in 1..n : i \in chosen /\ C[i] = q
<1> DEFINE w == [i \in 1..n |-> IF i \in chosen THEN 1 ELSE 0]
<1>1. w \in [1..n -> Nat] /\ IsPartialSums(C, w, n)
  BY CountsAreSums
<1>2. PICK i \in 1..n : C[i - 1] < q /\ q <= C[i]
  <2> HIDE DEF w
  <2> QED BY <1>1, PartialSumsLocate
<1>3. C[i - 1] \in Nat /\ C[i] \in Nat /\ C[i] = C[i - 1] + IF i \in chosen THEN 1 ELSE 0
  <2>1. i - 1 \in 0..n /\ i \in 0..n
    OBVIOUS
  <2> QED BY <2>1 DEF Counts
<1>4. C[n] \in Nat /\ q \in Nat
  <2>1. n \in 0..n
    OBVIOUS
  <2> QED BY <2>1 DEF Counts
<1> QED
  BY <1>2, <1>3, <1>4

\* What Selected returns: each chosen item, at its count.
LEMMA SelectedIs ==
  ASSUME NEW T, NEW list \in Seq(T), NEW chosen, NEW C, Counts(C, chosen, Len(list))
  PROVE  /\ Selected(list, chosen) \in Seq(T)
         /\ Len(Selected(list, chosen)) = C[Len(list)]
         /\ \A i \in 1..Len(list) : i \in chosen => Selected(list, chosen)[C[i]] = list[i]
<1> DEFINE n == Len(list)
           seqs == [i \in 1..n |-> IF i \in chosen THEN <<list[i]>> ELSE <<>>]
<1>1. n \in Nat /\ \A i \in 1..n : list[i] \in T
  OBVIOUS
<1>2. seqs \in [1..n -> Seq(T)]
  BY <1>1
<1>3. seqs \in Seq(Seq(T)) /\ Len(seqs) = n
  BY <1>1, <1>2
<1>4. \A i \in 1..n : Len(seqs[i]) = IF i \in chosen THEN 1 ELSE 0
  OBVIOUS
<1>5. \A i \in 1..n : i \in chosen => seqs[i] = <<list[i]>>
  OBVIOUS
<1>6. Selected(list, chosen) = FlattenSeq(seqs)
  BY DEF Selected
<1> HIDE DEF seqs
<1>7. IsPartialSums(C, LensOf(seqs), Len(seqs))
  BY <1>1, <1>3, <1>4 DEF Counts, IsPartialSums, LensOf
<1>8. IsJoin(FlattenSeq(seqs), seqs, n, C, T)
  BY <1>3, <1>7, Flattened
<1>9. ASSUME NEW i \in 1..n, i \in chosen PROVE FlattenSeq(seqs)[C[i]] = list[i]
  <2>1. C[i] = C[i - 1] + 1
    BY <1>1, <1>9, CountsAt
  <2>2. 1 \in 1..Len(seqs[i]) /\ seqs[i][1] = list[i]
    BY <1>4, <1>5, <1>9
  <2> QED
    BY <1>8, <2>1, <2>2 DEF IsJoin
<1> QED
  BY <1>6, <1>8, <1>9 DEF IsJoin

\* A run of places selects that part of the list.
LEMMA SelectedRun ==
  ASSUME NEW T, NEW list \in Seq(T), NEW chosen, NEW a \in 0..Len(list), NEW b \in a..Len(list),
         \A i \in 1..Len(list) : i \in chosen <=> a < i /\ i <= b
  PROVE  /\ Selected(list, chosen) \in Seq(T)
         /\ Len(Selected(list, chosen)) = b - a
         /\ \A i \in 1..(b - a) : Selected(list, chosen)[i] = list[a + i]
<1> DEFINE n == Len(list)
           C == [i \in 0..n |-> IF i <= a THEN 0 ELSE IF i <= b THEN i - a ELSE b - a]
           s == Selected(list, chosen)
<1>1. n \in Nat /\ a \in Nat /\ b \in Nat /\ a <= b /\ b <= n
  OBVIOUS
<1>2. C \in [0..n -> Nat]
  BY <1>1
<1>3. \A i \in 1..n : C[i] = C[i - 1] + IF i \in chosen THEN 1 ELSE 0
  BY <1>1
<1>4. C[0] = 0 /\ C[n] = b - a /\ \A i \in 1..(b - a) : C[a + i] = i
  BY <1>1
<1>5. Counts(C, chosen, n)
  BY <1>2, <1>3, <1>4 DEF Counts
<1> HIDE DEF C, s
<1>6. /\ s \in Seq(T) /\ Len(s) = b - a
      /\ \A i \in 1..n : i \in chosen => s[C[i]] = list[i]
  BY <1>4, <1>5, SelectedIs DEF s
<1>7. \A i \in 1..(b - a) : s[i] = list[a + i]
  <2> TAKE i \in 1..(b - a)
  <2>1. a + i \in 1..n /\ a < a + i /\ a + i <= b
    BY <1>1
  <2> QED BY <1>4, <1>6, <2>1
<1> QED
  BY <1>6, <1>7 DEF s

\* The chosen places of a list are those after the first a and up to the b-th.
ChosenRun(T, list, chosen, a, b) ==
  /\ list \in Seq(T) /\ a \in 0..Len(list) /\ b \in a..Len(list)
  /\ \A i \in 1..Len(list) : i \in chosen <=> a < i /\ i <= b

\* What is selected then is that run.
LEMMA SelectedIsRun ==
  ASSUME NEW T, NEW list, NEW chosen, NEW a, NEW b, ChosenRun(T, list, chosen, a, b)
  PROVE  /\ Selected(list, chosen) \in Seq(T)
         /\ Len(Selected(list, chosen)) = b - a
         /\ \A i \in 1..(b - a) : Selected(list, chosen)[i] = list[a + i]
<1>1. list \in Seq(T) /\ a \in 0..Len(list) /\ b \in a..Len(list)
  BY DEF ChosenRun
<1>2. \A i \in 1..Len(list) : i \in chosen <=> a < i /\ i <= b
  BY DEF ChosenRun
<1> QED BY <1>1, <1>2, SelectedRun, ZenonT(40)

-----------------------------------------------------------------------------
(* The walk of a layout *)

\* The layout L has m paragraphs, numbered from b; it is coarse at the places g, and its i-th has the
\* sentences after the d[i]-th, c[i] of them, S[i] up to and with it.
IsPiece(L, b, m, c, d, g, S) ==
  /\ b \in Nat /\ m \in Nat
  /\ c \in [1..m -> Nat] /\ d \in [1..m -> Nat] /\ IsPartialSums(S, c, m)
  /\ L.paragraphs = [i \in 1..m |-> (b + i) - 1]
  /\ L.coverage = [i \in 1..m |-> [para |-> (b + i) - 1, coarse |-> i \in g]]
  /\ L.sentences \in Seq(Units)
  /\ Len(L.sentences) = S[m]
  /\ \A i \in 1..m : \A s \in 1..c[i] :
       L.sentences[S[i - 1] + s] = Sentence((b + i) - 1, d[i] + s)

\* What the walk lists of paragraph p when it is coarse as g says and has c sentences from d on.
PieceEntries(units, p, c, d, g) ==
  IF units = "paragraph" \/ g
    THEN <<[unit |-> Paragraph(p), eligible |-> ~g]>>
    ELSE [s \in 1..c |-> [unit |-> Sentence(p, d + s), eligible |-> TRUE]]

PieceLists(units, b, m, c, d, g) ==
  [i \in 1..m |-> PieceEntries(units, (b + i) - 1, c[i], d[i], i \in g)]

LEMMA PieceCoverage ==
  ASSUME NEW L, NEW b, NEW m, NEW c, NEW d, NEW g, NEW S, IsPiece(L, b, m, c, d, g, S)
  PROVE  \A i \in 1..m : /\ CoverageOf(L, (b + i) - 1) = {i}
                         /\ IsCoarse(L, (b + i) - 1) <=> i \in g
<1> TAKE i \in 1..m
<1>0. b \in Nat /\ m \in Nat
  BY DEF IsPiece
<1> DEFINE cover == L.coverage
<1>1. cover = [j \in 1..m |-> [para |-> (b + j) - 1, coarse |-> j \in g]]
  BY DEF IsPiece
<1> HIDE DEF cover
<1>2. Len(cover) = m /\ \A j \in 1..m : cover[j].para = (b + j) - 1 /\ (cover[j].coarse <=> j \in g)
  <2>1. Len(cover) = m
    BY <1>0, <1>1
  <2>2. ASSUME NEW j \in 1..m
        PROVE  cover[j].para = (b + j) - 1 /\ (cover[j].coarse <=> j \in g)
    <3>1. cover[j] = [para |-> (b + j) - 1, coarse |-> j \in g]
      BY <1>1
    <3>2. cover[j].para = (b + j) - 1
      BY <3>1
    <3>3. cover[j].coarse <=> j \in g
      <4>1. cover[j].coarse = (j \in g)
        BY <3>1
      <4> QED BY <4>1
    <3> QED BY <3>2, <3>3
  <2> QED BY <2>1, <2>2
<1>3. \A j \in 1..m : cover[j].para = (b + i) - 1 <=> j = i
  BY <1>0, <1>2
<1>4. CoverageOf(L, (b + i) - 1) = {i}
  BY <1>2, <1>3 DEF CoverageOf, cover
<1>5. IsCoarse(L, (b + i) - 1) <=> i \in g
  BY <1>2, <1>4 DEF IsCoarse, cover
<1> QED
  BY <1>4, <1>5

LEMMA PieceRun ==
  ASSUME NEW L, NEW b, NEW m, NEW c, NEW d, NEW g, NEW S, IsPiece(L, b, m, c, d, g, S)
  PROVE  \A i \in 1..m :
           /\ Len(ParagraphSentences(L, (b + i) - 1)) = c[i]
           /\ \A s \in 1..c[i] :
                ParagraphSentences(L, (b + i) - 1)[s] = Sentence((b + i) - 1, d[i] + s)
<1> TAKE i \in 1..m
<1>0. /\ b \in Nat /\ m \in Nat /\ i \in 1..m
      /\ c \in [1..m -> Nat] /\ d \in [1..m -> Nat] /\ IsPartialSums(S, c, m)
  BY DEF IsPiece
<1> DEFINE p == (b + i) - 1
<1> HIDE DEF p
<1> DEFINE list == L.sentences
           chosen == {j \in 1..Len(list) : list[j].para = p}
<1>1. list \in Seq(Units) /\ Len(list) = S[m]
  BY DEF IsPiece
<1>2. \A k \in 1..m : S[k - 1] \in Nat /\ S[k] \in Nat /\ S[k] = S[k - 1] + c[k] /\ c[k] \in Nat
  BY <1>0, SumsStep
<1>3. \A x, y \in Nat : x <= y /\ y <= m => S[x] <= S[y] /\ S[x] \in Nat /\ S[y] \in Nat
  BY <1>0, SumsGrow
<1>4. ASSUME NEW j \in 1..Len(list) PROVE j \in chosen <=> S[i - 1] < j /\ j <= S[i]
  <2>1. PICK k \in 1..m : S[k - 1] < j /\ j <= S[k]
    BY <1>0, <1>1, PartialSumsLocate
  <2> HIDE DEF list
  <2>2. j - S[k - 1] \in 1..c[k] /\ j = S[k - 1] + (j - S[k - 1])
    BY <1>2, <2>1
  <2>3. list[j].para = (b + k) - 1
    <3>1. list[S[k - 1] + (j - S[k - 1])] = Sentence((b + k) - 1, d[k] + (j - S[k - 1]))
      BY <2>2 DEF IsPiece, list
    <3>2. list[j] = Sentence((b + k) - 1, d[k] + (j - S[k - 1]))
      BY <2>2, <3>1
    <3> QED BY <3>2 DEF Sentence
  <2>4. j \in chosen <=> k = i
    <3>1. j \in chosen <=> list[j].para = p
      OBVIOUS
    <3>2. (b + k) - 1 = p <=> k = i
      BY <1>0 DEF p
    <3> QED BY <2>3, <3>1, <3>2
  <2> HIDE DEF chosen
  <2>8. j \in Nat /\ S[k] \in Nat /\ S[k - 1] \in Nat
    BY <1>1, <1>2 DEF list
  <2>5. CASE k = i
    BY <2>1, <2>4, <2>5
  <2>6. CASE k < i
    <3>1. S[k] <= S[i - 1] /\ S[i - 1] \in Nat /\ S[k] \in Nat
      BY <1>0, <2>6, <1>3
    <3>2. k # i /\ ~(S[i - 1] < j)
      BY <1>0, <2>1, <2>6, <2>8, <3>1, SMTT(40)
    <3> QED BY <2>4, <3>2
  <2>7. CASE i < k
    <3>1. S[i] <= S[k - 1] /\ S[k - 1] \in Nat /\ S[i] \in Nat
      BY <1>0, <2>7, <1>3
    <3>2. k # i /\ ~(j <= S[i])
      <4>1. S[k - 1] < j
        BY <2>1
      <4>2. ~(j <= S[i])
        BY <2>8, <3>1, <4>1
      <4> QED BY <2>7, <4>2
    <3> QED BY <2>4, <3>2
  <2> QED BY <1>0, <2>5, <2>6, <2>7
<1>5. S[i - 1] \in 0..Len(list) /\ S[i] \in S[i - 1]..Len(list) /\ S[i] - S[i - 1] = c[i]
  <2>1. S[i] <= S[m] /\ S[m] \in Nat
    BY <1>0, <1>3
  <2> QED BY <1>0, <1>1, <1>2, <2>1
<1> HIDE DEF chosen
<1>6. /\ Len(Selected(list, chosen)) = S[i] - S[i - 1]
      /\ \A s \in 1..(S[i] - S[i - 1]) : Selected(list, chosen)[s] = list[S[i - 1] + s]
  <2> HIDE DEF list
  <2>1. \A j \in 1..Len(list) : j \in chosen <=> S[i - 1] < j /\ j <= S[i]
    BY <1>4
  <2> DEFINE x == S[i - 1]
             y == S[i]
  <2>2. x \in 0..Len(list) /\ y \in x..Len(list) /\ list \in Seq(Units)
    BY <1>1, <1>5
  <2>3. \A j \in 1..Len(list) : j \in chosen <=> x < j /\ j <= y
    BY <2>1
  <2> HIDE DEF x, y
  <2>4. /\ Len(Selected(list, chosen)) = y - x
        /\ \A s \in 1..(y - x) : Selected(list, chosen)[s] = list[x + s]
    <3>1. ChosenRun(Units, list, chosen, x, y)
      BY <2>2, <2>3 DEF ChosenRun
    <3> QED BY <3>1, SelectedIsRun
  <2> QED BY <2>4 DEF x, y
<1>7. \A s \in 1..c[i] : list[S[i - 1] + s] = Sentence(p, d[i] + s)
  BY DEF IsPiece, p
<1>8. ParagraphSentences(L, p) = Selected(list, chosen)
  BY DEF ParagraphSentences, chosen
<1>9. /\ Len(ParagraphSentences(L, p)) = c[i]
      /\ \A s \in 1..c[i] : ParagraphSentences(L, p)[s] = Sentence(p, d[i] + s)
  BY <1>5, <1>6, <1>7, <1>8
<1> QED
  BY <1>9 DEF p

\* The walk lists the entries of its paragraphs, one paragraph after the other.
LEMMA PieceWalk ==
  ASSUME NEW L, NEW b, NEW m, NEW c, NEW d, NEW g, NEW S, IsPiece(L, b, m, c, d, g, S),
         NEW units \in Kinds
  PROVE  /\ ~WalkFails(L)
         /\ Walk(L, units) = FlattenSeq(PieceLists(units, b, m, c, d, g))
<1>0. b \in Nat /\ m \in Nat /\ c \in [1..m -> Nat]
  BY DEF IsPiece
<1>1. Len(L.paragraphs) = m /\ \A i \in 1..m : L.paragraphs[i] = (b + i) - 1
  BY <1>0 DEF IsPiece
<1>5. \A i \in 1..m :
        /\ Len(ParagraphSentences(L, (b + i) - 1)) = c[i]
        /\ \A s \in 1..c[i] :
             ParagraphSentences(L, (b + i) - 1)[s] = Sentence((b + i) - 1, d[i] + s)
  BY PieceRun
<1>2. ASSUME NEW i \in 1..m
      PROVE  EntriesOf(L, (b + i) - 1, units) = PieceEntries(units, (b + i) - 1, c[i], d[i], i \in g)
  <2> DEFINE p == (b + i) - 1
             run == ParagraphSentences(L, p)
  <2>1. IsCoarse(L, p) <=> i \in g
    BY PieceCoverage
  <2>3. Len(run) = c[i] /\ \A s \in 1..c[i] : run[s] = Sentence(p, d[i] + s)
    BY <1>0, <1>5 DEF run, p
  <2> HIDE DEF run, p
  <2>4. CASE units = "paragraph" \/ i \in g
    BY <2>1, <2>4 DEF EntriesOf, PieceEntries, p
  <2>5. CASE ~(units = "paragraph" \/ i \in g)
    BY <1>0, <2>1, <2>3, <2>5 DEF EntriesOf, PieceEntries, p, run
  <2> QED BY <2>4, <2>5
<1>3. [i \in 1..Len(L.paragraphs) |-> EntriesOf(L, L.paragraphs[i], units)]
        = PieceLists(units, b, m, c, d, g)
  BY <1>1, <1>2 DEF PieceLists
<1>4. ~WalkFails(L)
  <2>1. ASSUME NEW i \in 1..m PROVE CoverageOf(L, (b + i) - 1) # {}
    <3>1. CoverageOf(L, (b + i) - 1) = {i}
      BY PieceCoverage
    <3> QED BY <3>1
  <2> QED BY <1>1, <2>1 DEF WalkFails
<1> QED
  BY <1>3, <1>4 DEF Walk

\* The entries a paragraph gives the walk: its sentences, or one for the whole of it.
Widths(units, m, c, g) == [i \in 1..m |-> IF units = "paragraph" \/ i \in g THEN 1 ELSE c[i]]

\* The walk lists the entries at the offsets E.
IsWalk(W, units, b, m, c, d, g, E) ==
  /\ W \in Seq(Entries)
  /\ Len(W) = E[m]
  /\ \A i \in 1..m :
       IF units = "paragraph" \/ i \in g
         THEN W[E[i - 1] + 1] = [unit |-> Paragraph((b + i) - 1), eligible |-> i \notin g]
         ELSE \A s \in 1..c[i] :
                W[E[i - 1] + s] = [unit |-> Sentence((b + i) - 1, d[i] + s), eligible |-> TRUE]

LEMMA WalkIs ==
  ASSUME NEW L, NEW b, NEW m, NEW c, NEW d, NEW g, NEW S, IsPiece(L, b, m, c, d, g, S),
         NEW units \in Kinds, NEW E, IsPartialSums(E, Widths(units, m, c, g), m)
  PROVE  /\ ~WalkFails(L)
         /\ IsWalk(Walk(L, units), units, b, m, c, d, g, E)
<1>0. b \in Nat /\ m \in Nat /\ c \in [1..m -> Nat] /\ d \in [1..m -> Nat]
  BY DEF IsPiece
<1> DEFINE lists == PieceLists(units, b, m, c, d, g)
<1>1. ~WalkFails(L) /\ Walk(L, units) = FlattenSeq(lists)
  BY PieceWalk
<1>2. \A i \in 1..m : lists[i] = PieceEntries(units, (b + i) - 1, c[i], d[i], i \in g)
  BY DEF PieceLists
<1>3. lists = [i \in 1..m |-> lists[i]]
  BY DEF PieceLists
<1> HIDE DEF lists
<1>4. ASSUME NEW i \in 1..m, units = "paragraph" \/ i \in g
      PROVE  /\ lists[i] \in Seq(Entries) /\ Len(lists[i]) = 1
             /\ lists[i][1] = [unit |-> Paragraph((b + i) - 1), eligible |-> i \notin g]
  <2> DEFINE e == [unit |-> Paragraph((b + i) - 1), eligible |-> i \notin g]
  <2>1. lists[i] = <<e>>
    BY <1>2, <1>4 DEF PieceEntries
  <2>2. (b + i) - 1 \in Nat
    BY <1>0
  <2>3. Paragraph((b + i) - 1) \in Units
    BY <2>2 DEF Paragraph, Units
  <2>4. e \in Entries
    BY <2>3 DEF Entries
  <2> HIDE DEF e
  <2>5. lists[i] \in Seq(Entries) /\ Len(lists[i]) = 1 /\ lists[i][1] = e
    BY <2>1, <2>4
  <2> QED BY <2>5 DEF e
<1>5. ASSUME NEW i \in 1..m, ~(units = "paragraph" \/ i \in g)
      PROVE  /\ lists[i] \in Seq(Entries) /\ Len(lists[i]) = c[i]
             /\ \A s \in 1..c[i] :
                  lists[i][s] = [unit |-> Sentence((b + i) - 1, d[i] + s), eligible |-> TRUE]
  <2> DEFINE e(s) == [unit |-> Sentence((b + i) - 1, d[i] + s), eligible |-> TRUE]
  <2>1. lists[i] = [s \in 1..c[i] |-> e(s)]
    BY <1>2, <1>5 DEF PieceEntries
  <2>2. (b + i) - 1 \in Nat /\ c[i] \in Nat /\ d[i] \in Nat
    BY <1>0
  <2>3. ASSUME NEW s \in 1..c[i] PROVE e(s) \in Entries
    <3>1. d[i] + s \in Nat
      BY <2>2
    <3>2. Sentence((b + i) - 1, d[i] + s) \in Units
      BY <2>2, <3>1 DEF Sentence, Units
    <3> QED BY <3>2 DEF Entries
  <2> HIDE DEF e
  <2>4. lists[i] \in Seq(Entries) /\ Len(lists[i]) = c[i] /\ \A s \in 1..c[i] : lists[i][s] = e(s)
    BY <2>1, <2>2, <2>3
  <2> QED BY <2>4 DEF e
<1>6. lists \in [1..m -> Seq(Entries)]
  BY <1>3, <1>4, <1>5
<1>7. lists \in Seq(Seq(Entries)) /\ Len(lists) = m
  BY <1>0, <1>6
<1>8. \A i \in 1..m : Len(lists[i]) = Widths(units, m, c, g)[i]
  BY <1>4, <1>5 DEF Widths
<1>9. LensOf(lists) = Widths(units, m, c, g)
  BY <1>7, <1>8 DEF LensOf, Widths
<1>10. IsJoin(FlattenSeq(lists), lists, m, E, Entries)
  BY <1>7, <1>9, Flattened
<1>11. ASSUME NEW i \in 1..m, units = "paragraph" \/ i \in g
       PROVE  Walk(L, units)[E[i - 1] + 1] = [unit |-> Paragraph((b + i) - 1), eligible |-> i \notin g]
  <2>1. 1 \in 1..Len(lists[i])
    <3>1. Len(lists[i]) = 1
      BY <1>4, <1>11
    <3> QED BY <3>1
  <2>2. FlattenSeq(lists)[E[i - 1] + 1] = lists[i][1]
    BY <1>10, <2>1 DEF IsJoin
  <2> QED BY <1>1, <1>4, <1>11, <2>2
<1>12. ASSUME NEW i \in 1..m, ~(units = "paragraph" \/ i \in g), NEW s \in 1..c[i]
       PROVE  Walk(L, units)[E[i - 1] + s]
                = [unit |-> Sentence((b + i) - 1, d[i] + s), eligible |-> TRUE]
  <2>1. s \in 1..Len(lists[i])
    BY <1>5, <1>12
  <2>2. FlattenSeq(lists)[E[i - 1] + s] = lists[i][s]
    BY <1>10, <2>1 DEF IsJoin
  <2> QED BY <1>1, <1>5, <1>12, <2>2
<1> QED
  BY <1>1, <1>10, <1>11, <1>12 DEF IsWalk, IsJoin

\* The layout of a section is such a layout.
LEMMA LayoutPiece ==
  ASSUME NEW section \in Seq(Nat), NEW Q, IsPartialSums(Q, section, Len(section))
  PROVE  IsPiece(LayoutOf(section), 1, Len(section), section, [i \in 1..Len(section) |-> 0],
                 {i \in 1..Len(section) : section[i] = 0}, Q)
<1> DEFINE n == Len(section)
           L == LayoutOf(section)
           lists == [p \in 1..n |-> [s \in 1..section[p] |-> Sentence(p, s)]]
<1>1. n \in Nat /\ section \in [1..n -> Nat]
  OBVIOUS
<1>2. L.paragraphs = [p \in 1..n |-> p] /\ L.sentences = FlattenSeq(lists)
      /\ L.coverage = [p \in 1..n |-> [para |-> p, coarse |-> section[p] = 0]]
  BY DEF LayoutOf
<1>3. \A p \in 1..n : Len(lists[p]) = section[p] /\ \A s \in 1..section[p] : lists[p][s] = Sentence(p, s)
  BY <1>1
<1>4. lists \in [1..n -> Seq(Units)]
  <2>1. ASSUME NEW p \in 1..n, NEW s \in 1..section[p] PROVE Sentence(p, s) \in Units
    BY <1>1 DEF Sentence, Units
  <2>2. ASSUME NEW p \in 1..n PROVE lists[p] \in Seq(Units)
    BY <1>1, <2>1
  <2> QED BY <2>2
<1> HIDE DEF lists, L
<1>5. lists \in Seq(Seq(Units)) /\ Len(lists) = n
  BY <1>1, <1>4
<1>6. LensOf(lists) = section
  BY <1>1, <1>3, <1>5 DEF LensOf
<1>7. IsJoin(FlattenSeq(lists), lists, n, Q, Units)
  BY <1>5, <1>6, Flattened
<1>8. ASSUME NEW p \in 1..n, NEW s \in 1..section[p]
      PROVE  L.sentences[Q[p - 1] + s] = Sentence((1 + p) - 1, [i \in 1..n |-> 0][p] + s)
  <2>1. (1 + p) - 1 = p /\ [i \in 1..n |-> 0][p] + s = s
    BY <1>1
  <2>2. Len(lists[p]) = section[p] /\ lists[p][s] = Sentence(p, s)
    BY <1>3
  <2>3. FlattenSeq(lists)[Q[p - 1] + s] = lists[p][s]
    BY <1>7, <2>2 DEF IsJoin
  <2> QED BY <1>2, <2>1, <2>2, <2>3
<1>9. L.paragraphs = [i \in 1..n |-> (1 + i) - 1]
  BY <1>1, <1>2
<1>10. L.coverage = [i \in 1..n |-> [para |-> (1 + i) - 1, coarse |-> i \in {j \in 1..n : section[j] = 0}]]
  <2>1. \A i \in 1..n : (1 + i) - 1 = i /\ (i \in {j \in 1..n : section[j] = 0}) = (section[i] = 0)
    BY <1>1
  <2> QED BY <1>2, <2>1
<1> QED
  BY <1>1, <1>2, <1>7, <1>8, <1>9, <1>10 DEF IsPiece, IsJoin, L

-----------------------------------------------------------------------------
(* The entries a policy keeps *)

KeptSet(list, policy) ==
  {i \in 1..Len(list) : policy = "preserve_source" \/ list[i].eligible}

\* What Kept returns: each entry the policy counts, at its count.
LEMMA KeptIs ==
  ASSUME NEW list \in Seq(Entries), NEW policy, NEW C, Counts(C, KeptSet(list, policy), Len(list))
  PROVE  /\ Kept(list, policy) \in Seq(Entries)
         /\ Len(Kept(list, policy)) = C[Len(list)]
         /\ \A i \in 1..Len(list) :
              i \in KeptSet(list, policy) => Kept(list, policy)[C[i]] = list[i]
<1> DEFINE n == Len(list)
<1>1. n \in Nat
  OBVIOUS
<1>2. CASE policy = "preserve_source"
  <2>1. KeptSet(list, policy) = 1..n
    BY <1>2 DEF KeptSet
  <2> DEFINE T == {k \in 0..n : C[k] = k}
  <2>2. 0 \in T
    BY <1>1 DEF Counts
  <2>3. \A k \in 0..n : k < n /\ k \in T => k + 1 \in T
    <3> TAKE k \in 0..n
    <3> HAVE k < n /\ k \in T
    <3>1. k + 1 \in 1..n /\ (k + 1) - 1 = k
      BY <1>1
    <3>2. C[k + 1] = C[k] + 1
      BY <2>1, <3>1 DEF Counts
    <3> QED BY <3>1, <3>2
  <2> HIDE DEF T
  <2>4. \A k \in 0..n : k \in T
    BY <1>1, <2>2, <2>3, BoundedInduction
  <2>5. \A k \in 0..n : C[k] = k
    BY <2>4 DEF T
  <2> QED BY <1>1, <1>2, <2>5 DEF Kept
<1>3. CASE policy # "preserve_source"
  <2>1. KeptSet(list, policy) = {i \in 1..n : list[i].eligible}
    BY <1>3 DEF KeptSet
  <2>2. Kept(list, policy) = Selected(list, KeptSet(list, policy))
    BY <1>3, <2>1 DEF Kept
  <2> QED BY <2>2, SelectedIs
<1> QED BY <1>2, <1>3
=============================================================================
