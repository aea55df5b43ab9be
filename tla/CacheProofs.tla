---------------------------- MODULE CacheProofs -----------------------------
(***************************************************************************)
(* The two caches. What holds of ScanTextCache for any documents, sections *)
(* and sizes: a search reads the version it asked for, whoever             *)
(* filled the store, a warm gives way to it after the read it is in, and   *)
(* what a store counts is what it holds, within the cap.                   *)
(*                                                                         *)
(* What holds of RawResourceCache for any number of retrievals of a URL,   *)
(* whatever its origin answers: an answer no store of another retrieval    *)
(* overlapped is one response, and so is every answer as long as the entry *)
(* was stored once at most.                                                *)
(***************************************************************************)
EXTENDS ScanTextCache, RawResourceCache, FiniteSetTheorems, TLAPS

-----------------------------------------------------------------------------
(* The stores of the scans.                                                *)

ScanStages == {"idle", "queued", "plan", "pass", "lost"}
Holding    == {"check", "read", "insert"}
WarmStages == {"idle", "meta", "held", "measure", "stop", "mark", "install"} \cup Holding

ScanShape(s) ==
  /\ DOMAIN s = {"pc", "doc", "want", "store", "next", "parallel", "guard", "text"}
  /\ s.pc \in ScanStages /\ s.store \in StoreIds \cup {None}
  /\ s.pc \notin {"plan", "pass"} => s.store = None
  /\ s.next \in Nat \ {0}
WarmShape(w) ==
  /\ DOMAIN w = {"pc", "ver", "store", "todo", "left", "total", "text"}
  /\ w.pc \in WarmStages /\ w.store \in StoreIds \cup {None}

ScanTyped ==
  /\ DOMAIN committed = Docs /\ DOMAIN stores = StoreIds
  /\ slot \in StoreIds \cup {None}
  /\ ScanShape(scan)
  /\ DOMAIN warm = Opened /\ \A d \in Opened : WarmShape(warm[d])
  /\ DOMAIN behind = Opened
  /\ tainted \subseteq Opened

\* The text of a version of a document, and a store of it that holds nothing else.
TextOf(d, v) == [doc |-> d, ver |-> v]
StoreShape(s) == DOMAIN s = {"doc", "ver", "texts", "bytes", "over"} /\ DOMAIN s.texts = Sections
Exact(s) == \A x \in Sections : s.texts[x] # None => s.texts[x] = TextOf(s.doc, s.ver)

\* A store an Arc is held to is one of a document's, with the text of its version alone unless that
\* document is tainted.
StoresInv ==
  \A i \in StoreIds \cap Referenced :
    /\ StoreShape(stores[i])
    /\ stores[i].doc \notin tainted => Exact(stores[i])

\* A scan past its check holds the mutex, so the version it checked stays committed.
ScanInv ==
  /\ scan.pc \notin {"plan", "pass"} => scan.text = None
  /\ scan.pc \in {"plan", "pass"} =>
       /\ scan.store \in StoreIds
       /\ Matches(stores[scan.store], scan.doc, scan.want)
       /\ committed[scan.doc] = scan.want
       /\ scan.doc \notin tainted /\ scan.text # None => scan.text = TextOf(scan.doc, scan.want)

\* A warm of an untainted document is of the version committed since it asked.
WarmOf(d) ==
  /\ warm[d].pc \notin Holding => warm[d].store = None
  /\ warm[d].pc \in Holding =>
       warm[d].store \in StoreIds /\ Matches(stores[warm[d].store], d, warm[d].ver)
  /\ warm[d].pc \notin {"idle", "meta"} /\ d \notin tainted => committed[d] = warm[d].ver
  /\ warm[d].pc = "insert" /\ d \notin tainted => warm[d].text = TextOf(d, warm[d].ver)
WarmInv == \A d \in Opened : WarmOf(d)

TextInv == StoresInv /\ ScanInv /\ WarmInv

\* While a caller waits a warm that has made its read makes no other.
YieldInv ==
  \A d \in Opened :
    /\ behind[d] \in {0, 1}
    /\ ~scan.guard => behind[d] = 0
    /\ behind[d] = 1 => warm[d].pc \notin {"meta", "measure", "read"}

-----------------------------------------------------------------------------
(* Names of stores.                                                        *)

\* With the slot empty, or a scan that holds no store yet, there is a name for one more.
LEMMA UnusedStore ==
  ASSUME ScanTyped, slot = None \/ scan.store = None
  PROVE  Unused \in StoreIds /\ Unused \notin Referenced
<1> DEFINE kept == {warm[d].store : d \in Opened}
           a    == IF slot = None THEN scan.store ELSE slot
           name == [d \in Opened |-> warm[d].store]
<1> USE ScanAssumption
<1>1. name \in Surjection(Opened, kept)
  BY DEF Surjection
<1>2. IsFiniteSet(kept) /\ Cardinality(kept) <= Cardinality(Opened)
  BY <1>1, FS_Surjection
<1>3. IsFiniteSet(kept \cup {a}) /\ Cardinality(kept \cup {a}) <= Cardinality(kept) + 1
  <2>1. Cardinality(kept) \in Nat
    BY <1>2, FS_CardinalityType
  <2> HIDE DEF kept, a
  <2>2. /\ IsFiniteSet(kept \cup {a})
        /\ Cardinality(kept \cup {a}) = IF a \in kept THEN Cardinality(kept) ELSE Cardinality(kept) + 1
    BY <1>2, FS_AddElement
  <2> QED
    BY <2>1, <2>2
<1>4. /\ Cardinality(kept) \in Nat /\ Cardinality(kept \cup {a}) \in Nat
      /\ Cardinality(Opened) \in Nat /\ Cardinality(StoreIds) \in Nat
  BY <1>2, <1>3, FS_CardinalityType
<1>5. Cardinality(kept \cup {a}) < Cardinality(StoreIds)
  <2> HIDE DEF kept, a
  <2> QED
    BY <1>2, <1>3, <1>4
<1>6. ~(StoreIds \subseteq kept \cup {a})
  <2>1. StoreIds \subseteq kept \cup {a} => Cardinality(StoreIds) <= Cardinality(kept \cup {a})
    BY <1>3, FS_Subset
  <2> HIDE DEF kept, a
  <2> QED
    BY <1>4, <1>5, <2>1
<1>7. PICK i \in StoreIds : i \notin kept \cup {a}
  BY <1>6
<1>8. i \notin Referenced
  BY <1>7 DEF Referenced
<1> QED
  BY <1>8 DEF Unused

-----------------------------------------------------------------------------
(* Types.                                                                  *)

LEMMA BecomesTyped ==
  ASSUME ScanTyped, NEW d \in Opened, NEW new, WarmShape(new), Becomes(d, new)
  PROVE  /\ DOMAIN warm' = Opened /\ \A e \in Opened : WarmShape(warm'[e])
         /\ \A e \in Opened : warm'[e] = IF e = d THEN new ELSE warm[e]
BY DEF Becomes, ScanTyped

LEMMA NoWarmShape == WarmShape(NoWarm)
BY DEF WarmShape, NoWarm, WarmStages, Holding

LEMMA NoScanShape == ScanShape(NoScan)
BY DEF ScanShape, NoScan, ScanStages

LEMMA NothingBehind == DOMAIN Nothing = Opened /\ \A d \in Opened : Nothing[d] = 0
BY DEF Nothing

LEMMA LiveTyped ==
  ASSUME ScanTyped, NEW new, Live(new)
  PROVE  DOMAIN stores' = StoreIds /\ tainted' \subseteq Opened
BY DEF Live, ScanTyped

\* The new state of a warm: from where it goes on to where.
LEMMA WarmMoves ==
  ASSUME ScanTyped, NEW d \in Opened, Warm(d)
  PROVE  \E new :
           /\ WarmShape(new) /\ Becomes(d, new)
           /\ (scan.guard => new.pc \notin {"meta", "measure", "read"})
<1> DEFINE Good(new) == WarmShape(new) /\ Becomes(d, new)
             /\ (scan.guard => new.pc \notin {"meta", "measure", "read"})
<1>0. WarmShape(warm[d])
  BY DEF ScanTyped
<1>1. ASSUME NEW v \in VersionsOf[d], Prewarm(d, v) PROVE \E new : Good(new)
  <2>1. WarmShape([NoWarm EXCEPT !.pc = "meta", !.ver = v])
    BY NoWarmShape DEF WarmShape, WarmStages, Holding
  <2> QED
    BY <1>1, <2>1 DEF Prewarm, Busy
<1>2. CASE WarmStops(d) \/ WarmMark(d)
  <2>1. Good(NoWarm)
    BY <1>2, NoWarmShape DEF WarmStops, WarmMark, Ends, NoWarm
  <2> QED
    BY <2>1
<1>3. CASE WarmMeta(d)
  <2>1. Good([warm[d] EXCEPT !.pc = "held"])
    BY <1>0, <1>3 DEF WarmMeta, WarmShape, WarmStages, Holding
  <2> QED
    BY <2>1
<1>4. CASE WarmHeld(d)
  BY <1>0, <1>4 DEF WarmHeld, Busy, WarmShape, WarmStages, Holding
<1>5. CASE WarmMeasure(d)
  <2>1. \/ ~Busy /\ \E total, left : Becomes(d, [warm[d] EXCEPT !.total = total, !.left = left])
        \/ \E next \in {"mark", "install", "stop"} :
             Becomes(d, [warm[d] EXCEPT !.pc = next, !.total = 0, !.left = {}])
    BY <1>5 DEF WarmMeasure
  <2>2. ASSUME NEW total, NEW left, ~Busy, Becomes(d, [warm[d] EXCEPT !.total = total, !.left = left])
        PROVE  Good([warm[d] EXCEPT !.total = total, !.left = left])
    BY <1>0, <2>2 DEF Busy, WarmShape
  <2>3. ASSUME NEW next \in {"mark", "install", "stop"},
               Becomes(d, [warm[d] EXCEPT !.pc = next, !.total = 0, !.left = {}])
        PROVE  Good([warm[d] EXCEPT !.pc = next, !.total = 0, !.left = {}])
    BY <1>0, <2>3 DEF WarmShape, WarmStages, Holding
  <2> QED
    BY <2>1, <2>2, <2>3
<1>6. CASE WarmInstall(d)
  <2>1. StoreForWarm(d) \in StoreIds
    BY <1>6, UnusedStore DEF StoreForWarm, ScanTyped
  <2>2. Good([warm[d] EXCEPT !.pc = "check", !.store = StoreForWarm(d)])
    BY <1>0, <1>6, <2>1 DEF WarmInstall, WarmShape, WarmStages, Holding
  <2> QED
    BY <2>2
<1>7. CASE WarmCheck(d)
  BY <1>0, <1>7 DEF WarmCheck, Busy, WarmShape, WarmStages, Holding
<1>8. CASE WarmRead(d)
  <2>1. Good([warm[d] EXCEPT !.pc = "insert", !.text = Loaded(d)])
    BY <1>0, <1>8 DEF WarmRead, WarmShape, WarmStages, Holding
  <2> QED
    BY <2>1
<1>9. CASE WarmInsert(d)
  <2>1. Good([warm[d] EXCEPT !.pc = "check", !.todo = @ \ {Min(warm[d].todo)}, !.text = None])
    BY <1>0, <1>9 DEF WarmInsert, WarmShape, WarmStages, Holding
  <2> QED
    BY <2>1
<1> QED
  BY <1>1, <1>2, <1>3, <1>4, <1>5, <1>6, <1>7, <1>8, <1>9 DEF Warm

\* The new state of the scan, and when it is another caller's.
LEMMA ScanMoves ==
  ASSUME ScanTyped, Scan
  PROVE  /\ ScanShape(scan') /\ slot' \in StoreIds \cup {None} /\ UNCHANGED <<committed, warm>>
         /\ behind' = Nothing \/ (UNCHANGED behind /\ scan'.guard = scan.guard)
         /\ DOMAIN stores' = StoreIds /\ tainted' \subseteq Opened
<1>0. ScanShape(scan) /\ slot \in StoreIds \cup {None} /\ DOMAIN stores = StoreIds /\ tainted \subseteq Opened
  BY DEF ScanTyped
<1>1. ASSUME NEW d \in Docs, NEW v \in VersionsOf[d], ScanEnter(d, v)
      PROVE  ScanShape(scan') /\ UNCHANGED <<committed, slot, stores, warm, tainted>> /\ behind' = Nothing
  BY <1>1 DEF ScanEnter, NoScan, ScanShape, ScanStages
<1>2. CASE ScanAbandon
  BY <1>0, <1>2 DEF ScanAbandon, ScanShape
<1>3. CASE ScanRefuse
  BY <1>0, <1>3, NoScanShape DEF ScanRefuse
<1>4. CASE ScanBegin
  <2> DEFINE hit == slot # None /\ Matches(stores[slot], scan.doc, scan.want)
             i   == IF hit THEN slot ELSE Unused
             new == IF hit THEN stores ELSE [stores EXCEPT ![i] = Store(scan.doc, scan.want)]
             parallel == scan.want \in Parallel /\ ~new[i].over
  <2>1. /\ slot' = i /\ Live(new)
        /\ scan' = [scan EXCEPT !.pc = "plan", !.store = i, !.parallel = parallel]
    BY <1>4 DEF ScanBegin
  <2>a. i = Unused \/ (i = slot /\ slot # None)
    OBVIOUS
  <2> HIDE DEF i, new, parallel
  <2>2. scan.store = None
    BY <1>0, <1>4 DEF ScanBegin, ScanShape
  <2>3. i \in StoreIds
    BY <1>0, <2>a, <2>2, UnusedStore
  <2> QED
    BY <1>0, <1>4, <2>1, <2>3, LiveTyped DEF ScanBegin, ScanShape, ScanStages
<1>5. CASE PlanSection
  <2>1. \/ scan' = [scan EXCEPT !.pc = "pass", !.next = 1, !.parallel = FALSE] /\ UNCHANGED stores
        \/ ScanReads(scan.next)
    BY <1>5 DEF PlanSection
  <2>2. \/ scan' = [scan EXCEPT !.pc = "pass", !.next = 1, !.parallel = FALSE]
        \/ \E text : scan' = [scan EXCEPT !.next = scan.next + 1, !.text = text]
    BY <2>1 DEF ScanReads
  <2>3. ScanShape(scan') /\ scan'.guard = scan.guard
    <3>1. scan.pc = "plan"
      BY <1>5 DEF PlanSection
    <3>2. CASE scan' = [scan EXCEPT !.pc = "pass", !.next = 1, !.parallel = FALSE]
      BY <1>0, <3>1, <3>2 DEF ScanShape, ScanStages
    <3>3. ASSUME NEW text, scan' = [scan EXCEPT !.next = scan.next + 1, !.text = text]
          PROVE  ScanShape(scan') /\ scan'.guard = scan.guard
      BY <1>0, <3>1, <3>3 DEF ScanShape
    <3> QED
      BY <2>2, <3>2, <3>3
  <2>4. DOMAIN stores' = StoreIds
    BY <1>0, <2>1 DEF ScanReads
  <2> QED
    BY <1>0, <1>5, <2>3, <2>4 DEF PlanSection
<1>6. CASE PlanDone
  <2>1. PICK parallel : scan' = [scan EXCEPT !.pc = "pass", !.next = 1, !.parallel = parallel]
    BY <1>6 DEF PlanDone
  <2> QED
    BY <1>0, <1>6, <2>1 DEF PlanDone, ScanShape, ScanStages
<1>7. CASE PassSerial
  <2>1. \E text : scan' = [scan EXCEPT !.next = scan.next + 1, !.text = text]
    BY <1>7 DEF PassSerial, ScanReads
  <2> QED
    BY <1>0, <1>7, <2>1 DEF PassSerial, ScanReads, ScanShape
<1>8. CASE PassParallel
  <2>1. \/ behind' = Nothing /\ scan' = [NoScan EXCEPT !.pc = "lost"]
        \/ UNCHANGED behind /\ \E text : scan' = [scan EXCEPT !.next = scan.next + 1, !.text = text]
    BY <1>8 DEF PassParallel
  <2>2. ScanShape(scan') /\ (behind' = Nothing \/ (UNCHANGED behind /\ scan'.guard = scan.guard))
    <3>1. ScanShape([NoScan EXCEPT !.pc = "lost"])
      BY DEF NoScan, ScanShape, ScanStages
    <3>2. ASSUME NEW text, scan' = [scan EXCEPT !.next = scan.next + 1, !.text = text]
          PROVE  ScanShape(scan') /\ scan'.guard = scan.guard
      BY <1>0, <3>2 DEF ScanShape
    <3> QED
      BY <2>1, <3>1, <3>2
  <2> QED
    BY <1>0, <1>8, <2>2, LiveTyped DEF PassParallel
<1>9. CASE ScanEnd
  BY <1>0, <1>9, NoScanShape, LiveTyped DEF ScanEnd
<1> QED
  BY <1>0, <1>1, <1>2, <1>3, <1>4, <1>5, <1>6, <1>7, <1>8, <1>9 DEF Scan

LEMMA ScanTypedStep ==
  ASSUME ScanTyped, [ScanNext]_vars
  PROVE  ScanTyped'
<1> USE ScanAssumption
<1>1. CASE Scan
  <2>1. DOMAIN behind' = Opened
    BY <1>1, ScanMoves, NothingBehind DEF ScanTyped
  <2> QED
    BY <1>1, <2>1, ScanMoves DEF ScanTyped
<1>2. ASSUME NEW d \in Opened, Warm(d) PROVE ScanTyped'
  <2>1. DOMAIN warm' = Opened /\ \A e \in Opened : WarmShape(warm'[e])
    BY <1>2, WarmMoves, BecomesTyped
  <2>2. UNCHANGED <<committed, scan>> /\ (UNCHANGED behind \/ WarmLocks(d))
    BY <1>2 DEF Warm, Prewarm, WarmStops, WarmMeta, WarmHeld, WarmMeasure, WarmMark, WarmInstall,
       WarmCheck, WarmRead, WarmInsert
  <2>3. DOMAIN behind' = Opened
    BY <2>2 DEF WarmLocks, ScanTyped
  <2>4. \/ UNCHANGED <<stores, tainted>> \/ \E new : Live(new)
        \/ WarmInsert(d)
    BY <1>2 DEF Warm, Prewarm, WarmStops, WarmMeta, WarmHeld, WarmMeasure, WarmMark, WarmInstall,
       WarmCheck, WarmRead
  <2>5. DOMAIN stores' = StoreIds /\ tainted' \subseteq Opened
    BY <2>4, LiveTyped DEF WarmInsert, ScanTyped
  <2>6. UNCHANGED slot \/ (slot' = StoreForWarm(d) /\ (WarmMark(d) \/ WarmInstall(d)))
    BY <1>2 DEF Warm, Prewarm, WarmStops, WarmMeta, WarmHeld, WarmMeasure, WarmMark, WarmInstall,
       WarmCheck, WarmRead, WarmInsert
  <2>7. StoreForWarm(d) \in StoreIds
    BY UnusedStore DEF StoreForWarm, ScanTyped
  <2>8. slot' \in StoreIds \cup {None}
    BY <2>6, <2>7 DEF ScanTyped
  <2> QED
    BY <2>1, <2>2, <2>3, <2>5, <2>8 DEF ScanTyped
<1>3. ASSUME NEW w \in Writers, DropScanText(w) PROVE ScanTyped'
  <2>1. /\ UNCHANGED <<committed, scan, warm, behind>> /\ slot' = None
        /\ DOMAIN stores' = StoreIds /\ tainted' \subseteq Opened
    BY <1>3, LiveTyped DEF DropScanText
  <2> QED
    BY <2>1 DEF ScanTyped
<1>4. ASSUME NEW w \in Writers, NEW d \in Opened, NEW v \in VersionsOf[d], Commit(w, d, v)
      PROVE  ScanTyped'
  BY <1>4 DEF Commit, ScanTyped
<1>5. CASE UNCHANGED vars
  BY <1>5 DEF vars, ScanTyped
<1> QED
  BY <1>1, <1>2, <1>3, <1>4, <1>5 DEF ScanNext

-----------------------------------------------------------------------------
(* A warm gives way.                                                       *)

\* What a warm does while nobody waits, or to what it has read.
LEMMA WarmGoesOn ==
  ASSUME ScanTyped, YieldInv, NEW d \in Opened, NEW new, WarmShape(new), Becomes(d, new),
         UNCHANGED <<scan, behind>>,
         scan.guard => new.pc \notin {"meta", "measure", "read"}
  PROVE  YieldInv'
<1>1. \A e \in Opened : warm'[e] = IF e = d THEN new ELSE warm[e]
  BY DEF Becomes, ScanTyped
<1> QED
  BY <1>1 DEF YieldInv

LEMMA WarmReads ==
  ASSUME ScanTyped, YieldInv, NEW d \in Opened, NEW new, WarmShape(new), Becomes(d, new),
         warm[d].pc \in {"meta", "measure", "read"}, WarmLocks(d), UNCHANGED scan,
         scan.guard => new.pc \notin {"meta", "measure", "read"}
  PROVE  YieldInv'
<1>1. \A e \in Opened : warm'[e] = IF e = d THEN new ELSE warm[e]
  BY DEF Becomes, ScanTyped
<1>2. behind[d] = 0
  BY DEF YieldInv
<1>3. \A e \in Opened : behind'[e] = IF e = d /\ scan.guard THEN 1 ELSE behind[e]
  BY <1>2 DEF WarmLocks, Busy, ScanTyped
<1> QED
  BY <1>1, <1>3 DEF YieldInv

LEMMA YieldStep ==
  ASSUME ScanTyped, YieldInv, [ScanNext]_vars
  PROVE  YieldInv'
<1>1. CASE Scan
  <2>1. UNCHANGED warm /\ (behind' = Nothing \/ (UNCHANGED behind /\ scan'.guard = scan.guard))
    BY <1>1, ScanMoves
  <2> QED
    BY <2>1, NothingBehind DEF YieldInv
<1>2. ASSUME NEW d \in Opened, Warm(d) PROVE YieldInv'
  <2>1. PICK new : /\ WarmShape(new) /\ Becomes(d, new)
                   /\ scan.guard => new.pc \notin {"meta", "measure", "read"}
    BY <1>2, WarmMoves
  <2>2. /\ UNCHANGED scan
        /\ UNCHANGED behind \/ (WarmLocks(d) /\ warm[d].pc \in {"meta", "measure", "read"})
    BY <1>2 DEF Warm, Prewarm, WarmStops, WarmMeta, WarmHeld, WarmMeasure, WarmMark, WarmInstall,
       WarmCheck, WarmRead, WarmInsert
  <2> QED
    BY <2>1, <2>2, WarmGoesOn, WarmReads
<1>3. CASE \/ \E w \in Writers : DropScanText(w)
           \/ \E w \in Writers, d \in Opened : \E v \in VersionsOf[d] : Commit(w, d, v)
           \/ UNCHANGED vars
  <2>1. UNCHANGED <<scan, warm, behind>>
    BY <1>3 DEF DropScanText, Commit, vars
  <2> QED
    BY <2>1 DEF YieldInv
<1> QED
  BY <1>1, <1>2, <1>3 DEF ScanNext

\* Whatever a warm does when a search comes, it makes at most one read before the search has the
\* connection: the read it had begun, or the one it asked for first.
THEOREM WarmsGiveWay == ScanSpec => []WarmsYield
<1>1. ScanInit => ScanTyped /\ YieldInv
  BY NothingBehind, NoScanShape, NoWarmShape
     DEF ScanInit, ScanTyped, YieldInv, NoScan
<1>2. ScanTyped /\ YieldInv /\ [ScanNext]_vars => (ScanTyped /\ YieldInv)'
  BY ScanTypedStep, YieldStep
<1>3. YieldInv => WarmsYield
  BY DEF YieldInv, WarmsYield
<1> QED
  BY <1>1, <1>2, <1>3, PTL DEF ScanSpec

-----------------------------------------------------------------------------
(* The stores.                                                             *)

LEMMA InsertKeeps ==
  ASSUME NEW s, StoreShape(s), NEW x, NEW t
  PROVE  /\ StoreShape(Insert(s, x, t)) /\ Matches(Insert(s, x, t), s.doc, s.ver)
         /\ Exact(s) /\ t = TextOf(s.doc, s.ver) => Exact(Insert(s, x, t))
<1>1. CASE s.over \/ s.texts[x] # None
  BY <1>1 DEF Insert, Matches
<1>2. CASE ~(s.over \/ s.texts[x] # None) /\ s.bytes + Bytes[t.ver][x] > Cap
  <2>1. Insert(s, x, t) = OverCap(s)
    BY <1>2 DEF Insert
  <2> QED
    BY <2>1 DEF OverCap, StoreShape, Matches, Exact
<1>3. CASE ~(s.over \/ s.texts[x] # None) /\ ~(s.bytes + Bytes[t.ver][x] > Cap)
  <2>1. PICK bytes : Insert(s, x, t) = [s EXCEPT !.texts = [@ EXCEPT ![x] = t], !.bytes = bytes]
    BY <1>3 DEF Insert
  <2>2. /\ StoreShape(Insert(s, x, t)) /\ Matches(Insert(s, x, t), s.doc, s.ver)
        /\ \A y \in Sections : Insert(s, x, t).texts[y] = IF y = x THEN t ELSE s.texts[y]
    BY <2>1 DEF StoreShape, Matches
  <2> QED
    BY <2>2 DEF Exact, Matches
<1> QED
  BY <1>1, <1>2, <1>3

LEMMA OverCapKeeps ==
  ASSUME NEW s, StoreShape(s)
  PROVE  StoreShape(OverCap(s)) /\ Matches(OverCap(s), s.doc, s.ver) /\ Exact(OverCap(s))
BY DEF OverCap, StoreShape, Matches, Exact

LEMMA NewStore ==
  ASSUME NEW d, NEW v
  PROVE  StoreShape(Store(d, v)) /\ Matches(Store(d, v), d, v) /\ Exact(Store(d, v))
BY DEF Store, StoreShape, Matches, Exact

LEMMA StoresStay ==
  ASSUME StoresInv, UNCHANGED <<stores, tainted>>, Referenced' \cap StoreIds \subseteq Referenced
  PROVE  StoresInv'
BY DEF StoresInv, StoreShape, Exact, TextOf

\* Stores that are right stay so when those without an Arc go, and a document that is forgotten to
\* be tainted has none of them, nor a warm.
LEMMA LiveKeeps ==
  ASSUME ScanTyped, NEW new, Live(new),
         \A i \in StoreIds \cap Referenced' :
           StoreShape(new[i]) /\ (new[i].doc \notin tainted => Exact(new[i]))
  PROVE  /\ StoresInv'
         /\ \A i \in StoreIds \cap Referenced' :
              stores'[i] = new[i] /\ (new[i].doc \in tainted => new[i].doc \in tainted')
         /\ \A d \in tainted : warm'[d].pc # "idle" => d \in tainted'
         /\ tainted' \subseteq tainted
<1>1. \A i \in StoreIds \cap Referenced' : stores'[i] = new[i]
  BY DEF Live
<1>2. \A i \in StoreIds \cap Referenced' : new[i].doc \in tainted => new[i].doc \in tainted'
  BY ScanAssumption DEF Live
<1>3. StoresInv'
  BY <1>1, <1>2 DEF StoresInv, StoreShape, Exact, TextOf
<1> QED
  BY <1>1, <1>2, <1>3 DEF Live

\* The others' warms see nothing of a step that keeps their stores.
LEMMA OtherWarm ==
  ASSUME NEW d \in Opened, WarmOf(d), warm'[d] = warm[d],
         warm[d].pc \in Holding =>
           Matches(stores'[warm[d].store], stores[warm[d].store].doc, stores[warm[d].store].ver),
         warm[d].pc # "idle" =>
           d \in tainted' \/ (committed'[d] = committed[d] /\ d \notin tainted)
  PROVE  WarmOf(d)'
BY DEF WarmOf, Matches, Holding, TextOf

LEMMA SameScan ==
  ASSUME ScanInv, UNCHANGED scan,
         scan.pc \in {"plan", "pass"} =>
           /\ Matches(stores'[scan.store], stores[scan.store].doc, stores[scan.store].ver)
           /\ committed'[scan.doc] = committed[scan.doc]
           /\ scan.doc \in tainted => scan.doc \in tainted'
  PROVE  ScanInv'
BY DEF ScanInv, Matches, TextOf

-----------------------------------------------------------------------------
(* A search reads the text it asked for.                                   *)

LEMMA ScanHolds ==
  ASSUME ScanTyped, TextInv, scan.pc \in {"plan", "pass"}
  PROVE  /\ scan.store \in StoreIds \cap Referenced
         /\ Matches(stores[scan.store], scan.doc, scan.want) /\ StoreShape(stores[scan.store])
         /\ scan.doc \notin tainted => Exact(stores[scan.store])
         /\ committed[scan.doc] = scan.want
BY DEF TextInv, ScanInv, StoresInv, Matches, Referenced

LEMMA WarmHolds ==
  ASSUME ScanTyped, TextInv, NEW d \in Opened, warm[d].pc \in Holding
  PROVE  /\ warm[d].store \in StoreIds \cap Referenced
         /\ Matches(stores[warm[d].store], d, warm[d].ver) /\ StoreShape(stores[warm[d].store])
         /\ d \notin tainted => Exact(stores[warm[d].store])
BY DEF TextInv, WarmInv, WarmOf, StoresInv, Matches, Referenced

\* Steps that leave the warms alone, commit nothing and keep each store its document's.
LEMMA WarmsStay ==
  ASSUME ScanTyped, TextInv, UNCHANGED <<warm, committed, tainted>>,
         \A i \in StoreIds \cap Referenced : Matches(stores'[i], stores[i].doc, stores[i].ver)
  PROVE  WarmInv'
<1>1. ASSUME NEW d \in Opened PROVE WarmOf(d)'
  <2>1. WarmOf(d) /\ warm'[d] = warm[d] /\ committed'[d] = committed[d]
    BY DEF TextInv, WarmInv
  <2>2. warm[d].pc \in Holding =>
          Matches(stores'[warm[d].store], stores[warm[d].store].doc, stores[warm[d].store].ver)
    BY WarmHolds
  <2> QED
    BY <2>1, <2>2, OtherWarm
<1> QED
  BY <1>1 DEF WarmInv

LEMMA SameStores == \A i \in StoreIds : Matches(stores[i], stores[i].doc, stores[i].ver)
BY DEF Matches

\* A section read into the store of the scan, from SQLite or from the store.
LEMMA ReadsExact ==
  ASSUME ScanTyped, TextInv, scan.pc \in {"plan", "pass"}, scan.next <= N, ScanReads(scan.next),
         UNCHANGED <<committed, slot, warm, tainted>>
  PROVE  TextInv'
<1> USE ScanAssumption
<1> DEFINE s == stores[scan.store]
           x == scan.next
           t == IF s.texts[x] # None THEN s.texts[x] ELSE Loaded(scan.doc)
<1>1. /\ scan' = [scan EXCEPT !.next = x + 1, !.text = t]
      /\ stores' = [stores EXCEPT ![scan.store] = Insert(s, x, t)]
  BY DEF ScanReads
<1>2. /\ scan'.pc = scan.pc /\ scan'.store = scan.store /\ scan'.text = t
      /\ scan'.doc = scan.doc /\ scan'.want = scan.want
  BY <1>1 DEF ScanTyped, ScanShape
<1>3. Referenced' = Referenced
  BY <1>2 DEF Referenced
<1>4. /\ scan.store \in StoreIds \cap Referenced /\ Matches(s, scan.doc, scan.want) /\ StoreShape(s)
      /\ scan.doc \notin tainted => Exact(s)
      /\ committed[scan.doc] = scan.want
  BY ScanHolds
<1>5. x \in Sections
  BY DEF ScanTyped, ScanShape, Sections
<1>6. scan.doc \notin tainted => t = TextOf(scan.doc, scan.want)
  BY <1>4, <1>5 DEF Exact, Matches, Loaded, TextOf
<1>7. \A i \in StoreIds : stores'[i] = IF i = scan.store THEN Insert(s, x, t) ELSE stores[i]
  BY <1>1 DEF ScanTyped
<1> HIDE DEF t, x, s
<1>8. /\ StoreShape(Insert(s, x, t)) /\ Matches(Insert(s, x, t), scan.doc, scan.want)
      /\ scan.doc \notin tainted => Exact(Insert(s, x, t))
  BY <1>4, <1>6, InsertKeeps DEF Matches
<1>9. StoresInv'
  <2>1. ASSUME NEW i \in StoreIds \cap Referenced
        PROVE  StoreShape(stores'[i]) /\ (stores'[i].doc \notin tainted => Exact(stores'[i]))
    BY <1>7, <1>8 DEF TextInv, StoresInv, Matches
  <2> QED
    BY <1>3, <2>1 DEF StoresInv, StoreShape, Exact, TextOf
<1>10. \A i \in StoreIds \cap Referenced : Matches(stores'[i], stores[i].doc, stores[i].ver)
  BY <1>4, <1>7, <1>8, SameStores DEF Matches, s
<1>11. WarmInv'
  BY <1>10, WarmsStay
<1>12. ScanInv'
  BY <1>2, <1>4, <1>6, <1>7, <1>8 DEF ScanInv, Matches, TextOf
<1> QED
  BY <1>9, <1>11, <1>12 DEF TextInv

\* The scan or the slot lets go of its store, or keeps it, and the others stay.
LEMMA ScanLets ==
  ASSUME ScanTyped, TextInv, Live(stores), UNCHANGED <<committed, warm>>,
         slot' \in {slot, None}, scan'.store \in {scan.store, None}
  PROVE  /\ StoresInv' /\ WarmInv' /\ tainted' \subseteq tainted
         /\ scan'.store = scan.store /\ scan.pc \in {"plan", "pass"} =>
              /\ stores'[scan.store] = stores[scan.store]
              /\ scan.doc \in tainted => scan.doc \in tainted'
<1> USE ScanAssumption
<1>1. StoreIds \cap Referenced' \subseteq Referenced
  BY DEF Referenced
<1>2. \A i \in StoreIds \cap Referenced' :
        StoreShape(stores[i]) /\ (stores[i].doc \notin tainted => Exact(stores[i]))
  BY <1>1 DEF TextInv, StoresInv
<1>3. /\ StoresInv'
      /\ \A i \in StoreIds \cap Referenced' :
           stores'[i] = stores[i] /\ (stores[i].doc \in tainted => stores[i].doc \in tainted')
      /\ \A d \in tainted : warm'[d].pc # "idle" => d \in tainted'
      /\ tainted' \subseteq tainted
  BY <1>2, LiveKeeps
<1>4. ASSUME NEW d \in Opened PROVE WarmOf(d)'
  <2>1. WarmOf(d) /\ warm'[d] = warm[d] /\ committed'[d] = committed[d]
    BY DEF TextInv, WarmInv
  <2>2. CASE warm[d].pc \in Holding
    <3>1. warm[d].store \in StoreIds \cap Referenced'
      BY <2>2, WarmHolds DEF Referenced
    <3> QED
      BY <1>3, <2>1, <2>2, <3>1, OtherWarm DEF Matches
  <2>3. CASE warm[d].pc \notin Holding
    BY <1>3, <2>1, <2>3, OtherWarm
  <2> QED
    BY <2>2, <2>3
<1>5. ASSUME scan'.store = scan.store, scan.pc \in {"plan", "pass"}
      PROVE  /\ stores'[scan.store] = stores[scan.store]
             /\ scan.doc \in tainted => scan.doc \in tainted'
  <2>1. scan.store \in StoreIds \cap Referenced' /\ stores[scan.store].doc = scan.doc
    BY <1>5, ScanHolds DEF Referenced, Matches
  <2> QED
    BY <1>3, <2>1
<1> QED
  BY <1>3, <1>4, <1>5 DEF WarmInv

LEMMA ScanExactStep ==
  ASSUME ScanTyped, TextInv, Scan
  PROVE  TextInv'
<1> USE ScanAssumption
<1>0. ScanShape(scan)
  BY DEF ScanTyped
<1>1. CASE (\E d \in Docs : \E v \in VersionsOf[d] : ScanEnter(d, v)) \/ ScanRefuse
  <2>1. /\ UNCHANGED <<committed, slot, stores, warm, tainted>> /\ scan.store = None
        /\ scan'.store = None /\ scan'.text = None /\ scan'.pc \notin {"plan", "pass"}
    <3>1. CASE \E d \in Docs : \E v \in VersionsOf[d] : ScanEnter(d, v)
      BY <1>0, <3>1 DEF ScanEnter, NoScan, ScanShape
    <3>2. CASE ScanRefuse
      BY <1>0, <3>2 DEF ScanRefuse, NoScan, ScanShape
    <3> QED
      BY <1>1, <3>1, <3>2
  <2>2. Referenced' = Referenced
    BY <2>1 DEF Referenced
  <2>3. StoresInv'
    BY <2>1, <2>2, StoresStay DEF TextInv
  <2>4. WarmInv'
    BY <2>1, WarmsStay, SameStores
  <2> QED
    BY <2>1, <2>3, <2>4 DEF TextInv, ScanInv
<1>2. CASE ScanAbandon \/ PlanDone
         \/ (PlanSection /\ scan' = [scan EXCEPT !.pc = "pass", !.next = 1, !.parallel = FALSE]
             /\ UNCHANGED stores)
  <2>1. /\ UNCHANGED <<committed, slot, stores, warm, tainted>>
        /\ scan'.store = scan.store /\ scan'.text = scan.text /\ scan'.doc = scan.doc
        /\ scan'.want = scan.want
        /\ scan'.pc = scan.pc \/ (scan'.pc = "pass" /\ scan.pc = "plan")
    BY <1>0, <1>2 DEF ScanAbandon, PlanDone, PlanSection, ScanShape
  <2>2. Referenced' = Referenced
    BY <2>1 DEF Referenced
  <2>3. StoresInv'
    BY <2>1, <2>2, StoresStay DEF TextInv
  <2>4. WarmInv'
    BY <2>1, WarmsStay, SameStores
  <2>5. ScanInv'
    BY <2>1 DEF TextInv, ScanInv, Matches, TextOf
  <2> QED
    BY <2>3, <2>4, <2>5 DEF TextInv
<1>3. CASE PassSerial \/ (PlanSection /\ ScanReads(scan.next))
  BY <1>3, ReadsExact DEF PassSerial, PlanSection
<1>4. CASE ScanBegin
  <2> DEFINE hit == slot # None /\ Matches(stores[slot], scan.doc, scan.want)
             i   == IF hit THEN slot ELSE Unused
             new == IF hit THEN stores ELSE [stores EXCEPT ![i] = Store(scan.doc, scan.want)]
             parallel == scan.want \in Parallel /\ ~new[i].over
  <2>1. /\ slot' = i /\ Live(new) /\ UNCHANGED <<committed, warm>>
        /\ scan' = [scan EXCEPT !.pc = "plan", !.store = i, !.parallel = parallel]
        /\ scan.pc = "queued" /\ committed[scan.doc] = scan.want
    BY <1>4 DEF ScanBegin
  <2>2. scan.store = None /\ scan.text = None
    BY <1>0, <2>1 DEF ScanShape, TextInv, ScanInv
  <2>3. Unused \in StoreIds /\ Unused \notin Referenced /\ slot \in StoreIds \cup {None}
    BY <2>2, UnusedStore DEF ScanTyped
  <2>4. /\ i \in StoreIds /\ StoreShape(new[i]) /\ Matches(new[i], scan.doc, scan.want)
        /\ new[i].doc \notin tainted => Exact(new[i])
        /\ \A j \in StoreIds \cap Referenced : new[j] = stores[j]
    <3>1. CASE hit
      <4>1. slot \in StoreIds \cap Referenced
        BY <2>3, <3>1 DEF Referenced
      <4> QED
        BY <3>1, <4>1 DEF TextInv, StoresInv
    <3>2. CASE ~hit
      <4>1. \A j \in StoreIds : new[j] = IF j = Unused THEN Store(scan.doc, scan.want) ELSE stores[j]
        BY <3>2 DEF ScanTyped
      <4> QED
        BY <2>3, <3>2, <4>1, NewStore
    <3> QED
      BY <3>1, <3>2
  <2> HIDE DEF hit, i, new, parallel
  <2>5. scan'.store = i /\ scan'.pc = "plan" /\ scan'.doc = scan.doc /\ scan'.want = scan.want
        /\ scan'.text = None
    BY <1>0, <2>1, <2>2 DEF ScanShape
  <2>6. /\ i \in StoreIds \cap Referenced' /\ \A j \in StoreIds \cap Referenced' : j = i \/ j \in Referenced
        /\ \A d \in Opened : warm[d].store \in StoreIds => warm[d].store \in StoreIds \cap Referenced'
    BY <2>1, <2>4, <2>5 DEF Referenced
  <2>7. \A j \in StoreIds \cap Referenced' :
          StoreShape(new[j]) /\ (new[j].doc \notin tainted => Exact(new[j]))
    BY <2>4, <2>6 DEF TextInv, StoresInv
  <2>8. /\ StoresInv'
        /\ \A j \in StoreIds \cap Referenced' :
             stores'[j] = new[j] /\ (new[j].doc \in tainted => new[j].doc \in tainted')
        /\ \A d \in tainted : warm'[d].pc # "idle" => d \in tainted'
        /\ tainted' \subseteq tainted
    BY <2>1, <2>7, LiveKeeps
  <2>9. ASSUME NEW d \in Opened PROVE WarmOf(d)'
    <3>1. WarmOf(d) /\ warm'[d] = warm[d] /\ committed'[d] = committed[d]
      BY <2>1 DEF TextInv, WarmInv
    <3>2. CASE warm[d].pc \in Holding
      <4>1. stores'[warm[d].store] = stores[warm[d].store]
        BY <2>4, <2>6, <2>8, <3>2, WarmHolds
      <4> QED
        BY <2>8, <3>1, <4>1, OtherWarm DEF Matches
    <3>3. CASE warm[d].pc \notin Holding
      BY <2>8, <3>1, <3>3, OtherWarm
    <3> QED
      BY <3>2, <3>3
  <2>10. ScanInv'
    BY <2>1, <2>4, <2>5, <2>6, <2>8 DEF ScanInv
  <2> QED
    BY <2>8, <2>9, <2>10 DEF TextInv, WarmInv
<1>5. CASE PassParallel
  <2>1. /\ Live(stores) /\ UNCHANGED <<committed, slot, warm>>
        /\ scan.pc = "pass" /\ scan.next <= N
    BY <1>5 DEF PassParallel
  <2>2. CASE scan' = [NoScan EXCEPT !.pc = "lost"]
    <3>1. scan'.store = None /\ scan'.text = None /\ scan'.pc = "lost"
      BY <2>2 DEF NoScan
    <3> QED
      BY <2>1, <3>1, ScanLets DEF TextInv, ScanInv
  <2>3. CASE scan' = [scan EXCEPT !.next = @ + 1, !.text = stores[scan.store].texts[scan.next]]
             /\ stores[scan.store].texts[scan.next] # None
    <3>1. /\ scan'.store = scan.store /\ scan'.text = stores[scan.store].texts[scan.next]
          /\ scan'.doc = scan.doc /\ scan'.want = scan.want /\ scan'.pc = "pass"
      BY <1>0, <2>1, <2>3 DEF ScanShape
    <3>2. scan.next \in Sections
      BY <1>0, <2>1 DEF ScanShape, Sections
    <3>3. /\ StoresInv' /\ WarmInv' /\ tainted' \subseteq tainted
          /\ stores'[scan.store] = stores[scan.store] /\ (scan.doc \in tainted => scan.doc \in tainted')
      BY <2>1, <3>1, ScanLets
    <3>4. scan.doc \notin tainted => scan'.text = TextOf(scan.doc, scan.want)
      BY <2>1, <2>3, <3>1, <3>2, ScanHolds DEF Exact, Matches
    <3>5. ScanInv'
      BY <2>1, <3>1, <3>3, <3>4, ScanHolds DEF ScanInv, TextOf, Matches
    <3> QED
      BY <3>3, <3>5 DEF TextInv
  <2> QED
    BY <1>5, <2>2, <2>3 DEF PassParallel
<1>6. CASE ScanEnd
  <2>1. /\ Live(stores) /\ UNCHANGED <<committed, slot, warm>>
        /\ scan'.store = None /\ scan'.text = None /\ scan'.pc = "idle"
    BY <1>6 DEF ScanEnd, NoScan
  <2> QED
    BY <2>1, ScanLets DEF TextInv, ScanInv
<1>7. PlanSection => \/ ScanReads(scan.next)
                     \/ (scan' = [scan EXCEPT !.pc = "pass", !.next = 1, !.parallel = FALSE]
                         /\ UNCHANGED stores)
  BY DEF PlanSection
<1> QED
  BY <1>1, <1>2, <1>3, <1>4, <1>5, <1>6, <1>7 DEF Scan

\* The store a warm may use: this document's, new or in the slot.
LEMMA StoreToWarm ==
  ASSUME ScanTyped, TextInv, NEW d \in Opened, SlotForWarm(d)
  PROVE  LET i == StoreForWarm(d)  new == StoresForWarm(d) IN
         /\ i \in StoreIds /\ StoreShape(new[i]) /\ Matches(new[i], d, warm[d].ver)
         /\ new[i].doc \notin tainted => Exact(new[i])
         /\ DOMAIN new = StoreIds
         /\ \A j \in StoreIds \cap Referenced : new[j] = stores[j]
<1> USE ScanAssumption
<1>1. CASE slot = None
  <2>1. Unused \in StoreIds /\ Unused \notin Referenced
    BY <1>1, UnusedStore
  <2>2. /\ StoreForWarm(d) = Unused
        /\ StoresForWarm(d) = [stores EXCEPT ![Unused] = Store(d, warm[d].ver)]
    BY <1>1 DEF StoreForWarm, StoresForWarm
  <2>3. /\ DOMAIN StoresForWarm(d) = StoreIds
        /\ \A j \in StoreIds : StoresForWarm(d)[j] = IF j = Unused THEN Store(d, warm[d].ver) ELSE stores[j]
    BY <2>2 DEF ScanTyped
  <2> QED
    BY <2>1, <2>2, <2>3, NewStore
<1>2. CASE slot # None
  <2>1. StoreForWarm(d) = slot /\ StoresForWarm(d) = stores /\ Matches(stores[slot], d, warm[d].ver)
    BY <1>2 DEF StoreForWarm, StoresForWarm, SlotForWarm
  <2>2. slot \in StoreIds \cap Referenced
    BY <1>2 DEF ScanTyped, Referenced
  <2> QED
    BY <2>1, <2>2 DEF ScanTyped, TextInv, StoresInv
<1> QED
  BY <1>1, <1>2

\* The warm of d and the stores move on, and the scan stays: what is left to show is the warm itself.
LEMMA WarmLets ==
  ASSUME ScanTyped, TextInv, NEW d \in Opened, NEW w, WarmShape(w), Becomes(d, w),
         UNCHANGED <<committed, scan>>, NEW new, Live(new), NEW i \in StoreIds \cup {None},
         slot' \in {i, slot, None}, w.store \in {i, warm[d].store, None},
         i \in StoreIds =>
           /\ StoreShape(new[i]) /\ (new[i].doc \notin tainted => Exact(new[i]))
           /\ i \in Referenced => Matches(new[i], stores[i].doc, stores[i].ver),
         \A j \in StoreIds \cap Referenced : j = i \/ new[j] = stores[j]
  PROVE  /\ StoresInv' /\ ScanInv' /\ (\A e \in Opened \ {d} : WarmOf(e)')
         /\ warm'[d] = w /\ tainted' \subseteq tainted
         /\ \A j \in StoreIds \cap Referenced' : stores'[j] = new[j]
         /\ d \in tainted /\ w.pc # "idle" => d \in tainted'
<1> USE ScanAssumption
<1>1. \A e \in Opened : warm'[e] = IF e = d THEN w ELSE warm[e]
  BY BecomesTyped
<1>2. \A j \in StoreIds \cap Referenced' : j = i \/ j \in Referenced
  BY <1>1 DEF Referenced
<1>3. \A j \in StoreIds \cap Referenced' :
        StoreShape(new[j]) /\ (new[j].doc \notin tainted => Exact(new[j]))
  BY <1>2 DEF TextInv, StoresInv
<1>4. /\ StoresInv'
      /\ \A j \in StoreIds \cap Referenced' :
           stores'[j] = new[j] /\ (new[j].doc \in tainted => new[j].doc \in tainted')
      /\ \A e \in tainted : warm'[e].pc # "idle" => e \in tainted'
      /\ tainted' \subseteq tainted
  BY <1>3, LiveKeeps
<1>5. \A j \in StoreIds \cap Referenced : Matches(new[j], stores[j].doc, stores[j].ver)
  BY DEF Matches
<1>6. ScanInv'
  <2>1. CASE scan.pc \in {"plan", "pass"}
    <3>1. /\ scan.store \in StoreIds \cap Referenced /\ scan.store \in Referenced'
          /\ Matches(stores[scan.store], scan.doc, scan.want)
      BY <2>1, ScanHolds DEF Referenced
    <3>2. stores'[scan.store] = new[scan.store] /\ (scan.doc \in tainted => scan.doc \in tainted')
      BY <1>4, <1>5, <3>1 DEF Matches
    <3> QED
      BY <1>5, <3>1, <3>2, SameScan DEF TextInv
  <2>2. CASE scan.pc \notin {"plan", "pass"}
    BY <2>2, SameScan DEF TextInv
  <2> QED
    BY <2>1, <2>2
<1>7. ASSUME NEW e \in Opened \ {d} PROVE WarmOf(e)'
  <2>1. WarmOf(e) /\ warm'[e] = warm[e] /\ committed'[e] = committed[e]
    BY <1>1, <1>7 DEF TextInv, WarmInv
  <2>2. warm[e].pc # "idle" => e \in tainted' \/ e \notin tainted
    BY <1>4, <2>1
  <2>3. warm[e].pc \in Holding =>
          Matches(stores'[warm[e].store], stores[warm[e].store].doc, stores[warm[e].store].ver)
    <3>1. ASSUME warm[e].pc \in Holding
          PROVE  warm[e].store \in StoreIds \cap Referenced /\ warm[e].store \in Referenced'
      BY <2>1, <3>1, WarmHolds DEF Referenced
    <3> QED
      BY <1>4, <1>5, <3>1
  <2> QED
    BY <2>1, <2>2, <2>3, OtherWarm
<1> QED
  BY <1>1, <1>4, <1>6, <1>7

\* The warm of d moves on and nothing else does.
LEMMA WarmAlone ==
  ASSUME ScanTyped, TextInv, NEW d \in Opened, NEW w, WarmShape(w), Becomes(d, w),
         UNCHANGED <<committed, slot, stores, scan, tainted>>,
         w.store = warm[d].store, (warm'[d] = w => WarmOf(d)')
  PROVE  TextInv'
<1> USE ScanAssumption
<1>1. \A e \in Opened : warm'[e] = IF e = d THEN w ELSE warm[e]
  BY BecomesTyped
<1>2. Referenced' = Referenced
  BY <1>1 DEF Referenced
<1>3. StoresInv'
  BY <1>2, StoresStay DEF TextInv
<1>4. ScanInv'
  BY SameScan DEF TextInv, Matches
<1>5. ASSUME NEW e \in Opened \ {d} PROVE WarmOf(e)'
  BY <1>1, <1>5 DEF TextInv, WarmInv, WarmOf
<1> QED
  BY <1>1, <1>3, <1>4, <1>5 DEF TextInv, WarmInv

LEMMA WarmExactStep ==
  ASSUME ScanTyped, TextInv, NEW d \in Opened, Warm(d)
  PROVE  TextInv'
<1> USE ScanAssumption
<1>0. WarmShape(warm[d]) /\ WarmOf(d) /\ DOMAIN warm = Opened
  BY DEF ScanTyped, TextInv, WarmInv
<1>1. ASSUME NEW v \in VersionsOf[d], Prewarm(d, v) PROVE TextInv'
  <2>1. /\ Becomes(d, [NoWarm EXCEPT !.pc = "meta", !.ver = v]) /\ warm[d].store = None
        /\ UNCHANGED <<committed, slot, stores, scan, tainted>>
    BY <1>0, <1>1 DEF Prewarm, WarmOf, Holding
  <2>2. /\ WarmShape([NoWarm EXCEPT !.pc = "meta", !.ver = v])
        /\ [NoWarm EXCEPT !.pc = "meta", !.ver = v].store = None
        /\ [NoWarm EXCEPT !.pc = "meta", !.ver = v].pc = "meta"
    BY NoWarmShape DEF NoWarm, WarmShape, WarmStages, Holding
  <2>3. warm'[d] = [NoWarm EXCEPT !.pc = "meta", !.ver = v] => WarmOf(d)'
    BY <2>2 DEF WarmOf, Holding
  <2> QED
    BY <2>1, <2>2, <2>3, WarmAlone
<1>2. CASE WarmStops(d)
  <2>1. Becomes(d, NoWarm) /\ Live(stores) /\ UNCHANGED <<committed, slot, scan>>
    BY <1>2 DEF WarmStops, Ends
  <2>2. StoresInv' /\ ScanInv' /\ (\A e \in Opened \ {d} : WarmOf(e)') /\ warm'[d] = NoWarm
    BY <2>1, NoWarmShape, WarmLets DEF NoWarm
  <2>3. WarmOf(d)'
    BY <2>2 DEF WarmOf, NoWarm, Holding
  <2> QED
    BY <2>2, <2>3 DEF TextInv, WarmInv
<1>3. CASE WarmMark(d)
  <2> DEFINE i   == StoreForWarm(d)
             new == [StoresForWarm(d) EXCEPT ![i] = OverCap(StoresForWarm(d)[i])]
  <2>1. Becomes(d, NoWarm) /\ Live(new) /\ slot' = i /\ UNCHANGED <<committed, scan>> /\ SlotForWarm(d)
    BY <1>3 DEF WarmMark, Ends
  <2>2. /\ i \in StoreIds /\ StoreShape(StoresForWarm(d)[i]) /\ Matches(StoresForWarm(d)[i], d, warm[d].ver)
        /\ DOMAIN StoresForWarm(d) = StoreIds
        /\ \A j \in StoreIds \cap Referenced : StoresForWarm(d)[j] = stores[j]
    BY <2>1, StoreToWarm
  <2>3. \A j \in StoreIds : new[j] = IF j = i THEN OverCap(StoresForWarm(d)[i]) ELSE StoresForWarm(d)[j]
    BY <2>2
  <2> HIDE DEF i, new
  <2>4. /\ StoreShape(new[i]) /\ Exact(new[i])
        /\ i \in Referenced => Matches(new[i], stores[i].doc, stores[i].ver)
    BY <2>2, <2>3, OverCapKeeps
  <2>5. \A j \in StoreIds \cap Referenced : j = i \/ new[j] = stores[j]
    BY <2>2, <2>3
  <2>6. StoresInv' /\ ScanInv' /\ (\A e \in Opened \ {d} : WarmOf(e)') /\ warm'[d] = NoWarm
    <3>1. NoWarm.store = None
      BY DEF NoWarm
    <3> QED
      BY <2>1, <2>2, <2>4, <2>5, <3>1, NoWarmShape, WarmLets
  <2>7. WarmOf(d)'
    BY <2>6 DEF WarmOf, NoWarm, Holding
  <2> QED
    BY <2>6, <2>7 DEF TextInv, WarmInv
<1>4. CASE WarmInstall(d)
  <2> DEFINE i   == StoreForWarm(d)
             new == StoresForWarm(d)
             w   == [warm[d] EXCEPT !.pc = "check", !.store = i]
  <2>1. /\ Becomes(d, w) /\ Live(new) /\ slot' = i /\ UNCHANGED <<committed, scan>> /\ SlotForWarm(d)
        /\ warm[d].pc = "install"
    BY <1>4 DEF WarmInstall
  <2>2. /\ i \in StoreIds /\ StoreShape(new[i]) /\ Matches(new[i], d, warm[d].ver)
        /\ new[i].doc \notin tainted => Exact(new[i])
        /\ \A j \in StoreIds \cap Referenced : new[j] = stores[j]
    BY <2>1, StoreToWarm
  <2>3. WarmShape(w) /\ w.store = i /\ w.pc = "check" /\ w.ver = warm[d].ver
    BY <1>0, <2>2 DEF WarmShape, WarmStages, Holding
  <2> HIDE DEF i, new, w
  <2>4. i \in Referenced => Matches(new[i], stores[i].doc, stores[i].ver)
    BY <2>2 DEF Matches
  <2>5. /\ StoresInv' /\ ScanInv' /\ (\A e \in Opened \ {d} : WarmOf(e)') /\ warm'[d] = w
        /\ tainted' \subseteq tainted
        /\ \A j \in StoreIds \cap Referenced' : stores'[j] = new[j]
        /\ d \in tainted => d \in tainted'
    BY <2>1, <2>2, <2>3, <2>4, WarmLets
  <2>6. stores'[i] = new[i]
    BY <2>1, <2>2, <2>5 DEF Referenced
  <2>7. d \notin tainted => committed[d] = warm[d].ver
    BY <1>0, <2>1 DEF WarmOf
  <2>8. WarmOf(d)'
    BY <2>1, <2>2, <2>3, <2>5, <2>6, <2>7 DEF WarmOf, Holding
  <2> QED
    BY <2>5, <2>8 DEF TextInv, WarmInv
<1>5. CASE WarmMeta(d)
  <2> DEFINE w == [warm[d] EXCEPT !.pc = "held"]
  <2>1. /\ Becomes(d, w) /\ UNCHANGED <<committed, slot, stores, scan, tainted>>
        /\ warm[d].pc = "meta" /\ committed[d] = warm[d].ver
    BY <1>5 DEF WarmMeta
  <2>2. WarmShape(w) /\ w.store = warm[d].store /\ w.pc = "held" /\ w.ver = warm[d].ver
    BY <1>0 DEF WarmShape, WarmStages, Holding
  <2> HIDE DEF w
  <2>3. warm'[d] = w => WarmOf(d)'
    BY <1>0, <2>1, <2>2 DEF WarmOf, Holding
  <2> QED
    BY <2>1, <2>2, <2>3, WarmAlone
<1>6. CASE WarmHeld(d) \/ WarmMeasure(d)
  <2> DEFINE Next(w) == /\ Becomes(d, w) /\ WarmShape(w) /\ w.store = warm[d].store
                        /\ w.ver = warm[d].ver /\ w.pc \in {"install", "measure", "mark", "stop"}
  <2>1. ASSUME NEW stage \in {"install", "measure"}, NEW todo, NEW left,
               Becomes(d, [warm[d] EXCEPT !.pc = stage, !.todo = todo, !.left = left])
        PROVE  Next([warm[d] EXCEPT !.pc = stage, !.todo = todo, !.left = left])
    BY <1>0, <2>1, <1>6 DEF WarmHeld, WarmMeasure, WarmShape, WarmStages, Holding, WarmOf
  <2>2. ASSUME NEW total, NEW left, warm[d].pc = "measure",
               Becomes(d, [warm[d] EXCEPT !.total = total, !.left = left])
        PROVE  Next([warm[d] EXCEPT !.total = total, !.left = left])
    BY <1>0, <2>2 DEF WarmShape
  <2>3. ASSUME NEW next \in {"mark", "install", "stop"},
               Becomes(d, [warm[d] EXCEPT !.pc = next, !.total = 0, !.left = {}])
        PROVE  Next([warm[d] EXCEPT !.pc = next, !.total = 0, !.left = {}])
    BY <1>0, <2>3, <1>6 DEF WarmHeld, WarmMeasure, WarmShape, WarmStages, Holding, WarmOf
  <2>4. ASSUME WarmHeld(d) PROVE \E w : Next(w)
    <3>1. \E stage \in {"install", "measure"} : \E todo, left :
            Becomes(d, [warm[d] EXCEPT !.pc = stage, !.todo = todo, !.left = left])
      BY <2>4 DEF WarmHeld
    <3> HIDE DEF Next
    <3> QED
      BY <2>1, <3>1
  <2>5. ASSUME WarmMeasure(d) PROVE \E w : Next(w)
    <3>1. \/ \E total, left : Becomes(d, [warm[d] EXCEPT !.total = total, !.left = left])
          \/ \E next \in {"mark", "install", "stop"} :
               Becomes(d, [warm[d] EXCEPT !.pc = next, !.total = 0, !.left = {}])
      BY <2>5 DEF WarmMeasure
    <3>2. warm[d].pc = "measure"
      BY <2>5 DEF WarmMeasure
    <3> HIDE DEF Next
    <3> QED
      BY <2>2, <2>3, <3>1, <3>2
  <2>6. PICK w : Next(w)
    <3> HIDE DEF Next
    <3> QED
      BY <1>6, <2>4, <2>5
  <2>7. /\ UNCHANGED <<committed, slot, stores, scan, tainted>>
        /\ warm[d].pc \in {"held", "measure"}
    BY <1>6 DEF WarmHeld, WarmMeasure
  <2>8. warm'[d] = w => WarmOf(d)'
    BY <1>0, <2>6, <2>7 DEF WarmOf, Holding
  <2> QED
    BY <2>6, <2>7, <2>8, WarmAlone
<1>7. CASE WarmCheck(d)
  <2> DEFINE Next(w) == /\ Becomes(d, w) /\ WarmShape(w) /\ w.store = warm[d].store
                        /\ w.ver = warm[d].ver /\ w.pc \in {"check", "read"}
  <2>1. UNCHANGED <<committed, slot, stores, scan, tainted>> /\ warm[d].pc = "check"
    BY <1>7 DEF WarmCheck
  <2>2. ASSUME NEW todo, Becomes(d, [warm[d] EXCEPT !.todo = todo])
        PROVE  Next([warm[d] EXCEPT !.todo = todo])
    BY <1>0, <2>1, <2>2 DEF WarmShape
  <2>3. ASSUME Becomes(d, [warm[d] EXCEPT !.pc = "read"])
        PROVE  Next([warm[d] EXCEPT !.pc = "read"])
    BY <1>0, <2>1, <2>3 DEF WarmShape, WarmStages, Holding
  <2>4. \/ \E todo : Becomes(d, [warm[d] EXCEPT !.todo = todo])
        \/ Becomes(d, [warm[d] EXCEPT !.pc = "read"])
    BY <1>7 DEF WarmCheck
  <2>5. PICK w : Next(w)
    <3> HIDE DEF Next
    <3> QED
      BY <2>2, <2>3, <2>4
  <2>6. warm'[d] = w => WarmOf(d)'
    BY <1>0, <2>1, <2>5 DEF WarmOf, Holding
  <2> QED
    BY <2>1, <2>5, <2>6, WarmAlone
<1>8. CASE WarmRead(d)
  <2> DEFINE w == [warm[d] EXCEPT !.pc = "insert", !.text = Loaded(d)]
  <2>1. /\ Becomes(d, w) /\ UNCHANGED <<committed, slot, stores, scan, tainted>> /\ warm[d].pc = "read"
    BY <1>8 DEF WarmRead
  <2>2. /\ WarmShape(w) /\ w.store = warm[d].store /\ w.pc = "insert" /\ w.ver = warm[d].ver
        /\ w.text = Loaded(d)
    BY <1>0 DEF WarmShape, WarmStages, Holding
  <2>3. d \notin tainted => Loaded(d) = TextOf(d, warm[d].ver)
    BY <1>0, <2>1 DEF WarmOf, Loaded, TextOf
  <2> HIDE DEF w
  <2>4. warm'[d] = w => WarmOf(d)'
    BY <1>0, <2>1, <2>2, <2>3 DEF WarmOf, Holding, TextOf
  <2> QED
    BY <2>1, <2>2, <2>4, WarmAlone
<1>9. CASE WarmInsert(d)
  <2> DEFINE i == warm[d].store
             x == Min(warm[d].todo)
             t == warm[d].text
             w == [warm[d] EXCEPT !.pc = "check", !.todo = @ \ {x}, !.text = None]
  <2>1. /\ Becomes(d, w) /\ UNCHANGED <<committed, slot, scan, tainted>> /\ warm[d].pc = "insert"
        /\ stores' = [stores EXCEPT ![i] = Insert(stores[i], x, t)]
    BY <1>9 DEF WarmInsert
  <2>2. WarmShape(w) /\ w.store = i /\ w.pc = "check" /\ w.ver = warm[d].ver
    BY <1>0 DEF WarmShape, WarmStages, Holding
  <2>3. /\ i \in StoreIds \cap Referenced /\ Matches(stores[i], d, warm[d].ver) /\ StoreShape(stores[i])
        /\ d \notin tainted => Exact(stores[i])
    BY <2>1, WarmHolds DEF Holding
  <2>4. d \notin tainted => t = TextOf(d, warm[d].ver) /\ committed[d] = warm[d].ver
    BY <1>0, <2>1 DEF WarmOf
  <2> HIDE DEF i, x, t, w
  <2>5. \A j \in StoreIds : stores'[j] = IF j = i THEN Insert(stores[i], x, t) ELSE stores[j]
    BY <2>1 DEF ScanTyped
  <2>6. /\ StoreShape(Insert(stores[i], x, t)) /\ Matches(Insert(stores[i], x, t), d, warm[d].ver)
        /\ d \notin tainted => Exact(Insert(stores[i], x, t))
    BY <2>3, <2>4, InsertKeeps DEF Matches
  <2>7. \A e \in Opened : warm'[e] = IF e = d THEN w ELSE warm[e]
    BY <2>1, <2>2, BecomesTyped
  <2>8. Referenced' = Referenced
    BY <2>1, <2>2, <2>7 DEF Referenced, i
  <2>9. StoresInv'
    <3>1. ASSUME NEW j \in StoreIds \cap Referenced
          PROVE  StoreShape(stores'[j]) /\ (stores'[j].doc \notin tainted => Exact(stores'[j]))
      BY <2>5, <2>6 DEF TextInv, StoresInv, Matches
    <3> QED
      BY <2>1, <2>8, <3>1 DEF StoresInv, StoreShape, Exact, TextOf
  <2>10. \A j \in StoreIds \cap Referenced : Matches(stores'[j], stores[j].doc, stores[j].ver)
    BY <2>3, <2>5, <2>6, SameStores DEF Matches
  <2>11. ScanInv'
    BY <2>1, <2>10, ScanHolds, SameScan DEF TextInv
  <2>12. ASSUME NEW e \in Opened \ {d} PROVE WarmOf(e)'
    <3>1. WarmOf(e) /\ warm'[e] = warm[e] /\ committed'[e] = committed[e]
      BY <2>1, <2>7 DEF TextInv, WarmInv
    <3>2. warm[e].pc \in Holding =>
            Matches(stores'[warm[e].store], stores[warm[e].store].doc, stores[warm[e].store].ver)
      BY <2>10, WarmHolds
    <3> QED
      BY <2>1, <3>1, <3>2, OtherWarm
  <2>13. WarmOf(d)'
    BY <2>1, <2>2, <2>3, <2>4, <2>5, <2>6, <2>7 DEF WarmOf, Holding
  <2> QED
    BY <2>9, <2>11, <2>12, <2>13 DEF TextInv, WarmInv
<1> QED
  BY <1>1, <1>2, <1>3, <1>4, <1>5, <1>6, <1>7, <1>8, <1>9 DEF Warm

LEMMA ExactStep ==
  ASSUME ScanTyped, TextInv, [ScanNext]_vars
  PROVE  TextInv'
<1> USE ScanAssumption
<1>1. ASSUME NEW w \in Writers, DropScanText(w) PROVE TextInv'
  <2>1. Live(stores) /\ UNCHANGED <<committed, scan, warm>> /\ slot' = None
    BY <1>1 DEF DropScanText
  <2>2. /\ StoresInv' /\ WarmInv'
        /\ scan.pc \in {"plan", "pass"} =>
             stores'[scan.store] = stores[scan.store] /\ (scan.doc \in tainted => scan.doc \in tainted')
    BY <2>1, ScanLets
  <2>3. ScanInv'
    BY <2>1, <2>2, SameScan DEF TextInv, Matches
  <2> QED
    BY <2>2, <2>3 DEF TextInv
<1>2. ASSUME NEW w \in Writers, NEW d \in Opened, NEW v \in VersionsOf[d], Commit(w, d, v)
      PROVE  TextInv'
  <2>1. /\ UNCHANGED <<slot, stores, scan, warm>> /\ committed' = [committed EXCEPT ![d] = v]
        /\ tainted' = (IF warm[d].pc # "idle" THEN tainted \cup {d} ELSE tainted)
        /\ scan.pc \notin {"plan", "pass"}
    BY <1>2 DEF Commit, MutexFree
  <2>2. Referenced' = Referenced
    BY <2>1 DEF Referenced
  <2>3. StoresInv'
    BY <2>1, <2>2 DEF TextInv, StoresInv, StoreShape, Exact, TextOf
  <2>4. ScanInv'
    BY <2>1 DEF TextInv, ScanInv
  <2>5. ASSUME NEW e \in Opened PROVE WarmOf(e)'
    <3>1. e # d => committed'[e] = committed[e]
      BY <2>1 DEF ScanTyped
    <3> QED
      BY <2>1, <3>1 DEF TextInv, WarmInv, WarmOf, Holding, Matches, TextOf
  <2> QED
    BY <2>3, <2>4, <2>5 DEF TextInv, WarmInv
<1>3. CASE UNCHANGED vars
  BY <1>3 DEF vars, TextInv, StoresInv, ScanInv, WarmInv, WarmOf, Referenced, StoreShape, Exact, Matches,
     TextOf, Holding
<1> QED
  BY <1>1, <1>2, <1>3, ScanExactStep, WarmExactStep DEF ScanNext

\* Whichever scans, warms and writers filled the store, in the slot or let go of, a search is given
\* the text of the version it asked for, unless its document was re-stored while a warm of it ran.
THEOREM SearchesReadTheirVersion == ScanSpec => []UntaintedScansExact
<1>1. ScanInit => ScanTyped /\ TextInv
  <2>1. ASSUME ScanInit PROVE StoreIds \cap Referenced = {}
    BY <2>1, ScanAssumption DEF ScanInit, Referenced, NoScan, NoWarm
  <2>2. ASSUME ScanInit PROVE ScanInv /\ WarmInv
    BY <2>2 DEF ScanInit, ScanInv, WarmInv, WarmOf, NoScan, NoWarm, Holding
  <2> QED
    BY <2>1, <2>2, NothingBehind, NoScanShape, NoWarmShape DEF ScanInit, ScanTyped, TextInv, StoresInv
<1>2. ScanTyped /\ TextInv /\ [ScanNext]_vars => (ScanTyped /\ TextInv)'
  BY ScanTypedStep, ExactStep
<1>3. ScanTyped /\ TextInv => UntaintedScansExact
  BY DEF TextInv, ScanInv, UntaintedScansExact, TextOf
<1> QED
  BY <1>1, <1>2, <1>3, PTL DEF ScanSpec

-----------------------------------------------------------------------------
(* Sums over finite sets.                                                  *)

\* What a fold of a finite set computes of every part of it, in any order.
Additive(F, S, g) ==
  /\ F \in [SUBSET S -> Nat] /\ F[{}] = 0
  /\ \A s \in SUBSET S : \A x \in s : F[s] = g[x] + F[s \ {x}]

\* A set of parts of a finite set that is not empty has one no other of them is a part of.
LEMMA LeastPart ==
  ASSUME NEW S, IsFiniteSet(S), NEW T, T \subseteq SUBSET S, T # {}
  PROVE  \E s \in T : \A x \in s : s \ {x} \notin T
<1>1. T \subseteq FiniteSubsetsOf(S)
  BY FS_Subset DEF FiniteSubsetsOf
<1>2. PICK s \in T : \A r \in T : <<r, s>> \notin StrictSubsetOrdering(S)
  <2>1. IsWellFoundedOn(StrictSubsetOrdering(S), FiniteSubsetsOf(S))
    BY FS_StrictSubsetOrderingWellFounded
  <2> QED
    BY <1>1, <2>1, WFMin
<1>3. ASSUME NEW x \in s, s \ {x} \in T PROVE FALSE
  <2>1. <<s \ {x}, s>> \in StrictSubsetOrdering(S)
    BY <1>3 DEF StrictSubsetOrdering
  <2> QED
    BY <1>2, <1>3, <2>1
<1> QED
  BY <1>3

LEMMA AdditiveExists ==
  ASSUME NEW S, IsFiniteSet(S), NEW g, \A x \in S : g[x] \in Nat
  PROVE  \E F : Additive(F, S, g)
<1> DEFINE T == {s \in SUBSET S : ~\E F : Additive(F, s, g)}
<1>1. SUFFICES ASSUME T # {} PROVE FALSE
  OBVIOUS
<1>2. PICK s \in T : \A x \in s : s \ {x} \notin T
  <2>1. T \subseteq SUBSET S
    OBVIOUS
  <2> HIDE DEF T
  <2> QED
    BY <1>1, <2>1, LeastPart
<1>3. s # {}
  <2>1. Additive([r \in SUBSET {} |-> 0], {}, g)
    BY DEF Additive
  <2> QED
    BY <2>1
<1>4. PICK x \in s : TRUE
  BY <1>3
<1>5. PICK F : Additive(F, s \ {x}, g)
  BY <1>2
<1> DEFINE H == [r \in SUBSET s |-> IF x \in r THEN g[x] + F[r \ {x}] ELSE F[r]]
<1>6. g[x] \in Nat
  BY <1>4
<1>7. \A r \in SUBSET s : /\ r \ {x} \in SUBSET (s \ {x}) /\ F[r \ {x}] \in Nat
                          /\ x \notin r => r \in SUBSET (s \ {x}) /\ F[r] \in Nat
  BY <1>5 DEF Additive
<1>8. H \in [SUBSET s -> Nat] /\ H[{}] = 0
  <2>1. \A r \in SUBSET s : (IF x \in r THEN g[x] + F[r \ {x}] ELSE F[r]) \in Nat
    BY <1>6, <1>7
  <2>2. F[{}] = 0
    BY <1>5 DEF Additive
  <2> QED
    BY <2>1, <2>2
<1>9. ASSUME NEW r \in SUBSET s, NEW y \in r PROVE H[r] = g[y] + H[r \ {y}]
  <2>1. r \ {y} \in SUBSET s /\ y \in S /\ g[y] \in Nat
    OBVIOUS
  <2>2. CASE y = x
    <3>1. H[r] = g[x] + F[r \ {x}] /\ H[r \ {x}] = F[r \ {x}]
      BY <2>1, <2>2
    <3> QED
      BY <2>2, <3>1
  <2>3. CASE y # x /\ x \in r
    <3>1. H[r] = g[x] + F[r \ {x}] /\ H[r \ {y}] = g[x] + F[(r \ {y}) \ {x}]
      BY <2>1, <2>3
    <3>2. (r \ {y}) \ {x} = (r \ {x}) \ {y} /\ r \ {x} \in SUBSET (s \ {x}) /\ y \in r \ {x}
      BY <2>3
    <3>3. F[r \ {x}] = g[y] + F[(r \ {x}) \ {y}]
      BY <1>5, <3>2 DEF Additive
    <3>4. F[(r \ {y}) \ {x}] \in Nat
      BY <1>7, <2>1
    <3>5. F[r \ {x}] = g[y] + F[(r \ {y}) \ {x}]
      BY <3>2, <3>3
    <3>6. H[r] = g[x] + (g[y] + F[(r \ {y}) \ {x}])
      BY <3>1, <3>5
    <3> HIDE DEF H
    <3>7. \A a, b, e \in Nat : a + (b + e) = b + (a + e)
      OBVIOUS
    <3>8. g[x] + (g[y] + F[(r \ {y}) \ {x}]) = g[y] + (g[x] + F[(r \ {y}) \ {x}])
      BY <1>6, <2>1, <3>4, <3>7
    <3> QED
      BY <3>1, <3>6, <3>8
  <2>4. CASE x \notin r
    <3>1. H[r] = F[r] /\ H[r \ {y}] = F[r \ {y}]
      BY <2>1, <2>4
    <3>2. r \in SUBSET (s \ {x})
      BY <2>4
    <3>3. F[r] = g[y] + F[r \ {y}]
      BY <1>5, <3>2 DEF Additive
    <3> QED
      BY <3>1, <3>3
  <2> QED
    BY <2>2, <2>3, <2>4
<1>10. Additive(H, s, g)
  <2> HIDE DEF H
  <2> QED BY <1>8, <1>9 DEF Additive
<1> QED
  BY <1>10

\* SumFunctionOnSet computes it.
LEMMA SumIs ==
  ASSUME NEW S, IsFiniteSet(S), NEW g, NEW F, Additive(F, S, g),
         NEW fun, \A x \in S : fun[x] = g[x]
  PROVE  SumFunctionOnSet(fun, S) = F[S]
<1> DEFINE pick(s) == CHOOSE x \in s : TRUE
           IsSum(f) == f = [s \in SUBSET S |-> IF s = {} THEN 0 ELSE fun[pick(s)] + f[s \ {pick(s)}]]
           c == CHOOSE f : IsSum(f)
           T == {s \in SUBSET S : c[s] # F[s]}
<1>1. SumFunctionOnSet(fun, S) = c[S]
  BY DEF SumFunctionOnSet, FoldFunctionOnSet, MapThenFoldSet
<1>2. \A s \in SUBSET S : s # {} => pick(s) \in s
  OBVIOUS
<1> HIDE DEF pick
<1>3. \A s \in SUBSET S : F[s] = IF s = {} THEN 0 ELSE fun[pick(s)] + F[s \ {pick(s)}]
  <2> SUFFICES ASSUME NEW s \in SUBSET S
               PROVE  F[s] = IF s = {} THEN 0 ELSE fun[pick(s)] + F[s \ {pick(s)}]
    OBVIOUS
  <2>1. CASE s = {}
    BY <2>1 DEF Additive
  <2>2. CASE s # {}
    <3>1. pick(s) \in s /\ fun[pick(s)] = g[pick(s)]
      BY <1>2, <2>2
    <3>2. F[s] = g[pick(s)] + F[s \ {pick(s)}]
      BY <3>1 DEF Additive
    <3> QED
      BY <2>2, <3>1, <3>2
  <2> QED
    BY <2>1, <2>2
<1>4. F = [s \in SUBSET S |-> F[s]]
  BY DEF Additive
<1>5. IsSum(F)
  BY <1>3, <1>4
<1>6. IsSum(c)
  <2> HIDE DEF IsSum
  <2> QED BY <1>5
<1> HIDE DEF c
<1>7. \A s \in SUBSET S : c[s] = IF s = {} THEN 0 ELSE fun[pick(s)] + c[s \ {pick(s)}]
  BY <1>6
<1>8. ASSUME T # {} PROVE FALSE
  <2>1. PICK s \in T : \A x \in s : s \ {x} \notin T
    <3>1. T \subseteq SUBSET S
      OBVIOUS
    <3> HIDE DEF T
    <3> QED BY <1>8, <3>1, LeastPart
  <2>2. s # {}
    BY <1>3, <1>7
  <2>3. pick(s) \in s
    BY <1>2, <2>2
  <2>4. c[s \ {pick(s)}] = F[s \ {pick(s)}]
    BY <2>1, <2>3
  <2>5. c[s] = F[s]
    BY <1>3, <1>7, <2>2, <2>4
  <2> QED
    BY <2>5
<1>9. c[S] = F[S]
  BY <1>8
<1> QED
  BY <1>1, <1>9

LEMMA SumOfNone ==
  ASSUME NEW fun
  PROVE  SumFunctionOnSet(fun, {}) = 0
<1>1. IsFiniteSet({})
  BY FS_EmptySet
<1>2. Additive([s \in SUBSET {} |-> 0], {}, fun)
  BY DEF Additive
<1>3. SumFunctionOnSet(fun, {}) = [s \in SUBSET {} |-> 0][{}]
  BY <1>1, <1>2, SumIs
<1> QED
  BY <1>3

\* One more element adds its value.
LEMMA SumGrows ==
  ASSUME NEW S, IsFiniteSet(S), NEW x, x \notin S, NEW fun, NEW more,
         \A y \in S : fun[y] \in Nat /\ more[y] = fun[y], more[x] \in Nat
  PROVE  SumFunctionOnSet(more, S \cup {x}) = SumFunctionOnSet(fun, S) + more[x]
<1> DEFINE U == S \cup {x}
<1>1. IsFiniteSet(U)
  BY FS_AddElement
<1>2. \A y \in U : more[y] \in Nat
  OBVIOUS
<1>3. PICK F : Additive(F, U, more)
  <2> HIDE DEF U
  <2> QED BY <1>1, <1>2, AdditiveExists
<1>4. SumFunctionOnSet(more, U) = F[U]
  BY <1>1, <1>3, SumIs
<1> DEFINE G == [s \in SUBSET S |-> F[s]]
<1>5. \A s \in SUBSET S : s \in SUBSET U /\ F[s] \in Nat
  BY <1>3 DEF Additive
<1>6. Additive(G, S, more)
  <2>1. G \in [SUBSET S -> Nat] /\ G[{}] = 0
    BY <1>3, <1>5 DEF Additive
  <2>2. ASSUME NEW s \in SUBSET S, NEW y \in s PROVE G[s] = more[y] + G[s \ {y}]
    <3>1. s \ {y} \in SUBSET S /\ s \in SUBSET U
      OBVIOUS
    <3>2. F[s] = more[y] + F[s \ {y}]
      BY <1>3, <3>1 DEF Additive
    <3> QED
      BY <3>1, <3>2
  <2> HIDE DEF G
  <2> QED
    BY <2>1, <2>2 DEF Additive
<1>7. SumFunctionOnSet(fun, S) = G[S]
  <2> HIDE DEF G
  <2> QED BY <1>6, SumIs
<1>8. F[U] = more[x] + F[S] /\ F[S] \in Nat
  <2>1. U \ {x} = S /\ U \in SUBSET U /\ x \in U
    OBVIOUS
  <2> HIDE DEF U
  <2>2. F[U] = more[x] + F[U \ {x}]
    BY <1>3, <2>1 DEF Additive
  <2> QED
    BY <1>5, <2>1, <2>2
<1>9. G[S] = F[S]
  OBVIOUS
<1> HIDE DEF G
<1> QED
  BY <1>4, <1>7, <1>8, <1>9

LEMMA FiniteSections == IsFiniteSet(Sections) /\ Sections \subseteq Nat
<1>1. 1 \in Int /\ N \in Int
  BY ScanAssumption
<1>2. IsFiniteSet(1..N)
  BY <1>1, FS_Interval
<1> QED
  BY <1>2 DEF Sections

\* A part of the sections has a first one.
LEMMA MinOfPart ==
  ASSUME NEW S, S \subseteq Sections, S # {}
  PROVE  Min(S) \in S
<1> DEFINE HasMin(s) == \E x \in s : \A y \in s : x <= y
           T == {s \in SUBSET S : s # {} /\ ~HasMin(s)}
<1>1. IsFiniteSet(S) /\ S \subseteq Nat
  BY FiniteSections, FS_Subset
<1>2. ASSUME T # {} PROVE FALSE
  <2>1. PICK s \in T : \A x \in s : s \ {x} \notin T
    <3>1. T \subseteq SUBSET S
      OBVIOUS
    <3> HIDE DEF T
    <3> QED BY <1>1, <1>2, <3>1, LeastPart
  <2>2. PICK x \in s : TRUE
    OBVIOUS
  <2>3. s \ {x} = {} \/ HasMin(s \ {x})
    BY <2>1
  <2>4. CASE s \ {x} = {}
    <3>1. \A y \in s : x <= y
      BY <1>1, <2>4
    <3> QED
      BY <3>1
  <2>5. CASE HasMin(s \ {x})
    <3>1. PICK m \in s \ {x} : \A y \in s \ {x} : m <= y
      BY <2>5
    <3>2. m \in Nat /\ x \in Nat /\ \A y \in s : y \in Nat
      BY <1>1
    <3>3. CASE m <= x
      BY <3>1, <3>2, <3>3
    <3>4. CASE x <= m
      <4>1. \A y \in s : x <= y
        BY <3>1, <3>2, <3>4
      <4> QED
        BY <4>1
    <3> QED
      BY <3>2, <3>3, <3>4
  <2> QED
    BY <2>3, <2>4, <2>5
<1>3. HasMin(S)
  BY <1>2
<1> QED
  BY <1>3 DEF Min

-----------------------------------------------------------------------------
(* What a store holds is counted.                                          *)

TextSet == [doc : Docs, ver : Versions]

Held(s) == {x \in Sections : s.texts[x] # None}
BytesHeld(s) == [x \in Held(s) |-> Bytes[s.texts[x].ver][x]]

\* A store's byte count is that of the texts it holds, within the cap; over the cap it holds nothing.
Accounted(s) ==
  /\ \A x \in Held(s) : s.texts[x] \in TextSet
  /\ s.bytes = SumFunctionOnSet(BytesHeld(s), Held(s))
  /\ s.bytes \in 0..Cap
  /\ s.over => Held(s) = {}

StoresAccounted ==
  \A i \in StoreIds : IF i \in Referenced THEN Accounted(stores[i]) ELSE stores[i] = None

\* What a scan or a warm puts into a store is a text, in a section of it.
ScanAsks == scan.pc \in {"queued", "plan", "pass"} => scan.want \in Versions /\ scan.doc \in Docs
WarmFills(d) ==
  /\ warm[d].pc = "meta" => warm[d].ver \in Versions
  /\ warm[d].pc \notin {"idle", "meta"} => committed[d] \in Versions
  /\ warm[d].todo \subseteq Sections
  /\ warm[d].pc \in {"read", "insert"} => warm[d].todo # {}
  /\ warm[d].pc = "insert" => warm[d].text \in TextSet

AccountInv == StoresAccounted /\ ScanAsks /\ \A d \in Opened : WarmFills(d)

LEMMA NoneHeld ==
  ASSUME NEW s, Held(s) = {}, s.bytes = 0
  PROVE  Accounted(s)
BY SumOfNone, ScanAssumption DEF Accounted

LEMMA NewAccounted ==
  ASSUME NEW d, NEW v
  PROVE  Accounted(Store(d, v))
<1>1. Held(Store(d, v)) = {} /\ Store(d, v).bytes = 0
  BY DEF Held, Store
<1> QED
  BY <1>1, NoneHeld

LEMMA OverCapAccounted ==
  ASSUME NEW s, StoreShape(s)
  PROVE  Accounted(OverCap(s))
<1>1. Held(OverCap(s)) = {} /\ OverCap(s).bytes = 0
  BY DEF Held, OverCap, StoreShape
<1> QED
  BY <1>1, NoneHeld

LEMMA InsertAccounted ==
  ASSUME NEW s, StoreShape(s), Accounted(s), NEW x \in Sections, NEW t \in TextSet
  PROVE  Accounted(Insert(s, x, t))
<1> DEFINE bytes == s.bytes + Bytes[t.ver][x]
           r == [s EXCEPT !.texts = [@ EXCEPT ![x] = t], !.bytes = bytes]
<1>0. Bytes \in [Versions -> [Sections -> Nat]]
  BY ScanAssumption
<1>1. Bytes[t.ver][x] \in Nat /\ s.bytes \in Nat /\ bytes \in Nat /\ Cap \in Nat
  BY <1>0, ScanAssumption DEF TextSet, Accounted
<1>2. CASE s.over \/ s.texts[x] # None
  BY <1>2 DEF Insert
<1>3. CASE ~s.over /\ s.texts[x] = None /\ bytes > Cap
  <2>1. Insert(s, x, t) = OverCap(s)
    BY <1>3 DEF Insert
  <2> QED
    BY <2>1, OverCapAccounted
<1>4. CASE ~s.over /\ s.texts[x] = None /\ ~(bytes > Cap)
  <2>1. Insert(s, x, t) = r
    BY <1>4 DEF Insert
  <2>2. /\ \A y \in Sections : r.texts[y] = IF y = x THEN t ELSE s.texts[y]
        /\ r.bytes = bytes /\ r.over = s.over
    BY DEF StoreShape
  <2>3. t # None
    BY ScanAssumption DEF TextSet
  <2> HIDE DEF r
  <2>4. Held(r) = Held(s) \cup {x} /\ x \notin Held(s)
    BY <1>4, <2>2, <2>3 DEF Held
  <2>5. IsFiniteSet(Held(s))
    <3>1. Held(s) \subseteq Sections
      BY DEF Held
    <3> QED
      BY <3>1, FiniteSections, FS_Subset
  <2>6. \A y \in Held(s) : s.texts[y] \in TextSet /\ y \in Sections
    BY DEF Accounted, Held
  <2>7. \A y \in Held(s) : BytesHeld(s)[y] \in Nat /\ BytesHeld(r)[y] = BytesHeld(s)[y]
    <3> TAKE y \in Held(s)
    <3>1. r.texts[y] = s.texts[y] /\ y \in Held(r)
      BY <2>2, <2>4, <2>6
    <3>2. Bytes[s.texts[y].ver][y] \in Nat
      BY <1>0, <2>6 DEF TextSet
    <3> QED
      BY <3>1, <3>2 DEF BytesHeld
  <2>8. BytesHeld(r)[x] = Bytes[t.ver][x]
    BY <2>2, <2>4 DEF BytesHeld
  <2>9. SumFunctionOnSet(BytesHeld(r), Held(r)) = bytes
    <3>1. BytesHeld(r)[x] \in Nat
      BY <1>1, <2>8
    <3>2. SumFunctionOnSet(BytesHeld(r), Held(s) \cup {x}) =
            SumFunctionOnSet(BytesHeld(s), Held(s)) + BytesHeld(r)[x]
      BY <2>4, <2>5, <2>7, <3>1, SumGrows
    <3> QED
      BY <2>4, <2>8, <3>2 DEF Accounted
  <2>10. bytes \in 0..Cap
    BY <1>1, <1>4
  <2>11. \A y \in Held(r) : r.texts[y] \in TextSet
    BY <2>2, <2>4, <2>6
  <2> HIDE DEF bytes
  <2>12. Accounted(r)
    BY <1>4, <2>2, <2>9, <2>10, <2>11 DEF Accounted
  <2> QED
    BY <2>1, <2>12
<1> QED
  BY <1>2, <1>3, <1>4

-----------------------------------------------------------------------------
(* Every step counts.                                                      *)

\* Stores that stay, and one that is made or changed.
LEMMA LiveAccounts ==
  ASSUME StoresAccounted, NEW new, Live(new), NEW i \in StoreIds \cup {None},
         i \in StoreIds => Accounted(new[i]),
         \A j \in StoreIds \cap Referenced' : j = i \/ (j \in Referenced /\ new[j] = stores[j])
  PROVE  StoresAccounted'
<1>1. \A j \in StoreIds : stores'[j] = IF j \in Referenced' THEN new[j] ELSE None
  BY DEF Live
<1>2. \A j \in StoreIds \cap Referenced' : Accounted(new[j])
  BY DEF StoresAccounted
<1>3. \A j \in StoreIds \cap Referenced' : Accounted(stores'[j])
  BY <1>1, <1>2
<1> QED
  BY <1>1, <1>3 DEF StoresAccounted, Accounted, Held, BytesHeld, TextSet

LEMMA SameAccounts ==
  ASSUME StoresAccounted, UNCHANGED stores, Referenced' = Referenced
  PROVE  StoresAccounted'
BY DEF StoresAccounted, Accounted, Held, BytesHeld, TextSet

LEMMA InsertAccounts ==
  ASSUME ScanTyped, StoresInv, StoresAccounted, NEW i \in StoreIds \cap Referenced,
         NEW x \in Sections, NEW t \in TextSet, stores' = [stores EXCEPT ![i] = Insert(stores[i], x, t)],
         Referenced' = Referenced
  PROVE  StoresAccounted'
<1>1. StoreShape(stores[i]) /\ Accounted(stores[i])
  BY DEF StoresInv, StoresAccounted
<1>2. Accounted(Insert(stores[i], x, t))
  BY <1>1, InsertAccounted
<1>3. \A j \in StoreIds : stores'[j] = IF j = i THEN Insert(stores[i], x, t) ELSE stores[j]
  BY DEF ScanTyped
<1>4. \A j \in StoreIds : IF j \in Referenced THEN Accounted(stores'[j]) ELSE stores'[j] = None
  BY <1>2, <1>3 DEF StoresAccounted
<1> QED
  BY <1>4 DEF StoresAccounted, Accounted, Held, BytesHeld, TextSet

\* The stores a step of the scan, or of one warm, leaves referenced.
LEMMA ScanReferences ==
  ASSUME UNCHANGED <<slot, warm>>, scan'.store = scan.store
  PROVE  Referenced' = Referenced
BY DEF Referenced

LEMMA WarmReferences ==
  ASSUME ScanTyped, UNCHANGED <<slot, scan>>, NEW d \in Opened, NEW w, WarmShape(w), Becomes(d, w),
         w.store = warm[d].store
  PROVE  Referenced' = Referenced
<1>1. \A e \in Opened : warm'[e].store = warm[e].store
  BY BecomesTyped
<1> QED
  BY <1>1 DEF Referenced

\* Arcs that only go.
LEMMA LetsAccount ==
  ASSUME StoresAccounted, Live(stores), Referenced' \cap StoreIds \subseteq Referenced
  PROVE  StoresAccounted'
<1>1. None \in StoreIds \cup {None} /\ None \notin StoreIds
  BY ScanAssumption
<1>2. \A j \in StoreIds \cap Referenced' : j = None \/ (j \in Referenced /\ stores[j] = stores[j])
  OBVIOUS
<1> QED
  BY <1>1, <1>2, LiveAccounts

LEMMA FillsStay ==
  ASSUME NEW d \in Opened, WarmFills(d), warm'[d] = warm[d],
         committed'[d] = committed[d] \/ committed'[d] \in Versions
  PROVE  WarmFills(d)'
BY DEF WarmFills, TextSet, Versions, Sections

LEMMA VersionsAre ==
  ASSUME NEW d \in Docs, NEW v \in VersionsOf[d]
  PROVE  v \in Versions
BY DEF Versions

LEMMA ReadsAccount ==
  ASSUME ScanTyped, TextInv, StoresAccounted, ScanAsks, scan.pc \in {"plan", "pass"}, scan.next <= N,
         ScanReads(scan.next), UNCHANGED <<slot, warm>>
  PROVE  /\ StoresAccounted' /\ scan'.pc = scan.pc /\ scan'.want = scan.want /\ scan'.doc = scan.doc
<1> DEFINE s == stores[scan.store]
           x == scan.next
           t == IF s.texts[x] # None THEN s.texts[x] ELSE Loaded(scan.doc)
<1>1. /\ scan' = [scan EXCEPT !.next = x + 1, !.text = t]
      /\ stores' = [stores EXCEPT ![scan.store] = Insert(s, x, t)]
  BY DEF ScanReads
<1>2. /\ scan'.pc = scan.pc /\ scan'.want = scan.want /\ scan'.doc = scan.doc
      /\ scan'.store = scan.store
  BY <1>1 DEF ScanTyped, ScanShape
<1>3. scan.store \in StoreIds \cap Referenced /\ committed[scan.doc] = scan.want
  BY ScanHolds
<1>4. x \in Sections
  BY ScanAssumption DEF ScanTyped, ScanShape, Sections
<1>5. Loaded(scan.doc) \in TextSet
  BY <1>3 DEF Loaded, TextSet, ScanAsks
<1>6. t \in TextSet
  <2>1. s.texts[x] # None => s.texts[x] \in TextSet
    BY <1>3, <1>4 DEF StoresAccounted, Accounted, Held
  <2> QED
    BY <1>5, <2>1
<1>7. Referenced' = Referenced
  BY <1>2, ScanReferences
<1> HIDE DEF s, x, t
<1>8. StoresAccounted'
  <2>1. stores' = [stores EXCEPT ![scan.store] = Insert(stores[scan.store], x, t)]
    BY <1>1 DEF s
  <2>2. StoresInv
    BY DEF TextInv
  <2> QED
    BY <1>3, <1>4, <1>6, <1>7, <2>1, <2>2, InsertAccounts
<1> QED
  BY <1>2, <1>8

LEMMA ScanAccounts ==
  ASSUME ScanTyped, TextInv, AccountInv, Scan
  PROVE  StoresAccounted' /\ ScanAsks'
<1>0. StoresAccounted /\ ScanAsks /\ ScanShape(scan) /\ UNCHANGED <<committed, warm>>
  BY ScanMoves DEF AccountInv, ScanTyped
<1>1. ASSUME NEW d \in Docs, NEW v \in VersionsOf[d], ScanEnter(d, v)
      PROVE  StoresAccounted' /\ ScanAsks'
  <2>1. /\ UNCHANGED <<slot, stores, warm>> /\ scan'.store = scan.store
        /\ scan'.doc = d /\ scan'.want = v
    BY <1>0, <1>1 DEF ScanEnter, NoScan, ScanShape
  <2>2. ScanAsks'
    BY <2>1, VersionsAre DEF ScanAsks, Versions
  <2> QED
    BY <1>0, <2>1, <2>2, ScanReferences, SameAccounts
<1>2. CASE ScanAbandon \/ PlanDone
  <2>1. /\ UNCHANGED <<slot, stores, warm>> /\ scan'.store = scan.store
        /\ scan'.doc = scan.doc /\ scan'.want = scan.want
        /\ scan'.pc = scan.pc \/ scan.pc = "plan"
    BY <1>0, <1>2 DEF ScanAbandon, PlanDone, ScanShape
  <2>2. ScanAsks'
    BY <1>0, <2>1 DEF ScanAsks, Versions
  <2> QED
    BY <1>0, <2>1, <2>2, ScanReferences, SameAccounts
<1>3. CASE ScanRefuse
  <2>1. UNCHANGED <<slot, stores, warm>> /\ scan'.store = scan.store /\ scan'.pc = "idle"
    BY <1>0, <1>3 DEF ScanRefuse, NoScan, ScanShape
  <2>2. ScanAsks'
    BY <2>1 DEF ScanAsks
  <2> QED
    BY <1>0, <2>1, <2>2, ScanReferences, SameAccounts
<1>4. CASE ScanBegin
  <2> DEFINE hit == slot # None /\ Matches(stores[slot], scan.doc, scan.want)
             i   == IF hit THEN slot ELSE Unused
             new == IF hit THEN stores ELSE [stores EXCEPT ![i] = Store(scan.doc, scan.want)]
             parallel == scan.want \in Parallel /\ ~new[i].over
  <2>1. /\ slot' = i /\ Live(new) /\ UNCHANGED warm /\ scan.pc = "queued"
        /\ scan' = [scan EXCEPT !.pc = "plan", !.store = i, !.parallel = parallel]
    BY <1>4 DEF ScanBegin
  <2>2. scan.store = None
    BY <1>0, <2>1 DEF ScanShape
  <2>3. /\ i \in StoreIds /\ Accounted(new[i])
        /\ \A j \in StoreIds \cap Referenced : j = i \/ new[j] = stores[j]
    <3>1. CASE hit
      <4>1. i = slot /\ new = stores /\ slot \in StoreIds
        BY <3>1 DEF ScanTyped
      <4>2. slot \in Referenced
        BY DEF Referenced
      <4> QED
        BY <1>0, <4>1, <4>2 DEF StoresAccounted
    <3>2. CASE ~hit
      <4>1. i = Unused /\ new = [stores EXCEPT ![i] = Store(scan.doc, scan.want)]
        BY <3>2
      <4>2. i \in StoreIds
        BY <2>2, <4>1, UnusedStore
      <4> HIDE DEF i, new, hit
      <4>3. \A j \in StoreIds : new[j] = IF j = i THEN Store(scan.doc, scan.want) ELSE stores[j]
        BY <4>1, <4>2 DEF ScanTyped
      <4> QED
        BY <4>2, <4>3, NewAccounted
    <3> QED
      BY <3>1, <3>2
  <2> HIDE DEF i, new, parallel, hit
  <2>4. scan'.store = i /\ scan'.doc = scan.doc /\ scan'.want = scan.want
    BY <1>0, <2>1 DEF ScanShape
  <2>5. \A j \in StoreIds \cap Referenced' : j = i \/ (j \in Referenced /\ new[j] = stores[j])
    BY <2>1, <2>3, <2>4 DEF Referenced
  <2>6. StoresAccounted'
    BY <1>0, <2>1, <2>3, <2>5, LiveAccounts
  <2>7. ScanAsks'
    BY <1>0, <2>1, <2>4 DEF ScanAsks, Versions
  <2> QED
    BY <2>6, <2>7
<1>5. CASE PlanSection
  <2>1. UNCHANGED <<slot, warm>> /\ scan.pc = "plan" /\ scan.next <= N
    BY <1>5 DEF PlanSection
  <2>2. CASE ScanReads(scan.next)
    <3>1. /\ StoresAccounted' /\ scan'.pc = scan.pc /\ scan'.want = scan.want
          /\ scan'.doc = scan.doc
      BY <1>0, <2>1, <2>2, ReadsAccount
    <3> QED
      BY <1>0, <3>1 DEF ScanAsks, Versions
  <2>3. CASE scan' = [scan EXCEPT !.pc = "pass", !.next = 1, !.parallel = FALSE] /\ UNCHANGED stores
    <3>1. scan'.store = scan.store /\ scan'.doc = scan.doc /\ scan'.want = scan.want
      BY <1>0, <2>3 DEF ScanShape
    <3>2. ScanAsks'
      BY <1>0, <2>1, <3>1 DEF ScanAsks, Versions
    <3> QED
      BY <1>0, <2>1, <2>3, <3>1, <3>2, ScanReferences, SameAccounts
  <2> QED
    BY <1>5, <2>2, <2>3 DEF PlanSection
<1>6. CASE PassSerial
  <2>1. /\ StoresAccounted' /\ scan'.pc = scan.pc /\ scan'.want = scan.want
        /\ scan'.doc = scan.doc
    BY <1>0, <1>6, ReadsAccount DEF PassSerial
  <2> QED
    BY <1>0, <2>1 DEF ScanAsks, Versions
<1>7. CASE PassParallel \/ ScanEnd
  <2>1. /\ UNCHANGED <<slot, warm>> /\ Live(stores) /\ scan.pc = "pass"
        /\ \/ scan'.store = None /\ scan'.pc \in {"idle", "lost"}
           \/ \E text : scan' = [scan EXCEPT !.next = scan.next + 1, !.text = text]
    <3>1. CASE PassParallel
      <4>1. \/ scan' = [NoScan EXCEPT !.pc = "lost"]
            \/ \E text : scan' = [scan EXCEPT !.next = scan.next + 1, !.text = text]
        BY <3>1 DEF PassParallel
      <4>2. [NoScan EXCEPT !.pc = "lost"].store = None /\ [NoScan EXCEPT !.pc = "lost"].pc = "lost"
        BY DEF NoScan
      <4> QED
        BY <3>1, <4>1, <4>2 DEF PassParallel
    <3>2. CASE ScanEnd
      BY <3>2 DEF ScanEnd, NoScan
    <3> QED
      BY <1>7, <3>1, <3>2
  <2>2. \/ scan'.store = None /\ scan'.pc \in {"idle", "lost"}
        \/ /\ scan'.store = scan.store /\ scan'.pc = scan.pc
           /\ scan'.want = scan.want /\ scan'.doc = scan.doc
    BY <1>0, <2>1 DEF ScanShape
  <2>3. Referenced' \cap StoreIds \subseteq Referenced
    BY <2>1, <2>2, ScanAssumption DEF Referenced
  <2>4. StoresAccounted'
    BY <1>0, <2>1, <2>3, LetsAccount
  <2>5. ScanAsks'
    BY <1>0, <2>1, <2>2 DEF ScanAsks, Versions
  <2> QED
    BY <2>4, <2>5
<1> QED
  BY <1>1, <1>2, <1>3, <1>4, <1>5, <1>6, <1>7 DEF Scan

\* A step of one warm that touches no store.
LEMMA WarmCounts ==
  ASSUME ScanTyped, StoresAccounted, UNCHANGED <<committed, slot, stores, scan>>, NEW d \in Opened,
         \A e \in Opened : WarmFills(e), NEW w, WarmShape(w), Becomes(d, w), w.store = warm[d].store,
         warm'[d] = w => WarmFills(d)'
  PROVE  StoresAccounted' /\ \A e \in Opened : WarmFills(e)'
<1>1. StoresAccounted'
  BY WarmReferences, SameAccounts
<1>2. \A e \in Opened : warm'[e] = IF e = d THEN w ELSE warm[e]
  BY BecomesTyped
<1>3. \A e \in Opened : WarmFills(e)'
  BY <1>2, FillsStay
<1> QED
  BY <1>1, <1>3

\* The slot's store, or a new one, as a warm finds it.
LEMMA StoreToCount ==
  ASSUME ScanTyped, TextInv, StoresAccounted, NEW d \in Opened, SlotForWarm(d)
  PROVE  Accounted(StoresForWarm(d)[StoreForWarm(d)])
<1>1. CASE slot = None
  <2>1. Unused \in StoreIds
    BY <1>1, UnusedStore
  <2>2. StoreForWarm(d) = Unused /\ StoresForWarm(d) = [stores EXCEPT ![Unused] = Store(d, warm[d].ver)]
    BY <1>1 DEF StoreForWarm, StoresForWarm
  <2>3. StoresForWarm(d)[StoreForWarm(d)] = Store(d, warm[d].ver)
    BY <2>1, <2>2 DEF ScanTyped
  <2> QED
    BY <2>3, NewAccounted
<1>2. CASE slot # None
  <2>1. StoreForWarm(d) = slot /\ StoresForWarm(d) = stores
    BY <1>2 DEF StoreForWarm, StoresForWarm
  <2>2. slot \in StoreIds \cap Referenced
    BY <1>2 DEF ScanTyped, Referenced
  <2> QED
    BY <2>1, <2>2 DEF StoresAccounted
<1> QED
  BY <1>1, <1>2

LEMMA NoWarmFills ==
  ASSUME NEW d \in Opened, warm'[d] = NoWarm
  PROVE  WarmFills(d)'
BY DEF WarmFills, NoWarm

\* A step of one warm that makes a store and lets go of others.
LEMMA WarmChanges ==
  ASSUME ScanTyped, StoresAccounted, UNCHANGED <<committed, scan>>, NEW d \in Opened,
         \A e \in Opened : WarmFills(e), NEW w, WarmShape(w), Becomes(d, w), NEW new, Live(new),
         NEW i \in StoreIds \cup {None}, slot' \in {i, slot, None}, w.store \in {i, warm[d].store, None},
         i \in StoreIds => Accounted(new[i]),
         \A j \in StoreIds \cap Referenced : j = i \/ new[j] = stores[j],
         warm'[d] = w => WarmFills(d)'
  PROVE  StoresAccounted' /\ \A e \in Opened : WarmFills(e)'
<1>1. \A e \in Opened : warm'[e] = IF e = d THEN w ELSE warm[e]
  BY BecomesTyped
<1>2. \A j \in StoreIds \cap Referenced' : j = i \/ j \in Referenced
  BY <1>1, ScanAssumption DEF Referenced
<1>3. StoresAccounted'
  BY <1>2, LiveAccounts
<1>4. \A e \in Opened : WarmFills(e)'
  BY <1>1, FillsStay
<1> QED
  BY <1>3, <1>4

LEMMA WarmAccounts ==
  ASSUME ScanTyped, TextInv, AccountInv, NEW d \in Opened, Warm(d)
  PROVE  StoresAccounted' /\ \A e \in Opened : WarmFills(e)'
<1>0. /\ StoresAccounted /\ (\A e \in Opened : WarmFills(e)) /\ WarmFills(d) /\ WarmShape(warm[d]) /\ WarmOf(d)
      /\ d \in Docs /\ None \notin StoreIds
  BY ScanAssumption DEF AccountInv, ScanTyped, TextInv, WarmInv
<1>1. ASSUME NEW v \in VersionsOf[d], Prewarm(d, v)
      PROVE  StoresAccounted' /\ \A e \in Opened : WarmFills(e)'
  <2> DEFINE w == [NoWarm EXCEPT !.pc = "meta", !.ver = v]
  <2>1. Becomes(d, w) /\ UNCHANGED <<committed, slot, stores, scan>> /\ warm[d].store = None
    BY <1>0, <1>1 DEF Prewarm, WarmOf, Holding
  <2>2. WarmShape(w) /\ w.store = None /\ w.pc = "meta" /\ w.ver = v /\ w.todo = {}
    BY NoWarmShape DEF NoWarm, WarmShape, WarmStages, Holding
  <2> HIDE DEF w
  <2>3. warm'[d] = w => WarmFills(d)'
    BY <1>0, <2>2, VersionsAre DEF WarmFills, Versions
  <2> QED
    BY <1>0, <2>1, <2>2, <2>3, WarmCounts
<1>2. CASE WarmStops(d)
  <2>1. Becomes(d, NoWarm) /\ UNCHANGED <<committed, slot, scan>> /\ Live(stores)
    BY <1>2 DEF WarmStops, Ends
  <2>2. NoWarm.store = None
    BY DEF NoWarm
  <2> QED
    BY <1>0, <2>1, <2>2, NoWarmShape, NoWarmFills, WarmChanges
<1>3. CASE WarmMark(d)
  <2> DEFINE i == StoreForWarm(d)
             new == [StoresForWarm(d) EXCEPT ![i] = OverCap(StoresForWarm(d)[i])]
  <2>1. Becomes(d, NoWarm) /\ UNCHANGED <<committed, scan>> /\ Live(new) /\ slot' = i /\ SlotForWarm(d)
    BY <1>3 DEF WarmMark, Ends
  <2>2. /\ i \in StoreIds /\ StoreShape(StoresForWarm(d)[i]) /\ DOMAIN StoresForWarm(d) = StoreIds
        /\ \A j \in StoreIds \cap Referenced : StoresForWarm(d)[j] = stores[j]
    BY <2>1, StoreToWarm
  <2> DEFINE old == StoresForWarm(d)
  <2>3. /\ new[i] = OverCap(old[i])
        /\ \A j \in StoreIds \cap Referenced : j = i \/ new[j] = stores[j]
    BY <2>2
  <2>4. Accounted(new[i])
    <3>1. Accounted(OverCap(old[i]))
      BY <2>2, OverCapAccounted
    <3> QED
      BY <2>3, <3>1
  <2>5. NoWarm.store = None
    BY DEF NoWarm
  <2> HIDE DEF i, new
  <2> QED
    BY <1>0, <2>1, <2>2, <2>3, <2>4, <2>5, NoWarmShape, NoWarmFills, WarmChanges
<1>4. CASE WarmInstall(d)
  <2> DEFINE i   == StoreForWarm(d)
             new == StoresForWarm(d)
             w   == [warm[d] EXCEPT !.pc = "check", !.store = i]
  <2>1. /\ Becomes(d, w) /\ Live(new) /\ slot' = i /\ UNCHANGED <<committed, scan>> /\ SlotForWarm(d)
        /\ warm[d].pc = "install"
    BY <1>4 DEF WarmInstall
  <2>2. i \in StoreIds /\ \A j \in StoreIds \cap Referenced : new[j] = stores[j]
    BY <2>1, StoreToWarm
  <2>3. Accounted(new[i])
    BY <1>0, <2>1, StoreToCount
  <2>4. WarmShape(w) /\ w.store = i /\ w.pc = "check" /\ w.todo = warm[d].todo
    BY <1>0, <2>2 DEF WarmShape, WarmStages, Holding
  <2> HIDE DEF i, new, w
  <2>5. warm'[d] = w => WarmFills(d)'
    BY <1>0, <2>1, <2>4 DEF WarmFills, Versions, Sections
  <2> QED
    BY <1>0, <2>1, <2>2, <2>3, <2>4, <2>5, WarmChanges
<1>5. CASE WarmMeta(d)
  <2> DEFINE w == [warm[d] EXCEPT !.pc = "held"]
  <2>1. /\ Becomes(d, w) /\ UNCHANGED <<committed, slot, stores, scan>>
        /\ warm[d].pc = "meta" /\ committed[d] = warm[d].ver
    BY <1>5 DEF WarmMeta
  <2>2. WarmShape(w) /\ w.store = warm[d].store /\ w.pc = "held" /\ w.todo = warm[d].todo
    BY <1>0 DEF WarmShape, WarmStages, Holding
  <2> HIDE DEF w
  <2>3. warm'[d] = w => WarmFills(d)'
    BY <1>0, <2>1, <2>2 DEF WarmFills, Versions, Sections
  <2> QED
    BY <1>0, <2>1, <2>2, <2>3, WarmCounts
<1>6. CASE WarmHeld(d)
  <2>1. UNCHANGED <<committed, slot, stores, scan>> /\ warm[d].pc = "held" /\ Cold(d) \subseteq Sections
    BY <1>6 DEF WarmHeld, Cold
  <2>0. PICK stage \in {"install", "measure"} :
          \E left : Becomes(d, [warm[d] EXCEPT !.pc = stage, !.todo = Cold(d), !.left = left])
    BY <1>6 DEF WarmHeld
  <2>2. PICK left : Becomes(d, [warm[d] EXCEPT !.pc = stage, !.todo = Cold(d), !.left = left])
    BY <2>0
  <2> DEFINE w == [warm[d] EXCEPT !.pc = stage, !.todo = Cold(d), !.left = left]
  <2>3. WarmShape(w) /\ w.store = warm[d].store /\ w.pc = stage /\ w.todo = Cold(d)
    BY <1>0 DEF WarmShape, WarmStages, Holding
  <2>4. Becomes(d, w)
    BY <2>2
  <2> HIDE DEF w
  <2>5. warm'[d] = w => WarmFills(d)'
    BY <1>0, <2>1, <2>3 DEF WarmFills, Versions, Sections
  <2> QED
    BY <1>0, <2>1, <2>3, <2>4, <2>5, WarmCounts
<1>7. CASE WarmMeasure(d)
  <2>1. UNCHANGED <<committed, slot, stores, scan>> /\ warm[d].pc = "measure"
    BY <1>7 DEF WarmMeasure
  <2>0. PICK stage \in {"measure", "mark", "install", "stop"} :
          \E total, left : Becomes(d, [warm[d] EXCEPT !.pc = stage, !.total = total, !.left = left])
    <3>1. \/ \E total, left : Becomes(d, [warm[d] EXCEPT !.total = total, !.left = left])
          \/ \E next \in {"mark", "install", "stop"} :
               Becomes(d, [warm[d] EXCEPT !.pc = next, !.total = 0, !.left = {}])
      BY <1>7 DEF WarmMeasure
    <3>2. \A total, left :
            [warm[d] EXCEPT !.total = total, !.left = left] =
            [warm[d] EXCEPT !.pc = "measure", !.total = total, !.left = left]
      BY <1>0, <2>1 DEF WarmShape
    <3> QED
      BY <3>1, <3>2
  <2>2. PICK total, left : Becomes(d, [warm[d] EXCEPT !.pc = stage, !.total = total, !.left = left])
    BY <2>0
  <2> DEFINE w == [warm[d] EXCEPT !.pc = stage, !.total = total, !.left = left]
  <2>3. WarmShape(w) /\ w.store = warm[d].store /\ w.pc = stage /\ w.todo = warm[d].todo
    BY <1>0 DEF WarmShape, WarmStages, Holding
  <2>4. Becomes(d, w)
    BY <2>2
  <2> HIDE DEF w
  <2>5. warm'[d] = w => WarmFills(d)'
    BY <1>0, <2>1, <2>3 DEF WarmFills, Versions, Sections
  <2> QED
    BY <1>0, <2>1, <2>3, <2>4, <2>5, WarmCounts
<1>8. CASE WarmCheck(d)
  <2>1. UNCHANGED <<committed, slot, stores, scan>> /\ warm[d].pc = "check" /\ warm[d].todo # {}
    BY <1>8 DEF WarmCheck
  <2>2. PICK stage \in {"check", "read"}, todo \in SUBSET warm[d].todo :
          /\ stage = "read" => todo = warm[d].todo
          /\ Becomes(d, [warm[d] EXCEPT !.pc = stage, !.todo = todo])
    <3>1. \/ Becomes(d, [warm[d] EXCEPT !.todo = warm[d].todo \ {Min(warm[d].todo)}])
          \/ Becomes(d, [warm[d] EXCEPT !.pc = "read"])
      BY <1>8 DEF WarmCheck
    <3>2. /\ \A todo : [warm[d] EXCEPT !.todo = todo] = [warm[d] EXCEPT !.pc = "check", !.todo = todo]
          /\ [warm[d] EXCEPT !.pc = "read"] = [warm[d] EXCEPT !.pc = "read", !.todo = warm[d].todo]
      BY <1>0, <2>1 DEF WarmShape
    <3> QED
      BY <3>1, <3>2
  <2> DEFINE w == [warm[d] EXCEPT !.pc = stage, !.todo = todo]
  <2>3. WarmShape(w) /\ w.store = warm[d].store /\ w.pc = stage /\ w.todo = todo
    BY <1>0 DEF WarmShape, WarmStages, Holding
  <2>4. Becomes(d, w)
    BY <2>2
  <2> HIDE DEF w
  <2>5. warm'[d] = w => WarmFills(d)'
    BY <1>0, <2>1, <2>2, <2>3 DEF WarmFills, Versions, Sections
  <2> QED
    BY <1>0, <2>1, <2>3, <2>4, <2>5, WarmCounts
<1>9. CASE WarmRead(d)
  <2> DEFINE w == [warm[d] EXCEPT !.pc = "insert", !.text = Loaded(d)]
  <2>1. Becomes(d, w) /\ UNCHANGED <<committed, slot, stores, scan>> /\ warm[d].pc = "read"
    BY <1>9 DEF WarmRead
  <2>2. /\ WarmShape(w) /\ w.store = warm[d].store /\ w.pc = "insert" /\ w.todo = warm[d].todo
        /\ w.text = Loaded(d)
    BY <1>0 DEF WarmShape, WarmStages, Holding
  <2>3. Loaded(d) \in TextSet
    BY <1>0, <2>1 DEF Loaded, TextSet, WarmFills
  <2> HIDE DEF w
  <2>4. warm'[d] = w => WarmFills(d)'
    BY <1>0, <2>1, <2>2, <2>3 DEF WarmFills, TextSet, Versions, Sections
  <2> QED
    BY <1>0, <2>1, <2>2, <2>4, WarmCounts
<1>10. CASE WarmInsert(d)
  <2> DEFINE i == warm[d].store
             x == Min(warm[d].todo)
             t == warm[d].text
             w == [warm[d] EXCEPT !.pc = "check", !.todo = @ \ {x}, !.text = None]
  <2>1. /\ Becomes(d, w) /\ UNCHANGED <<committed, slot, scan>> /\ warm[d].pc = "insert"
        /\ stores' = [stores EXCEPT ![i] = Insert(stores[i], x, t)]
    BY <1>10 DEF WarmInsert
  <2>2. WarmShape(w) /\ w.store = i /\ w.pc = "check" /\ w.todo = warm[d].todo \ {x}
    BY <1>0 DEF WarmShape, WarmStages, Holding
  <2>3. i \in StoreIds \cap Referenced
    BY <2>1, WarmHolds DEF Holding
  <2>4. x \in Sections /\ t \in TextSet
    <3>1. warm[d].todo \subseteq Sections /\ warm[d].todo # {} /\ t \in TextSet
      BY <1>0, <2>1 DEF WarmFills
    <3>2. x \in warm[d].todo
      BY <3>1, MinOfPart
    <3> QED
      BY <3>1, <3>2
  <2> HIDE DEF i, x, t, w
  <2>5. Referenced' = Referenced
    BY <2>1, <2>2, WarmReferences DEF i
  <2>6. StoresAccounted'
    <3>1. StoresInv
      BY DEF TextInv
    <3> QED
      BY <1>0, <2>1, <2>3, <2>4, <2>5, <3>1, InsertAccounts
  <2>7. \A e \in Opened : warm'[e] = IF e = d THEN w ELSE warm[e]
    BY <2>1, <2>2, BecomesTyped
  <2>8. WarmFills(d)'
    BY <1>0, <2>1, <2>2, <2>7 DEF WarmFills, Versions, Sections
  <2>9. \A e \in Opened : WarmFills(e)'
    BY <1>0, <2>1, <2>7, <2>8, FillsStay
  <2> QED
    BY <2>6, <2>9
<1> QED
  BY <1>1, <1>2, <1>3, <1>4, <1>5, <1>6, <1>7, <1>8, <1>9, <1>10 DEF Warm

LEMMA AccountStep ==
  ASSUME ScanTyped, TextInv, AccountInv, [ScanNext]_vars
  PROVE  AccountInv'
<1>0. StoresAccounted /\ ScanAsks /\ \A d \in Opened : WarmFills(d)
  BY DEF AccountInv
<1>1. CASE Scan
  <2>1. UNCHANGED <<committed, warm>>
    BY <1>1, ScanMoves
  <2>2. \A d \in Opened : WarmFills(d)'
    BY <1>0, <2>1, FillsStay
  <2> QED
    BY <1>1, <2>2, ScanAccounts DEF AccountInv
<1>2. ASSUME NEW d \in Opened, Warm(d) PROVE AccountInv'
  <2>1. UNCHANGED scan
    BY <1>2 DEF Warm, Prewarm, WarmStops, WarmMeta, WarmHeld, WarmMeasure, WarmMark, WarmInstall,
       WarmCheck, WarmRead, WarmInsert
  <2>2. ScanAsks'
    BY <1>0, <2>1 DEF ScanAsks, Versions
  <2> QED
    BY <1>2, <2>2, WarmAccounts DEF AccountInv
<1>3. ASSUME NEW w \in Writers, DropScanText(w) PROVE AccountInv'
  <2>1. Live(stores) /\ UNCHANGED <<committed, scan, warm>> /\ slot' = None
    BY <1>3 DEF DropScanText
  <2>2. Referenced' \cap StoreIds \subseteq Referenced
    BY <2>1, ScanAssumption DEF Referenced
  <2>3. StoresAccounted' /\ ScanAsks' /\ \A d \in Opened : WarmFills(d)'
    BY <1>0, <2>1, <2>2, LetsAccount, FillsStay DEF ScanAsks, Versions
  <2> QED
    BY <2>3 DEF AccountInv
<1>4. ASSUME NEW w \in Writers, NEW d \in Opened, NEW v \in VersionsOf[d], Commit(w, d, v)
      PROVE  AccountInv'
  <2>1. UNCHANGED <<slot, stores, scan, warm>> /\ committed' = [committed EXCEPT ![d] = v] /\ v \in Versions
    <3>1. d \in Docs
      BY ScanAssumption
    <3> QED
      BY <1>4, <3>1, VersionsAre DEF Commit
  <2>2. \A e \in Opened : committed'[e] = committed[e] \/ committed'[e] \in Versions
    BY <2>1 DEF ScanTyped
  <2>3. Referenced' = Referenced
    BY <2>1 DEF Referenced
  <2>4. StoresAccounted' /\ ScanAsks' /\ \A e \in Opened : WarmFills(e)'
    BY <1>0, <2>1, <2>2, <2>3, SameAccounts, FillsStay DEF ScanAsks, Versions
  <2> QED
    BY <2>4 DEF AccountInv
<1>5. CASE UNCHANGED vars
  <2>1. UNCHANGED <<committed, slot, stores, scan, warm>>
    BY <1>5 DEF vars
  <2>2. Referenced' = Referenced
    BY <2>1 DEF Referenced
  <2>3. StoresAccounted' /\ ScanAsks' /\ \A e \in Opened : WarmFills(e)'
    BY <1>0, <2>1, <2>2, SameAccounts, FillsStay DEF ScanAsks, Versions
  <2> QED
    BY <2>3 DEF AccountInv
<1> QED
  BY <1>1, <1>2, <1>3, <1>4, <1>5 DEF ScanNext

\* However scans, warms and writers interleave, a store's byte count is the sum over the texts it
\* holds, never above the cap, and a store over the cap holds nothing.
THEOREM StoresAreAccounted == ScanSpec => []CacheAccounted
<1>1. ScanInit => ScanTyped /\ TextInv /\ AccountInv
  <2>1. ASSUME ScanInit PROVE StoreIds \cap Referenced = {}
    BY <2>1, ScanAssumption DEF ScanInit, Referenced, NoScan, NoWarm
  <2>2. ASSUME ScanInit PROVE ScanInv /\ WarmInv /\ ScanAsks /\ \A d \in Opened : WarmFills(d)
    BY <2>2 DEF ScanInit, ScanInv, WarmInv, WarmOf, NoScan, NoWarm, Holding, ScanAsks, WarmFills
  <2>3. ASSUME ScanInit PROVE StoresInv /\ StoresAccounted
    BY <2>1, <2>3 DEF ScanInit, StoresInv, StoresAccounted
  <2> QED
    BY <2>2, <2>3, NothingBehind, NoScanShape, NoWarmShape DEF ScanInit, ScanTyped, TextInv, AccountInv
<1>2. ScanTyped /\ TextInv /\ AccountInv /\ [ScanNext]_vars => (ScanTyped /\ TextInv /\ AccountInv)'
  BY ScanTypedStep, ExactStep, AccountStep
<1>3. AccountInv => CacheAccounted
  <2> SUFFICES ASSUME AccountInv, NEW i \in StoreIds, stores[i] # None
               PROVE  LET s == stores[i]
                          kept == {x \in Sections : s.texts[x] # None}
                      IN /\ s.bytes = SumFunctionOnSet([x \in kept |-> Bytes[s.texts[x].ver][x]], kept)
                         /\ s.bytes <= Cap
                         /\ s.over => kept = {}
    BY DEF CacheAccounted
  <2> DEFINE s == stores[i]
  <2>1. Accounted(s)
    BY DEF AccountInv, StoresAccounted
  <2>2. s.bytes = SumFunctionOnSet(BytesHeld(s), Held(s)) /\ s.bytes <= Cap /\ (s.over => Held(s) = {})
    <3>1. Cap \in Nat
      BY ScanAssumption
    <3>2. s.bytes = SumFunctionOnSet(BytesHeld(s), Held(s)) /\ s.bytes \in 0..Cap /\ (s.over => Held(s) = {})
      BY <2>1, Zenon DEF Accounted
    <3> HIDE DEF s
    <3> QED
      BY <3>1, <3>2
  <2> QED
    BY <2>2, Zenon DEF BytesHeld, Held
<1> QED
  BY <1>1, <1>2, <1>3, PTL DEF ScanSpec

-----------------------------------------------------------------------------
(* The raw cache.                                                          *)

Reading  == {"readMeta", "readBody", "ask", "fetch", "emptyBody"}
Contents == Responses \cup {Absent, Partial, Mixed}

RawTyped ==
  /\ origin \in Responses
  /\ body \in Contents /\ meta \in Contents
  /\ pc \in [Requests -> {"idle"} \cup Reading \cup Storing]
  /\ held \in [Requests -> [meta : Contents, body : Contents]]
  /\ waiting \in [Requests -> BOOLEAN]
  /\ answered \subseteq Requests
  /\ served \in [Requests -> SUBSET Responses]
  /\ quiet \in [Requests -> BOOLEAN]
  /\ settled \in BOOLEAN
  /\ lone \in Requests \cup {Absent}
  /\ begun \in 0..2

\* What a retrieval stores is one response; a retrieval with an answer is over.
HeldInv ==
  /\ \A r \in Requests : pc[r] \in {"emptyBody"} \cup Storing => Whole(held[r])
  /\ \A r \in answered : pc[r] = "idle"
  /\ \A r \in Requests : waiting[r] => pc[r] # "idle"

-----------------------------------------------------------------------------
(* The first store of an entry.                                            *)

\* How far a store came that nothing disturbed, and what it left in the files.
StoreGoes(r) ==
  /\ pc[r] = "fillBody"  => body = Partial
  /\ pc[r] = "emptyMeta" => body = held[r].body
  /\ pc[r] = "fillMeta"  => body = held[r].body /\ meta = Partial

NeverStored ==
  /\ body = Absent /\ meta = Absent /\ answered = {}
  /\ \A r \in Requests : pc[r] \in {"idle", "readMeta", "fetch", "emptyBody"}

StoredOnce ==
  /\ body # Absent /\ meta # Mixed
  /\ meta \in Responses => body = meta /\ \A r \in Requests : pc[r] \notin Storing
  /\ \A r, q \in Requests : pc[r] \in Storing /\ pc[q] \in Storing => r = q
  /\ \A r \in Requests :
       /\ StoreGoes(r)
       /\ pc[r] \in {"fillBody", "emptyMeta"} => meta = Absent
       /\ pc[r] = "readBody" /\ held[r].meta \in Responses => meta = held[r].meta
       /\ pc[r] = "ask" => Whole(held[r])
  /\ \A r \in answered : Whole(held[r])

FirstInv ==
  /\ begun = 0 => NeverStored
  /\ begun = 1 => StoredOnce

-----------------------------------------------------------------------------
(* Stores that overlap nothing.                                            *)

\* The entry is settled while no store is under way and its files hold one response or none. The
\* last store that began alone is still alone, and the files are as far as it is.
SettledInv ==
  /\ settled =>
       /\ body = meta /\ body \in Responses \cup {Absent}
       /\ \A r \in Requests : pc[r] \notin Storing
  /\ \A r \in Requests :
       lone = r => StoreGoes(r) /\ \A q \in Requests \ {r} : pc[q] \notin Storing

\* What a retrieval knows: a quiet one holds what the settled files hold, and one that waits has seen
\* every response the origin served meanwhile.
QuietInv ==
  \A r \in Requests :
    /\ waiting[r] /\ origin \in Validated => origin \in served[r]
    /\ pc[r] \in Reading \ {"emptyBody"} => waiting[r]
    /\ quiet[r] /\ pc[r] # "idle" => waiting[r]
    /\ quiet[r] /\ pc[r] \in Reading => settled
    /\ quiet[r] /\ pc[r] = "readBody" => held[r].meta = meta
    /\ quiet[r] /\ pc[r] = "ask" => Whole(held[r])
    /\ quiet[r] /\ pc[r] \in {"emptyBody"} \cup Storing /\ held[r].meta \in Validated
         => held[r].meta \in served[r]

-----------------------------------------------------------------------------
(* Every step preserves them.                                              *)

LEMMA RawTypedStep ==
  ASSUME RawTyped, [RawNext]_rawVars
  PROVE  RawTyped'
<1> USE RawAssumption DEF RawTyped, Contents, Entry, NoEntry, Storing, Reading, files, aux
<1>1. ASSUME NEW v \in Responses, Serve(v) PROVE RawTyped'
  BY <1>1 DEF Serve
<1>2. ASSUME NEW r \in Requests, NEW refresh \in BOOLEAN, Begin(r, refresh) PROVE RawTyped'
  BY <1>2 DEF Begin
<1>3. ASSUME NEW r \in Requests, ReadMeta(r) PROVE RawTyped'
  BY <1>3 DEF ReadMeta, Goto
<1>4. ASSUME NEW r \in Requests, ReadBody(r) PROVE RawTyped'
  <2>1. held' \in [Requests -> [meta : Contents, body : Contents]]
    BY <1>4 DEF ReadBody
  <2>2. \/ Goto(r, "readBody", "fetch") \/ Goto(r, "readBody", "ask")
        \/ Return(r, "readBody", FALSE) \/ Return(r, "readBody", TRUE)
    BY <1>4 DEF ReadBody
  <2>3. /\ pc' \in [Requests -> {"idle"} \cup Reading \cup Storing]
        /\ waiting' \in [Requests -> BOOLEAN] /\ answered' \subseteq Requests
    BY <2>2 DEF Goto, Return
  <2>4. UNCHANGED <<origin, files, aux>>
    BY <1>4 DEF ReadBody
  <2> QED
    BY <2>1, <2>2, <2>3, <2>4
<1>5. ASSUME NEW r \in Requests, Ask(r) PROVE RawTyped'
  <2>1. CASE origin = held[r].meta
    <3>1. Return(r, "ask", TRUE) /\ UNCHANGED <<held, origin, files, aux>>
      BY <1>5, <2>1 DEF Ask
    <3> QED
      BY <3>1 DEF Return
  <2>2. CASE origin # held[r].meta
    <3>1. /\ Goto(r, "ask", "emptyBody") /\ UNCHANGED <<origin, files, aux>>
          /\ held' = [held EXCEPT ![r] = Entry(origin, origin)]
      BY <1>5, <2>2 DEF Ask
    <3> QED
      BY <3>1 DEF Goto
  <2> QED
    BY <2>1, <2>2
<1>6. ASSUME NEW r \in Requests, Fetch(r) PROVE RawTyped'
  BY <1>6 DEF Fetch, Goto
<1>7. ASSUME NEW r \in Requests, EmptyBody(r) PROVE RawTyped'
  <2>1. lone' \in Requests \cup {Absent} /\ begun' \in 0..2
    BY <1>7 DEF EmptyBody, BeginStore
  <2>2. /\ pc' \in [Requests -> {"idle"} \cup Reading \cup Storing]
        /\ quiet' \in [Requests -> BOOLEAN] /\ settled' \in BOOLEAN /\ body' \in Contents
    BY <1>7 DEF EmptyBody, BeginStore
  <2> QED
    BY <1>7, <2>1, <2>2 DEF EmptyBody, BeginStore
<1>8. ASSUME NEW r \in Requests, FillBody(r) PROVE RawTyped'
  BY <1>8 DEF FillBody, Goto, Filled
<1>9. ASSUME NEW r \in Requests, EmptyMeta(r) PROVE RawTyped'
  BY <1>9 DEF EmptyMeta
<1>10. ASSUME NEW r \in Requests, FillMeta(r) PROVE RawTyped'
  BY <1>10 DEF FillMeta, Return, Filled
<1>11. ASSUME NEW r \in Requests, Fail(r) PROVE RawTyped'
  BY <1>11 DEF Fail, Return, NoAnswer
<1>12. ASSUME NEW r \in Requests, Cancel(r) PROVE RawTyped'
  BY <1>12 DEF Cancel, Abandoned, NoAnswer
<1>13. CASE Crash
  BY <1>13 DEF Crash, NoAnswer
<1>14. CASE UNCHANGED rawVars
  BY <1>14 DEF rawVars
<1> QED
  BY <1>1, <1>2, <1>3, <1>4, <1>5, <1>6, <1>7, <1>8, <1>9, <1>10, <1>11, <1>12, <1>13, <1>14 DEF RawNext, Step

\* A retrieval its caller dropped is over, or goes on with the write it is in.
Dropped(r) ==
  /\ \A q \in Requests \ {r} :
       /\ pc'[q] = pc[q] /\ held'[q] = held[q] /\ waiting'[q] = waiting[q]
       /\ served'[q] = served[q] /\ quiet'[q] = quiet[q]
  /\ waiting'[r] = FALSE /\ quiet'[r] = FALSE
  /\ \/ pc'[r] = "idle"
     \/ pc[r] \in {"emptyBody"} \cup Storing /\ pc'[r] = pc[r] /\ held'[r] = held[r]
  /\ r \in answered => held'[r] = held[r]
  /\ UNCHANGED <<origin, files, answered, settled, lone, begun>>

LEMMA CancelDrops ==
  ASSUME RawTyped, HeldInv, NEW r \in Requests, Cancel(r)
  PROVE  Dropped(r)
<1>1. PICK p \in Abandoned(pc[r]) :
        /\ pc' = [pc EXCEPT ![r] = p]
        /\ held' = [held EXCEPT ![r] = IF p = "idle" THEN NoEntry ELSE @]
  BY DEF Cancel
<1>2. p = "idle" \/ (p = pc[r] /\ p \in {"emptyBody"} \cup Storing /\ p # "idle")
  BY DEF Abandoned, Storing
<1> QED
  BY <1>1, <1>2 DEF Dropped, Cancel, NoAnswer, HeldInv, RawTyped

LEMMA HeldStep ==
  ASSUME RawTyped, HeldInv, [RawNext]_rawVars
  PROVE  HeldInv'
<1> USE RawAssumption DEF RawTyped, Contents, HeldInv, Whole, Entry, NoEntry, Storing, Reading, files, aux
<1>1. ASSUME NEW v \in Responses, Serve(v) PROVE HeldInv'
  BY <1>1 DEF Serve
<1>2. ASSUME NEW r \in Requests, NEW refresh \in BOOLEAN, Begin(r, refresh) PROVE HeldInv'
  BY <1>2 DEF Begin
<1>3. ASSUME NEW r \in Requests, ReadMeta(r) PROVE HeldInv'
  BY <1>3 DEF ReadMeta, Goto
<1>4. ASSUME NEW r \in Requests, ReadBody(r) PROVE HeldInv'
  BY <1>4 DEF ReadBody, Goto, Return
<1>5. ASSUME NEW r \in Requests, Ask(r) PROVE HeldInv'
  BY <1>5 DEF Ask, Goto, Return
<1>6. ASSUME NEW r \in Requests, Fetch(r) PROVE HeldInv'
  BY <1>6 DEF Fetch, Goto
<1>7. ASSUME NEW r \in Requests, EmptyBody(r) PROVE HeldInv'
  BY <1>7 DEF EmptyBody, BeginStore
<1>8. ASSUME NEW r \in Requests, FillBody(r) PROVE HeldInv'
  BY <1>8 DEF FillBody, Goto, Filled
<1>9. ASSUME NEW r \in Requests, EmptyMeta(r) PROVE HeldInv'
  BY <1>9 DEF EmptyMeta
<1>10. ASSUME NEW r \in Requests, FillMeta(r) PROVE HeldInv'
  BY <1>10 DEF FillMeta, Return, Filled
<1>11. ASSUME NEW r \in Requests, Fail(r) PROVE HeldInv'
  BY <1>11 DEF Fail, Return, NoAnswer
<1>12. ASSUME NEW r \in Requests, Cancel(r) PROVE HeldInv'
  <2>1. Dropped(r)
    BY ONLY RawTyped, HeldInv, <1>12, CancelDrops
  <2> QED
    BY <2>1 DEF Dropped
<1>13. CASE Crash
  BY <1>13 DEF Crash, NoAnswer
<1>14. CASE UNCHANGED rawVars
  BY <1>14 DEF rawVars
<1> QED
  BY <1>1, <1>2, <1>3, <1>4, <1>5, <1>6, <1>7, <1>8, <1>9, <1>10, <1>11, <1>12, <1>13, <1>14 DEF RawNext, Step

LEMMA FirstStep ==
  ASSUME RawTyped, HeldInv, FirstInv, [RawNext]_rawVars
  PROVE  FirstInv'
<1> USE RawAssumption DEF RawTyped, Contents, HeldInv, FirstInv, NeverStored, StoredOnce, StoreGoes, Whole, Entry, NoEntry, Storing, Reading, files, aux
<1>1. ASSUME NEW v \in Responses, Serve(v) PROVE FirstInv'
  BY <1>1 DEF Serve
<1>2. ASSUME NEW r \in Requests, NEW refresh \in BOOLEAN, Begin(r, refresh) PROVE FirstInv'
  BY <1>2 DEF Begin
<1>3. ASSUME NEW r \in Requests, ReadMeta(r) PROVE FirstInv'
  BY <1>3 DEF ReadMeta, Goto
<1>4. ASSUME NEW r \in Requests, ReadBody(r) PROVE FirstInv'
  BY <1>4 DEF ReadBody, Goto, Return
<1>5. ASSUME NEW r \in Requests, Ask(r) PROVE FirstInv'
  <2>1. begun' = begun /\ (begun = 1 => Whole(held[r])) /\ begun # 0
    BY <1>5 DEF Ask, Goto, Return
  <2>2. CASE origin = held[r].meta
    <3>1. Return(r, "ask", TRUE) /\ UNCHANGED <<held, origin, files, aux>>
      BY <1>5, <2>2 DEF Ask
    <3> QED
      BY <2>1, <3>1 DEF Return
  <2>3. CASE origin # held[r].meta
    <3>1. /\ Goto(r, "ask", "emptyBody") /\ UNCHANGED <<origin, files, aux>>
          /\ held' = [held EXCEPT ![r] = Entry(origin, origin)]
      BY <1>5, <2>3 DEF Ask
    <3> QED
      BY <2>1, <3>1 DEF Goto
  <2> QED
    BY <2>2, <2>3
<1>6. ASSUME NEW r \in Requests, Fetch(r) PROVE FirstInv'
  BY <1>6 DEF Fetch, Goto
<1>7. ASSUME NEW r \in Requests, EmptyBody(r) PROVE FirstInv'
  <2>1. CASE begun = 0
    BY <1>7, <2>1 DEF EmptyBody, BeginStore
  <2>2. CASE begun # 0
    <3>1. begun' = 2
      BY <1>7, <2>2 DEF EmptyBody, BeginStore
    <3> QED
      BY <3>1
  <2> QED
    BY <2>1, <2>2
<1>8. ASSUME NEW r \in Requests, FillBody(r) PROVE FirstInv'
  BY <1>8 DEF FillBody, Goto, Filled
<1>9. ASSUME NEW r \in Requests, EmptyMeta(r) PROVE FirstInv'
  BY <1>9 DEF EmptyMeta
<1>10. ASSUME NEW r \in Requests, FillMeta(r) PROVE FirstInv'
  BY <1>10 DEF FillMeta, Return, Filled
<1>11. ASSUME NEW r \in Requests, Fail(r) PROVE FirstInv'
  BY <1>11 DEF Fail, Return, NoAnswer
<1>12. ASSUME NEW r \in Requests, Cancel(r) PROVE FirstInv'
  <2>1. Dropped(r)
    BY ONLY RawTyped, HeldInv, <1>12, CancelDrops
  <2> QED
    BY <2>1 DEF Dropped
<1>13. CASE Crash
  BY <1>13 DEF Crash, NoAnswer
<1>14. CASE UNCHANGED rawVars
  BY <1>14 DEF rawVars
<1> QED
  BY <1>1, <1>2, <1>3, <1>4, <1>5, <1>6, <1>7, <1>8, <1>9, <1>10, <1>11, <1>12, <1>13, <1>14 DEF RawNext, Step

LEMMA SettledStep ==
  ASSUME RawTyped, HeldInv, SettledInv, [RawNext]_rawVars
  PROVE  SettledInv'
<1> USE RawAssumption DEF RawTyped, Contents, HeldInv, SettledInv, StoreGoes, Whole, Entry, NoEntry, Storing, Reading, files, aux
<1>1. ASSUME NEW v \in Responses, Serve(v) PROVE SettledInv'
  BY <1>1 DEF Serve
<1>2. ASSUME NEW r \in Requests, NEW refresh \in BOOLEAN, Begin(r, refresh) PROVE SettledInv'
  BY <1>2 DEF Begin
<1>3. ASSUME NEW r \in Requests, ReadMeta(r) PROVE SettledInv'
  BY <1>3 DEF ReadMeta, Goto
<1>4. ASSUME NEW r \in Requests, ReadBody(r) PROVE SettledInv'
  BY <1>4 DEF ReadBody, Goto, Return
<1>5. ASSUME NEW r \in Requests, Ask(r) PROVE SettledInv'
  BY <1>5 DEF Ask, Goto, Return
<1>6. ASSUME NEW r \in Requests, Fetch(r) PROVE SettledInv'
  BY <1>6 DEF Fetch, Goto
<1>7. ASSUME NEW r \in Requests, EmptyBody(r) PROVE SettledInv'
  BY <1>7 DEF EmptyBody, BeginStore
<1>8. ASSUME NEW r \in Requests, FillBody(r) PROVE SettledInv'
  BY <1>8 DEF FillBody, Goto, Filled
<1>9. ASSUME NEW r \in Requests, EmptyMeta(r) PROVE SettledInv'
  BY <1>9 DEF EmptyMeta
<1>10. ASSUME NEW r \in Requests, FillMeta(r) PROVE SettledInv'
  BY <1>10 DEF FillMeta, Return, Filled
<1>11. ASSUME NEW r \in Requests, Fail(r) PROVE SettledInv'
  BY <1>11 DEF Fail, Return, NoAnswer
<1>12. ASSUME NEW r \in Requests, Cancel(r) PROVE SettledInv'
  <2>1. Dropped(r)
    BY ONLY RawTyped, HeldInv, <1>12, CancelDrops
  <2> QED
    BY <2>1 DEF Dropped
<1>13. CASE Crash
  BY <1>13 DEF Crash, NoAnswer
<1>14. CASE UNCHANGED rawVars
  BY <1>14 DEF rawVars
<1> QED
  BY <1>1, <1>2, <1>3, <1>4, <1>5, <1>6, <1>7, <1>8, <1>9, <1>10, <1>11, <1>12, <1>13, <1>14 DEF RawNext, Step

LEMMA QuietStep ==
  ASSUME RawTyped, HeldInv, SettledInv, QuietInv, [RawNext]_rawVars
  PROVE  QuietInv'
<1> USE RawAssumption DEF RawTyped, Contents, HeldInv, SettledInv, QuietInv, Whole, Entry, NoEntry, Storing, Reading, files, aux
<1>1. ASSUME NEW v \in Responses, Serve(v) PROVE QuietInv'
  BY <1>1 DEF Serve
<1>2. ASSUME NEW r \in Requests, NEW refresh \in BOOLEAN, Begin(r, refresh) PROVE QuietInv'
  BY <1>2 DEF Begin
<1>3. ASSUME NEW r \in Requests, ReadMeta(r) PROVE QuietInv'
  BY <1>3 DEF ReadMeta, Goto
<1>4. ASSUME NEW r \in Requests, ReadBody(r) PROVE QuietInv'
  BY <1>4 DEF ReadBody, Goto, Return
<1>5. ASSUME NEW r \in Requests, Ask(r) PROVE QuietInv'
  BY <1>5 DEF Ask, Goto, Return
<1>6. ASSUME NEW r \in Requests, Fetch(r) PROVE QuietInv'
  BY <1>6 DEF Fetch, Goto
<1>7. ASSUME NEW r \in Requests, EmptyBody(r) PROVE QuietInv'
  <2>1. \A q \in Requests : quiet'[q] = (quiet[q] /\ q = r)
    BY <1>7, ZenonT(20) DEF EmptyBody, BeginStore
  <2>2. \A q \in Requests : quiet'[q] => quiet[q] /\ q = r
    BY ONLY <2>1
  <2>3. pc[r] = "emptyBody" /\ pc'[r] = "fillBody"
    BY <1>7 DEF EmptyBody, BeginStore
  <2>4. /\ UNCHANGED <<origin, held, waiting, served>>
        /\ \A q \in Requests \ {r} : pc'[q] = pc[q]
    BY <1>7 DEF EmptyBody, BeginStore
  <2> QED
    BY <2>1, <2>2, <2>3, <2>4
<1>8. ASSUME NEW r \in Requests, FillBody(r) PROVE QuietInv'
  BY <1>8 DEF FillBody, Goto, Filled
<1>9. ASSUME NEW r \in Requests, EmptyMeta(r) PROVE QuietInv'
  BY <1>9 DEF EmptyMeta
<1>10. ASSUME NEW r \in Requests, FillMeta(r) PROVE QuietInv'
  BY <1>10 DEF FillMeta, Return, Filled
<1>11. ASSUME NEW r \in Requests, Fail(r) PROVE QuietInv'
  BY <1>11 DEF Fail, Return, NoAnswer
<1>12. ASSUME NEW r \in Requests, Cancel(r) PROVE QuietInv'
  <2>1. Dropped(r)
    BY ONLY RawTyped, HeldInv, <1>12, CancelDrops
  <2> QED
    BY <2>1 DEF Dropped
<1>13. CASE Crash
  BY <1>13 DEF Crash, NoAnswer
<1>14. CASE UNCHANGED rawVars
  BY <1>14 DEF rawVars
<1> QED
  BY <1>1, <1>2, <1>3, <1>4, <1>5, <1>6, <1>7, <1>8, <1>9, <1>10, <1>11, <1>12, <1>13, <1>14 DEF RawNext, Step

LEMMA QuietAnswersStep ==
  ASSUME RawTyped, HeldInv, SettledInv, QuietInv, QuietAnswersCurrent, [RawNext]_rawVars
  PROVE  QuietAnswersCurrent'
<1> USE RawAssumption DEF RawTyped, Contents, HeldInv, SettledInv, QuietInv, QuietAnswersCurrent, Whole, Entry, NoEntry, Storing, Reading, files, aux
<1>1. ASSUME NEW v \in Responses, Serve(v) PROVE QuietAnswersCurrent'
  BY <1>1 DEF Serve
<1>2. ASSUME NEW r \in Requests, NEW refresh \in BOOLEAN, Begin(r, refresh) PROVE QuietAnswersCurrent'
  BY <1>2 DEF Begin
<1>3. ASSUME NEW r \in Requests, ReadMeta(r) PROVE QuietAnswersCurrent'
  BY <1>3 DEF ReadMeta, Goto
<1>4. ASSUME NEW r \in Requests, ReadBody(r) PROVE QuietAnswersCurrent'
  BY <1>4 DEF ReadBody, Goto, Return
<1>5. ASSUME NEW r \in Requests, Ask(r) PROVE QuietAnswersCurrent'
  BY <1>5 DEF Ask, Goto, Return
<1>6. ASSUME NEW r \in Requests, Fetch(r) PROVE QuietAnswersCurrent'
  BY <1>6 DEF Fetch, Goto
<1>7. ASSUME NEW r \in Requests, EmptyBody(r) PROVE QuietAnswersCurrent'
  BY <1>7 DEF EmptyBody, BeginStore
<1>8. ASSUME NEW r \in Requests, FillBody(r) PROVE QuietAnswersCurrent'
  BY <1>8 DEF FillBody, Goto, Filled
<1>9. ASSUME NEW r \in Requests, EmptyMeta(r) PROVE QuietAnswersCurrent'
  BY <1>9 DEF EmptyMeta
<1>10. ASSUME NEW r \in Requests, FillMeta(r) PROVE QuietAnswersCurrent'
  BY <1>10 DEF FillMeta, Return, Filled
<1>11. ASSUME NEW r \in Requests, Fail(r) PROVE QuietAnswersCurrent'
  BY <1>11 DEF Fail, Return, NoAnswer
<1>12. ASSUME NEW r \in Requests, Cancel(r) PROVE QuietAnswersCurrent'
  <2>1. Dropped(r)
    BY ONLY RawTyped, HeldInv, <1>12, CancelDrops
  <2> QED
    BY <2>1 DEF Dropped
<1>13. CASE Crash
  BY <1>13 DEF Crash, NoAnswer
<1>14. CASE UNCHANGED rawVars
  BY <1>14 DEF rawVars
<1> QED
  BY <1>1, <1>2, <1>3, <1>4, <1>5, <1>6, <1>7, <1>8, <1>9, <1>10, <1>11, <1>12, <1>13, <1>14 DEF RawNext, Step

-----------------------------------------------------------------------------
(* The theorems.                                                           *)

RawInv == RawTyped /\ HeldInv /\ FirstInv /\ SettledInv /\ QuietInv /\ QuietAnswersCurrent

LEMMA RawInvHolds == RawSpec => []RawInv
<1>1. RawInit => RawInv
  BY RawAssumption
     DEF RawInit, RawInv, RawTyped, Contents, HeldInv, FirstInv, NeverStored, StoredOnce, SettledInv, StoreGoes, QuietInv,
         QuietAnswersCurrent, Entry, NoEntry, Storing, Reading, Whole
<1>2. RawInv /\ [RawNext]_rawVars => RawInv'
  BY RawTypedStep, HeldStep, FirstStep, SettledStep, QuietStep, QuietAnswersStep DEF RawInv
<1> QED
  BY <1>1, <1>2, PTL DEF RawSpec

\* An answer no store overlapped, of an entry whose last store ran alone to its end, is one whole
\* response, and one the origin served while the retrieval ran if it has validators to ask for.
THEOREM QuietAnswersAreCurrent == RawSpec => []QuietAnswersCurrent
<1>1. RawInv => QuietAnswersCurrent
  BY DEF RawInv
<1> QED
  BY <1>1, RawInvHolds, PTL

\* While put() was begun once at most on the entry, however it was interrupted and whoever reads it
\* meanwhile, no retrieval returns the body of one response with the metadata of another.
THEOREM FirstStoreIsSafe == RawSpec => []FirstStoreSafe
<1>1. RawInv => FirstStoreSafe
  <2> SUFFICES ASSUME RawInv, begun <= 1, NEW r \in answered PROVE Whole(held[r])
    BY DEF FirstStoreSafe
  <2>1. begun = 0 \/ begun = 1
    BY DEF RawInv, RawTyped
  <2> QED
    BY <2>1 DEF RawInv, FirstInv, StoredOnce, NeverStored
<1> QED
  BY <1>1, RawInvHolds, PTL
=============================================================================
