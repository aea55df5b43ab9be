---------------------------- MODULE ScanTextCache ----------------------------
(***************************************************************************)
(* The scan text cache of SqliteTextUnitIndex: one slot per process with   *)
(* the section texts of the document searched last, filled by the lexical  *)
(* scan of a search and by the background warm an open starts.             *)
(*                                                                         *)
(* A scan holds the connection mutex from its check of the stored hash to  *)
(* its last section. A warm takes the mutex for one read at a time and     *)
(* touches the cache between the reads; a writer commits under the mutex   *)
(* and empties the slot after it let go of it, unless its caller went away.*)
(* The slot and the text of one store have locks of their own, held for    *)
(* one operation: each is a step here. A store lives while the slot, the   *)
(* scan or a warm holds an Arc to it.                                      *)
(*                                                                         *)
(* The model has one scan at a time, which the mutex enforces once it is   *)
(* running; every section passes the prefilter. What a warm may skip for   *)
(* its deadline, an error or a section above 8 MiB is WarmStops, which it  *)
(* may always do.                                                          *)
(***************************************************************************)
EXTENDS Integers, FiniteSets, FiniteSetsExt, Functions

CONSTANTS
  Docs,        \* documents, each with its own doc_key
  VersionsOf,  \* [Docs -> sets of versions], the normalized hashes it may have
  Opened,      \* those that are opened again, so re-stored and warmed
  Writers,     \* ingests that may replace a document's segmentation
  N,           \* sections of every document
  Chars,       \* [versions -> [1..N -> Nat]], section_layout_v2.char_len
  Bytes,       \* what ScanSectionText::bytes is for that text
  Estimate,    \* what stored_section_text_bytes says of it
  Cap,         \* READING_MCP_SEARCH_CACHE_MIB, in bytes
  Parallel,    \* the versions long enough for a scan on several threads
  StoreIds,    \* names for the live Arc<ScanTextStore>s
  None

Versions == UNION {VersionsOf[d] : d \in Docs}
Sections == 1..N

ASSUME ScanAssumption ==
  /\ N \in Nat \ {0}
  /\ Cap \in Nat \ {0}
  /\ \A f \in {Chars, Bytes, Estimate} : f \in [Versions -> [Sections -> Nat]]
  /\ Parallel \subseteq Versions
  /\ Opened \subseteq Docs /\ IsFiniteSet(Opened)
  /\ IsFiniteSet(StoreIds) /\ Cardinality(StoreIds) >= Cardinality(Opened) + 2
  /\ None \notin StoreIds \cup [doc : Docs, ver : Versions]

VARIABLES
  committed,  \* the version the text-unit tables hold of a document, or None
  slot,       \* the store in the cache slot, or None
  stores,     \* the ScanTextStores that are referenced
  scan,       \* the scan that waits for or holds the connection mutex
  warm,       \* the warm of each document: `prewarming` allows one
  dropping,   \* the writers that committed and have not emptied the slot yet
  behind,     \* auxiliary: reads a warm made while this scan's caller waited
  tainted     \* auxiliary: documents re-stored while a warm of them ran

vars == <<committed, slot, stores, scan, warm, dropping, behind, tainted>>

Nothing == [d \in Opened |-> 0]

Store(d, v) ==
  [doc |-> d, ver |-> v, texts |-> [x \in Sections |-> None], bytes |-> 0, over |-> FALSE]

\* Nobody waits, nothing runs.
NoScan == [pc |-> "idle", doc |-> None, want |-> None, store |-> None, next |-> 1,
           parallel |-> FALSE, guard |-> FALSE, text |-> None]
NoWarm == [pc |-> "idle", ver |-> None, store |-> None, todo |-> {}, left |-> {},
           total |-> 0, text |-> None]

ScanInit ==
  /\ committed \in {f \in [Docs -> Versions \cup {None}] :
                      /\ \A d \in Opened : f[d] \in VersionsOf[d] \cup {None}
                      /\ \A d \in Docs \ Opened : f[d] \in VersionsOf[d]}
  /\ slot = None
  /\ stores = [i \in StoreIds |-> None]
  /\ scan = NoScan
  /\ warm = [d \in Opened |-> NoWarm]
  /\ dropping = {}
  /\ behind = Nothing
  /\ tainted = {}

-----------------------------------------------------------------------------
(* The stores.                                                             *)

\* Mutant: a store is recognised by its document alone.
MatchesDocument(s, d, v) == s.doc = d

\* ScanTextStore::matches: the stored row and the normalized text.
Matches(s, d, v) == s.doc = d /\ s.ver = v

OverCap(s) ==
  [s EXCEPT !.texts = [x \in Sections |-> None], !.bytes = 0, !.over = TRUE]

\* Mutant: the section is counted again when the other filler has stored it.
InsertTwice(s, x, t) ==
  LET bytes == s.bytes + Bytes[t.ver][x] IN
  CASE s.over       -> s
    [] ~s.over /\ bytes > Cap -> OverCap(s)
    [] OTHER        -> [s EXCEPT !.texts = [@ EXCEPT ![x] = t], !.bytes = bytes]

\* ScanTextStore::insert.
Insert(s, x, t) ==
  LET bytes == s.bytes + Bytes[t.ver][x] IN
  CASE s.over \/ s.texts[x] # None -> s
    [] ~s.over /\ s.texts[x] = None /\ bytes > Cap -> OverCap(s)
    [] OTHER -> [s EXCEPT !.texts = [@ EXCEPT ![x] = t], !.bytes = bytes]

\* What an Arc is held to.
Referenced == {slot, scan.store} \cup {warm[d].store : d \in Opened}

\* The stores after a step that made them `new`: those without an Arc are gone.
Live(new) ==
  /\ stores' = [i \in StoreIds |-> IF i \in Referenced' THEN new[i] ELSE None]
  /\ tainted' = {d \in tainted : \/ warm'[d].pc # "idle"
                                  \/ \E i \in Referenced' \ {None} : new[i].doc = d}

Unused == CHOOSE i \in StoreIds : i \notin Referenced

\* What the tables hold of a document: its text of any section.
Loaded(d) == [doc |-> d, ver |-> committed[d]]

\* The connection mutex is free: a scan waiting for it does not hold it.
MutexFree == scan.pc \in {"idle", "queued", "lost"}

\* ForegroundSignal::busy: the caller of the scan is still there.
Busy == scan.guard

-----------------------------------------------------------------------------
(* The scan of a search: scan_lexical.                                     *)

\* The caller counts as foreground from here on.
ScanEnter(d, v) ==
  /\ scan.pc \in {"idle", "lost"}
  /\ scan' = [NoScan EXCEPT !.pc = "queued", !.doc = d, !.want = v, !.guard = TRUE]
  /\ behind' = Nothing
  /\ UNCHANGED <<committed, slot, stores, warm, dropping, tainted>>

\* A deadline drops the caller and its guard; the blocking job goes on.
ScanAbandon ==
  /\ scan.guard
  /\ scan' = [scan EXCEPT !.guard = FALSE]
  /\ behind' = Nothing
  /\ UNCHANGED <<committed, slot, stores, warm, dropping, tainted>>

\* Text of another version, or none, is no answer at all.
ScanRefuse ==
  /\ scan.pc = "queued"
  /\ committed[scan.doc] # scan.want
  /\ scan' = NoScan
  /\ behind' = Nothing
  /\ UNCHANGED <<committed, slot, stores, warm, dropping, tainted>>

\* scan_text_store: the slot's store if it is this document's, else a new one.
ScanBegin ==
  /\ scan.pc = "queued"
  /\ committed[scan.doc] = scan.want
  /\ LET hit == slot # None /\ Matches(stores[slot], scan.doc, scan.want)
         i   == IF hit THEN slot ELSE Unused
         new == IF hit THEN stores
                ELSE [stores EXCEPT ![i] = Store(scan.doc, scan.want)]
     IN /\ slot' = i
        /\ scan' = [scan EXCEPT !.pc = "plan", !.store = i,
                      !.parallel = scan.want \in Parallel /\ ~new[i].over]
        /\ UNCHANGED warm
        /\ Live(new)
  /\ UNCHANGED <<committed, dropping, behind>>

\* scan_section_text: from the store, else from SQLite and into the store.
ScanReads(x) ==
  LET s == stores[scan.store]
      t == IF s.texts[x] # None THEN s.texts[x] ELSE Loaded(scan.doc)
  IN /\ scan' = [scan EXCEPT !.next = x + 1, !.text = t]
     /\ stores' = [stores EXCEPT ![scan.store] = Insert(s, x, t)]

\* plan_sections: a parallel plan that outgrew the cap starts over serially.
PlanSection ==
  /\ scan.pc = "plan" /\ scan.next <= N
  /\ IF scan.parallel /\ scan.next > 1 /\ stores[scan.store].over
     THEN /\ scan' = [scan EXCEPT !.pc = "pass", !.next = 1, !.parallel = FALSE]
          /\ UNCHANGED stores
     ELSE ScanReads(scan.next)
  /\ UNCHANGED <<committed, slot, warm, dropping, behind, tainted>>

PlanDone ==
  /\ scan.pc = "plan" /\ scan.next = N + 1
  /\ scan' = [scan EXCEPT !.pc = "pass", !.next = 1,
                          !.parallel = @ /\ ~stores[scan.store].over]
  /\ UNCHANGED <<committed, slot, stores, warm, dropping, behind, tainted>>

\* scan_planned_serial and scan_sections_interleaved.
PassSerial ==
  /\ scan.pc = "pass" /\ ~scan.parallel /\ scan.next <= N
  /\ ScanReads(scan.next)
  /\ UNCHANGED <<committed, slot, warm, dropping, behind, tainted>>

\* scan_planned_parallel: the workers read the store alone.
PassParallel ==
  /\ scan.pc = "pass" /\ scan.parallel /\ scan.next <= N
  /\ LET t == stores[scan.store].texts[scan.next] IN
     /\ scan' = IF t = None
                THEN [NoScan EXCEPT !.pc = "lost"]
                ELSE [scan EXCEPT !.next = @ + 1, !.text = t]
     /\ behind' = IF t = None THEN Nothing ELSE behind
  /\ UNCHANGED <<slot, warm>>
  /\ Live(stores)
  /\ UNCHANGED <<committed, dropping>>

ScanEnd ==
  /\ scan.pc = "pass" /\ scan.next = N + 1
  /\ scan' = NoScan
  /\ behind' = Nothing
  /\ UNCHANGED <<slot, warm>>
  /\ Live(stores)
  /\ UNCHANGED <<committed, dropping>>

Scan ==
  \/ \E d \in Docs : \E v \in VersionsOf[d] : ScanEnter(d, v)
  \/ ScanAbandon \/ ScanRefuse \/ ScanBegin
  \/ PlanSection \/ PlanDone \/ PassSerial \/ PassParallel \/ ScanEnd

-----------------------------------------------------------------------------
(* The warm an open starts: prewarm_scan_text.                             *)

Becomes(d, new) == warm' = [warm EXCEPT ![d] = new]

\* The warm is over: its Arc goes and `prewarming` forgets the document.
Ends(d) == Becomes(d, NoWarm)

\* One warm per document at a time; it does not start in front of foreground work.
Prewarm(d, v) ==
  /\ warm[d].pc = "idle" /\ ~Busy
  /\ Becomes(d, [NoWarm EXCEPT !.pc = "meta", !.ver = v])
  /\ UNCHANGED <<committed, slot, stores, scan, dropping, behind, tainted>>


\* The deadline passed, a read failed, or a section is too large.
WarmStops(d) ==
  /\ warm[d].pc # "idle"
  /\ Ends(d)
  /\ UNCHANGED <<slot, scan>>
  /\ Live(stores)
  /\ UNCHANGED <<committed, dropping, behind>>

\* A read under the mutex; `behind` counts those the scan's caller sat through.
WarmLocks(d) ==
  /\ MutexFree
  /\ behind' = [behind EXCEPT ![d] = IF Busy THEN @ + 1 ELSE @]

\* scan_warm_plan: the stored row must be the one the open stored.
WarmMeta(d) ==
  /\ warm[d].pc = "meta"
  /\ WarmLocks(d)
  /\ committed[d] = warm[d].ver
  /\ Becomes(d, [warm[d] EXCEPT !.pc = "held"])
  /\ UNCHANGED <<committed, slot, stores, scan, dropping, tainted>>

\* Another document's store is left alone; what a store holds is not read again.
Cold(d) ==
  IF slot = None THEN Sections ELSE {x \in Sections : stores[slot].texts[x] = None}

WarmHeld(d) ==
  LET chars == Chars[warm[d].ver]
      fits  == SumFunctionOnSet(chars, Cold(d)) <= Cap \div 4
  IN /\ warm[d].pc = "held" /\ ~Busy
     /\ slot # None => Matches(stores[slot], d, warm[d].ver)
     /\ Cold(d) # {}
     /\ fits \/ \A x \in Cold(d) : chars[x] <= Cap \div 4
     /\ Becomes(d, [warm[d] EXCEPT !.pc = IF fits THEN "install" ELSE "measure",
                                   !.todo = Cold(d), !.left = IF fits THEN {} ELSE Cold(d)])
     /\ UNCHANGED <<committed, slot, stores, scan, dropping, behind, tainted>>

\* The stored sizes, a section at a time, with a look for foreground work before
\* each: with one waiting the next state is only good for WarmStops.
WarmMeasure(d) ==
  LET x     == Min(warm[d].left)
      left  == warm[d].left \ {x}
      total == warm[d].total + Estimate[committed[d]][x]
      next  == CASE total > Cap               -> "mark"
                 [] total <= Cap /\ left = {} -> "install"
                 [] OTHER                     -> IF Busy THEN "stop" ELSE "measure"
  IN /\ warm[d].pc = "measure"
     /\ WarmLocks(d)
     /\ IF next = "measure"
        THEN Becomes(d, [warm[d] EXCEPT !.total = total, !.left = left])
        ELSE Becomes(d, [warm[d] EXCEPT !.pc = next, !.total = 0, !.left = {}])
     /\ UNCHANGED <<committed, slot, stores, scan, dropping, tainted>>

\* scan_text_store_for_warm: an empty slot or this document's own store.
SlotForWarm(d) ==
  \/ slot = None
  \/ slot # None /\ Matches(stores[slot], d, warm[d].ver)

StoreForWarm(d) == IF slot = None THEN Unused ELSE slot
StoresForWarm(d) ==
  IF slot = None THEN [stores EXCEPT ![Unused] = Store(d, warm[d].ver)] ELSE stores

\* mark_over_cap.
WarmMark(d) ==
  /\ warm[d].pc = "mark" /\ SlotForWarm(d)
  /\ slot' = StoreForWarm(d)
  /\ Ends(d)
  /\ UNCHANGED scan
  /\ Live([StoresForWarm(d) EXCEPT ![StoreForWarm(d)] = OverCap(@)])
  /\ UNCHANGED <<committed, dropping, behind>>

WarmInstall(d) ==
  /\ warm[d].pc = "install" /\ SlotForWarm(d)
  /\ slot' = StoreForWarm(d)
  /\ Becomes(d, [warm[d] EXCEPT !.pc = "check", !.store = StoreForWarm(d)])
  /\ UNCHANGED scan
  /\ Live(StoresForWarm(d))
  /\ UNCHANGED <<committed, dropping, behind>>

\* Mutant: the warm looks for foreground work only when it starts.
WarmCheckNoYield(d) ==
  /\ warm[d].pc = "check"
  /\ warm[d].todo # {} /\ slot = warm[d].store /\ ~stores[slot].over
  /\ IF stores[slot].texts[Min(warm[d].todo)] # None
     THEN Becomes(d, [warm[d] EXCEPT !.todo = @ \ {Min(@)}])
     ELSE Becomes(d, [warm[d] EXCEPT !.pc = "read"])
  /\ UNCHANGED <<committed, slot, stores, scan, dropping, behind, tainted>>

\* warm_scan_text: on with the next section while nobody waits and the slot
\* still has the store; a section a scan stored meanwhile is passed over.
WarmCheck(d) ==
  /\ warm[d].pc = "check" /\ ~Busy
  /\ warm[d].todo # {} /\ slot = warm[d].store /\ ~stores[slot].over
  /\ IF stores[slot].texts[Min(warm[d].todo)] # None
     THEN Becomes(d, [warm[d] EXCEPT !.todo = @ \ {Min(@)}])
     ELSE Becomes(d, [warm[d] EXCEPT !.pc = "read"])
  /\ UNCHANGED <<committed, slot, stores, scan, dropping, behind, tainted>>

WarmRead(d) ==
  /\ warm[d].pc = "read"
  /\ WarmLocks(d)
  /\ Becomes(d, [warm[d] EXCEPT !.pc = "insert", !.text = Loaded(d)])
  /\ UNCHANGED <<committed, slot, stores, scan, dropping, tainted>>

WarmInsert(d) ==
  LET x == Min(warm[d].todo) IN
  /\ warm[d].pc = "insert"
  /\ stores' = [stores EXCEPT ![warm[d].store] = Insert(@, x, warm[d].text)]
  /\ Becomes(d, [warm[d] EXCEPT !.pc = "check", !.todo = @ \ {x}, !.text = None])
  /\ UNCHANGED <<committed, slot, scan, dropping, behind, tainted>>

Warm(d) ==
  \/ \E v \in VersionsOf[d] : Prewarm(d, v)
  \/ WarmStops(d) \/ WarmMeta(d) \/ WarmHeld(d)
  \/ WarmMeasure(d) \/ WarmMark(d) \/ WarmInstall(d) \/ WarmCheck(d)
  \/ WarmRead(d) \/ WarmInsert(d)

-----------------------------------------------------------------------------
(* An ingest: replace_document_segmentation.                               *)

\* The transaction commits under the mutex; a caller whose deadline passed
\* never gets to empty the slot.
Commit(w, d, v) ==
  /\ w \notin dropping /\ MutexFree
  /\ committed' = [committed EXCEPT ![d] = v]
  /\ dropping' \in {dropping, dropping \cup {w}}
  /\ tainted' = IF warm[d].pc # "idle" THEN tainted \cup {d} ELSE tainted
  /\ UNCHANGED <<slot, stores, scan, warm, behind>>

DropScanText(w) ==
  /\ w \in dropping
  /\ dropping' = dropping \ {w}
  /\ slot' = None
  /\ UNCHANGED <<scan, warm>>
  /\ Live(stores)
  /\ UNCHANGED <<committed, behind>>

ScanNext ==
  \/ Scan
  \/ \E d \in Opened : Warm(d)
  \/ \E w \in Writers :
        \/ DropScanText(w)
        \/ \E d \in Opened : \E v \in VersionsOf[d] : Commit(w, d, v)

ScanSpec == ScanInit /\ [][ScanNext]_vars

-----------------------------------------------------------------------------

\* A store's byte count is that of the texts it holds, within the cap, however
\* scans and warms race to fill it; over the cap it holds nothing.
CacheAccounted ==
  \A i \in StoreIds :
    stores[i] # None =>
      LET s == stores[i]
          held == {x \in Sections : s.texts[x] # None}
      IN /\ s.bytes = SumFunctionOnSet([x \in held |-> Bytes[s.texts[x].ver][x]], held)
         /\ s.bytes <= Cap
         /\ s.over => held = {}

\* A search reads the text of the very version it asked for, whichever mixture
\* of scans, warms and writers filled the store it reads from, and also when a
\* writer's caller went away before it emptied the slot. What it may not have
\* met is a re-store of the document while a warm of it ran.
UntaintedScansExact ==
  scan.text # None /\ scan.doc \notin tainted =>
    scan.text = [doc |-> scan.doc, ver |-> scan.want]

\* "a foreground request never queues behind one section read after another":
\* while a search waits, no warm makes more than the one read it had begun.
WarmsYield == \A d \in Opened : behind[d] <= 1

\* "The store lost a section the plan filled, which cannot happen while it holds
\* the document": no search fails for a section missing from the store.
NoPlannedSectionLost == scan.pc # "lost"

=============================================================================
