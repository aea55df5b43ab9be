------------------------------ MODULE MCReading ------------------------------
(***************************************************************************)
(* How the content of a document is stored, walked and listed, one at a    *)
(* time: a section cut into chunks, a client that reads a book, one that   *)
(* pages through its sections, a search, a client of the v1 tools, the     *)
(* rows of a document, a document cut into units, the rows of its units.   *)
(* What a behaviour is not about is empty.                                 *)
(***************************************************************************)
EXTENDS MCSectionChunks, MCReadWalk, MCTreeWalks, MCLexicalScan, MCUnitTools, MCDocumentRows,
        MCSegmentation, MCUnitRows

VARIABLE about

readingVars == <<about, vars, walkVars, treeVars, lexicalVars, unitVars, storeVars, segVars, rowVars>>

NoSection == section = <<>> /\ Init

\* What a walk of a book without sections comes to.
NoWalk ==
  /\ book = <<>> /\ kind = "sentence" /\ streams = <<>> /\ direction = "forward"
  /\ from = DocumentHandle /\ next = NoNext /\ pc = "unknown"
  /\ call = [max |-> 0, back |-> 0]
  /\ anchorAt = Place(0, 0) /\ place = Place(0, 0)
  /\ fetched = <<>> /\ items = <<>> /\ banners = <<>> /\ anchor = {} /\ trail = <<>>

NoTree == tree = <<>> /\ tool = "outline" /\ depth = 1 /\ TreeInit

\* A search of a document without sections, answered.
NoSearch ==
  /\ query = [limit |-> 1, fold |-> FALSE, prune |-> FALSE] /\ content = <<>>
  /\ threads = 1 /\ mode = "relaxed" /\ phase = "answered"
  /\ plan = <<>> /\ scanners = <<>> /\ found = {}

NoUnits == UnitInit /\ header = CHOOSE text \in Texts : TRUE

NoStore == FreshInit /\ textUnits = NoUnitRows /\ running = FALSE /\ reading = Nothing

\* A document without sections, not segmented yet; and units of no document.
NoSegments == parsed = <<>> /\ blockMap = NoMap /\ segments = <<>> /\ unitsDone = NoneDone /\ segStage = "parsed"

NoUnitDocs == NoRows /\ NoUnitsKept

MCInit ==
  \/ about = "chunks" /\ Init /\ NoWalk /\ NoTree /\ NoSearch /\ NoUnits
       /\ NoStore /\ NoSegments /\ NoUnitDocs
  \/ about = "walk" /\ NoSection /\ WalkInit /\ NoTree /\ NoSearch /\ NoUnits
       /\ NoStore /\ NoSegments /\ NoUnitDocs
  \/ about = "tree" /\ NoSection /\ NoWalk /\ TreeInit /\ NoSearch /\ NoUnits
       /\ NoStore /\ NoSegments /\ NoUnitDocs
  \/ about = "search" /\ NoSection /\ NoWalk /\ NoTree /\ LexicalInit /\ NoUnits
       /\ NoStore /\ NoSegments /\ NoUnitDocs
  \/ about = "units" /\ NoSection /\ NoWalk /\ NoTree /\ NoSearch /\ UnitInit
       /\ NoStore /\ NoSegments /\ NoUnitDocs
  \/ about = "rows" /\ NoSection /\ NoWalk /\ NoTree /\ NoSearch /\ NoUnits
       /\ StoreInit /\ NoSegments /\ NoUnitDocs
  \/ about = "segments" /\ NoSection /\ NoWalk /\ NoTree /\ NoSearch /\ NoUnits
       /\ NoStore /\ SegInit /\ NoUnitDocs
  \/ about = "unit rows" /\ NoSection /\ NoWalk /\ NoTree /\ NoSearch /\ NoUnits
       /\ NoStore /\ NoSegments /\ RowInit

AboutChunks(A) ==
  about = "chunks" /\ A /\ UNCHANGED <<about, walkVars, treeVars, lexicalVars, unitVars, storeVars, segVars, rowVars>>
AboutWalk(A) ==
  about = "walk" /\ A /\ UNCHANGED <<about, vars, treeVars, lexicalVars, unitVars, storeVars, segVars, rowVars>>
AboutTree(A) ==
  about = "tree" /\ A /\ UNCHANGED <<about, vars, walkVars, lexicalVars, unitVars, storeVars, segVars, rowVars>>
AboutSearch(A) ==
  about = "search" /\ A /\ UNCHANGED <<about, vars, walkVars, treeVars, unitVars, storeVars, segVars, rowVars>>
AboutUnits(A) ==
  about = "units" /\ A /\ UNCHANGED <<about, vars, walkVars, treeVars, lexicalVars, storeVars, segVars, rowVars>>
AboutRows(A) ==
  about = "rows" /\ A /\ UNCHANGED <<about, vars, walkVars, treeVars, lexicalVars, unitVars, segVars, rowVars>>
AboutSegments(A) ==
  about = "segments" /\ A /\ UNCHANGED <<about, vars, walkVars, treeVars, lexicalVars, unitVars, storeVars, rowVars>>
AboutUnitRows(A) ==
  about = "unit rows" /\ A /\ UNCHANGED <<about, vars, walkVars, treeVars, lexicalVars, unitVars, storeVars, segVars>>

MCNext ==
  \/ AboutChunks(Next) \/ AboutWalk(WalkNext) \/ AboutTree(TreeNext)
  \/ AboutSearch(LexicalNext) \/ AboutUnits(UnitNext) \/ AboutRows(StoreNext)
  \/ AboutSegments(SegNext) \/ AboutUnitRows(RowNext)

MCSpec == MCInit /\ [][MCNext]_readingVars /\ WF_readingVars(AboutWalk(WalkNext))
==============================================================================
