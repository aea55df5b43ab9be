------------------------------- MODULE MCCaches -------------------------------
(***************************************************************************)
(* What is remembered of something that changes, one at a time: the text   *)
(* of the document searched last, in memory; the response of a URL, in two *)
(* files; the listing a client pages through, in its cursor. The others    *)
(* are where one of their own behaviours starts.                           *)
(***************************************************************************)
EXTENDS MCScanTextCache, RawResourceCache, MCFileListing

VARIABLE cache

cacheVars == <<cache, vars, rawVars, listVars>>

NoFiles == ListInit /\ disk = Outer /\ configured = {}
NoText == ScanInit /\ \A d \in Opened : committed[d] = None
NoResponse == RawInit /\ origin = CHOOSE v \in Responses : TRUE

MCInit ==
  \/ cache = "text" /\ ScanInit /\ NoResponse /\ NoFiles
  \/ cache = "raw" /\ NoText /\ RawInit /\ NoFiles
  \/ cache = "files" /\ NoText /\ NoResponse /\ ListInit

OfText(A)  == cache = "text" /\ A /\ UNCHANGED <<cache, rawVars, listVars>>
OfRaw(A)   == cache = "raw" /\ A /\ UNCHANGED <<cache, vars, listVars>>
OfFiles(A) == cache = "files" /\ A /\ UNCHANGED <<cache, vars, rawVars>>

\* Bound: the client has made its calls.
NoMoreCalls == calls = MaxCalls /\ listing.stage = "idle" /\ UNCHANGED listVars

MCSpec ==
  MCInit /\ [][OfText(ScanNext) \/ OfRaw(RawNext) \/ OfFiles(ListNext \/ NoMoreCalls)]_cacheVars
===============================================================================
