--------------------------- MODULE MCHandleReads ---------------------------
(* Values for the constants of HandleReads: one media type, two builds that *)
(* parse the bytes to different versions and keep one store version, so an *)
(* upgrade leaves the old rows for the old handles to meet.                *)
EXTENDS HandleReads, TLC

CONSTANTS b1, b2, m1, m2, v1, v2

ParsedPerBuild ==
  [x \in {b1, b2} \X {m1} |-> IF x[1] = b1 THEN v1 ELSE v2]

\* One build, and the media type decides: two ingests of one server may store
\* different segmentations of the same bytes.
ParsedPerMediaType ==
  [x \in {b1} \X {m1, m2} |-> IF x[2] = m1 THEN v1 ELSE v2]

\* The second version has the shorter table of contents.
Sections == [v \in {v1, v2} |-> IF v = v1 THEN 2 ELSE 1]

SameStoreVersion == [b \in Builds |-> 1]

Symmetry == Permutations(Requests)

\* What the steps to come depend on: of a request or a client that is idle little more than that, and
\* of two requests not which is which. SteadyCallsAreExact reads what a step writes and what the call
\* it belongs to wrote before; TLC checks it of every step, also of one to a state it has seen.
Live(r) ==
  IF pc[r] = "idle" THEN <<"idle">>
  ELSE <<pc[r], server[r], ver[r], waiting[r], pc[r] = "insert" /\ stored[r]>>
Calling(c) ==
  IF cpc[c] = "idle" THEN <<"idle", handle[c]>> ELSE <<cpc[c], home[c], handle[c], seen[c], steady[c]>>
StepState == <<up, rows, {Live(r) : r \in Requests}, [c \in Clients |-> Calling(c)]>>

=============================================================================
