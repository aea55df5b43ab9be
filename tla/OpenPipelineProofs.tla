------------------------- MODULE OpenPipelineProofs -------------------------
(***************************************************************************)
(* What holds of OpenPipeline for every set of servers, requests, builds,  *)
(* media types and versions, and of the clients of HandleReads beside it.  *)
(* The hypotheses two of the theorems need say what the store relies on:   *)
(* one server per state directory, and a version that depends on the build *)
(* alone. A call during which one version stays published needs neither: it *)
(* is exact, however many store calls it makes and whatever other opens,   *)
(* searches, failures and restarts come between them.                      *)
(***************************************************************************)
EXTENDS HandleReads, TLAPS

\* A request is in a store call only while its server runs: a stopped server's
\* fingerprint is never stored.
Served == \A r \in Requests : pc[r] # "idle" => up[server[r]] # None

Typed == TypeOK /\ Served

\* Every action of a request and of a server preserves the two.
LEMMA TypedIsInvariant == Spec => []Typed
<1> USE OpenAssumption
<1>1. Init => Typed
  BY DEF Init, Typed, Served, TypeOK, Steps, Active
<1>2. Typed /\ [Next]_vars => Typed'
  <2> SUFFICES ASSUME Typed, [Next]_vars PROVE Typed'
    OBVIOUS
  <2> USE DEF Typed, TypeOK, Served, Steps, Active, Reading, Writing, Results, Documents
  <2>1. ASSUME NEW r \in Requests, Lookup(r) PROVE Typed'
    BY <2>1 DEF Lookup, Hit, Proceed, Reply, rows
  <2>2. ASSUME NEW r \in Requests, Parse(r) PROVE Typed'
    BY <2>2 DEF Parse, Proceed, rows
  <2>3. ASSUME NEW r \in Requests, Remove(r) PROVE Typed'
    BY <2>3 DEF Remove, Proceed
  <2>4. ASSUME NEW r \in Requests, Segment(r) PROVE Typed'
    BY <2>4 DEF Segment, Proceed
  <2>5. ASSUME NEW r \in Requests, Decide(r) PROVE Typed'
    BY <2>5 DEF Decide, rows
  <2>6. ASSUME NEW r \in Requests, Insert(r) PROVE Typed'
    BY <2>6 DEF Insert, Proceed
  <2>7. ASSUME NEW r \in Requests, Check(r) PROVE Typed'
    BY <2>7 DEF Check, Proceed, rows
  <2>8. ASSUME NEW r \in Requests, Resegment(r) PROVE Typed'
    BY <2>8 DEF Resegment, Proceed
  <2>9. ASSUME NEW r \in Requests, Put(r) PROVE Typed'
    BY <2>9 DEF Put, Proceed, Reply
  <2>10. ASSUME NEW r \in Requests, Fail(r) PROVE Typed'
    BY <2>10 DEF Fail, Reply, rows
  <2>11. ASSUME NEW r \in Requests, Expire(r) PROVE Typed'
    BY <2>11 DEF Expire, Reply, rows
  <2>12. ASSUME NEW r \in Requests, NEW s \in Servers, NEW m \in MediaTypes,
                NEW refresh \in BOOLEAN, Begin(r, s, m, refresh)
         PROVE  Typed'
    BY <2>12 DEF Begin, rows
  <2>13. ASSUME NEW s \in Servers, Stop(s) PROVE Typed'
    BY <2>13 DEF Stop, rows
  <2>14. ASSUME NEW s \in Servers, NEW b \in Builds, Start(s, b) PROVE Typed'
    BY <2>14 DEF Start, SweepNothing, SweepResult, SweepDocument, rows
  <2>15. CASE UNCHANGED vars
    BY <2>15 DEF vars, rows
  <2> QED
    BY <2>1, <2>2, <2>3, <2>4, <2>5, <2>6, <2>7, <2>8, <2>9, <2>10, <2>11,
       <2>12, <2>13, <2>14, <2>15 DEF Next, Step
<1> QED
  BY <1>1, <1>2, PTL DEF Spec

\* The rows, the answers and the control state keep their types through every
\* interleaving of requests, deadlines, failures, crashes and restarts.
THEOREM TypeCorrect == Spec => []TypeOK
<1>1. Typed => TypeOK
  BY DEF Typed
<1> QED
  BY <1>1, TypedIsInvariant, PTL

-----------------------------------------------------------------------------
(* How far the rows are when a request is at a store call.                 *)

\* After the remove, no stored answer but one of the version being ingested.
ResultWithdrawn(r) ==
  pc[r] \in {"segment", "decide", "insert", "check", "resegment", "put"} =>
    result = None \/ result.ver = ver[r]

\* After the segmentation, the text is of the version being ingested.
TextWritten(r) ==
  pc[r] \in {"decide", "insert", "check", "resegment", "put"} => text = ver[r]

\* After the save, so is the documents row.
DocumentWritten(r) ==
  pc[r] \in {"check", "resegment", "put"} => doc # None /\ doc.ver = ver[r]

\* While nothing disturbs it, a request is the only one in a store call and
\* the rows are as far as its steps took them.
Undisturbed ==
  \A r \in Requests :
    alone[r] /\ pc[r] # "idle" =>
      /\ \A q \in Requests \ {r} : pc[q] = "idle"
      /\ TextWritten(r)
      /\ DocumentWritten(r)

LEMMA UndisturbedIsInvariant == Spec => []Undisturbed
<1> USE OpenAssumption
<1>1. Init => Undisturbed
  BY DEF Init, Undisturbed
<1>2. Typed /\ Undisturbed /\ [Next]_vars => Undisturbed'
  <2> SUFFICES ASSUME Typed, Undisturbed, [Next]_vars PROVE Undisturbed'
    OBVIOUS
  <2> USE DEF Typed, TypeOK, Undisturbed, TextWritten, DocumentWritten,
              Steps, Active, Reading, Writing
  <2>1. ASSUME NEW r \in Requests, Lookup(r) PROVE Undisturbed'
    BY <2>1 DEF Lookup, Hit, Proceed, Reply, rows
  <2>2. ASSUME NEW r \in Requests, Parse(r) PROVE Undisturbed'
    BY <2>2 DEF Parse, Proceed, rows
  <2>3. ASSUME NEW r \in Requests, Remove(r) PROVE Undisturbed'
    BY <2>3 DEF Remove, Proceed
  <2>4. ASSUME NEW r \in Requests, Segment(r) PROVE Undisturbed'
    BY <2>4 DEF Segment, Proceed
  <2>5. ASSUME NEW r \in Requests, Decide(r) PROVE Undisturbed'
    BY <2>5 DEF Decide, rows
  <2>6. ASSUME NEW r \in Requests, Insert(r) PROVE Undisturbed'
    BY <2>6 DEF Insert, Proceed
  <2>7. ASSUME NEW r \in Requests, Check(r) PROVE Undisturbed'
    BY <2>7 DEF Check, Proceed, rows
  <2>8. ASSUME NEW r \in Requests, Resegment(r) PROVE Undisturbed'
    BY <2>8 DEF Resegment, Proceed
  <2>9. ASSUME NEW r \in Requests, Put(r) PROVE Undisturbed'
    BY <2>9 DEF Put, Proceed, Reply
  <2>10. ASSUME NEW r \in Requests, Fail(r) PROVE Undisturbed'
    BY <2>10 DEF Fail, Reply, rows
  <2>11. ASSUME NEW r \in Requests, Expire(r) PROVE Undisturbed'
    BY <2>11 DEF Expire, Reply, rows
  <2>12. ASSUME NEW r \in Requests, NEW s \in Servers, NEW m \in MediaTypes,
                NEW refresh \in BOOLEAN, Begin(r, s, m, refresh)
         PROVE  Undisturbed'
    BY <2>12 DEF Begin, rows
  <2>13. ASSUME NEW s \in Servers, Stop(s) PROVE Undisturbed'
    BY <2>13 DEF Stop, rows
  <2>14. ASSUME NEW s \in Servers, NEW b \in Builds, Start(s, b)
         PROVE  Undisturbed'
    BY <2>14 DEF Start
  <2>15. CASE UNCHANGED vars
    BY <2>15 DEF vars, rows
  <2> QED
    BY <2>1, <2>2, <2>3, <2>4, <2>5, <2>6, <2>7, <2>8, <2>9, <2>10, <2>11,
       <2>12, <2>13, <2>14, <2>15 DEF Next, Step
<1> QED
  BY <1>1, <1>2, TypedIsInvariant, PTL DEF Spec

\* However many servers with whatever builds share the state directory, and
\* whatever half-finished ingests it holds: an ingest that nothing overlaps
\* stores a complete document and an answer that names it.
THEOREM UndisturbedOpens == Spec => UndisturbedIngestCompletes
<1>1. ASSUME Typed, Undisturbed, NEW r \in Requests, alone[r], Put(r)
      PROVE  (result # None /\ result.ver = ver[r] /\ RowsOf(ver[r]))'
  <2>1. text = ver[r] /\ doc # None /\ doc.ver = ver[r]
    BY <1>1 DEF Undisturbed, TextWritten, DocumentWritten, Put, Proceed
  <2>2. ver[r] \in Versions /\ up[server[r]] \in Builds
    BY <1>1, OpenAssumption DEF Typed, TypeOK, Served, Put, Proceed
  <2>3. result' \in Results /\ result'.ver = ver[r]
    BY <1>1, <2>2 DEF Put, Results
  <2>4. result' # None
    BY <2>3, OpenAssumption DEF Results
  <2> QED
    BY <1>1, <2>1, <2>3, <2>4 DEF Put, RowsOf
<1>2. Typed /\ Undisturbed =>
        [\A r \in Requests :
           alone[r] /\ Put(r) =>
             (result # None /\ result.ver = ver[r] /\ RowsOf(ver[r]))']_vars
  BY <1>1
<1> QED
  BY <1>2, TypedIsInvariant, UndisturbedIsInvariant, PTL
     DEF Spec, UndisturbedIngestCompletes

-----------------------------------------------------------------------------
(* One server and one version per build.                                   *)

OneServer == \A s, t \in Servers : s = t

OneVersionPerBuild ==
  \A b \in Builds, m, n \in MediaTypes : ParsedAs[<<b, m>>] = ParsedAs[<<b, n>>]

\* All requests in flight ingest the version of the build their server runs,
\* so the steps of one never take back what the steps of another did.
Ingests(r) ==
  pc[r] # "idle" =>
    /\ \A m \in MediaTypes : ver[r] = ParsedAs[<<up[server[r]], m>>]
    /\ \E m \in MediaTypes : ver[r] = ParsedAs[<<up[server[r]], m>>]
    /\ ResultWithdrawn(r)
    /\ TextWritten(r)
    /\ DocumentWritten(r)

\* The inductive strengthening of CompleteResult.
CompleteInv == CompleteResult /\ \A r \in Requests : Ingests(r)

\* Two requests in flight ingest the same version.
LEMMA SameVersion ==
  ASSUME OneServer, Typed, CompleteInv,
         NEW r \in Requests, NEW q \in Requests, pc[r] # "idle", pc[q] # "idle"
  PROVE  ver[r] = ver[q]
<1>1. server[r] = server[q]
  BY DEF OneServer, Typed, TypeOK
<1>2. PICK m \in MediaTypes : ver[r] = ParsedAs[<<up[server[r]], m>>]
  BY DEF CompleteInv, Ingests
<1>3. ver[q] = ParsedAs[<<up[server[q]], m>>]
  BY DEF CompleteInv, Ingests
<1> QED
  BY <1>1, <1>2, <1>3

LEMMA CompleteInvStep ==
  ASSUME OneServer, OneVersionPerBuild, Typed, CompleteInv, [Next]_vars
  PROVE  CompleteInv'
<1> USE OpenAssumption
<1> USE DEF Typed, TypeOK, CompleteInv, CompleteResult, RowsOf, Ingests,
            ResultWithdrawn, TextWritten, DocumentWritten,
            Steps, Active, Reading, Writing, Results, Documents
<1>1. ASSUME NEW r \in Requests, Lookup(r) PROVE CompleteInv'
  BY <1>1 DEF Lookup, Hit, Proceed, Reply, rows
<1>2. ASSUME NEW r \in Requests, Parse(r) PROVE CompleteInv'
  BY <1>2 DEF Parse, Proceed, rows
<1>3. ASSUME NEW r \in Requests, Remove(r) PROVE CompleteInv'
  BY <1>3 DEF Remove, Proceed
<1>4. ASSUME NEW r \in Requests, Segment(r) PROVE CompleteInv'
  <2>1. \A q \in Requests : pc[q] # "idle" => ver[q] = ver[r]
    BY <1>4, SameVersion DEF Segment, Proceed
  <2> QED
    BY <1>4, <2>1 DEF Segment, Proceed
<1>5. ASSUME NEW r \in Requests, Decide(r) PROVE CompleteInv'
  BY <1>5 DEF Decide, rows
<1>6. ASSUME NEW r \in Requests, Insert(r) PROVE CompleteInv'
  <2>1. \A q \in Requests : pc[q] # "idle" => ver[q] = ver[r]
    BY <1>6, SameVersion DEF Insert, Proceed
  <2>2. doc' # None /\ doc'.ver = ver[r] /\ text = ver[r]
    BY <1>6 DEF Insert, Proceed
  <2>3. CompleteResult'
    BY <1>6, <2>2 DEF Insert, Proceed
  <2>4. ASSUME NEW q \in Requests PROVE Ingests(q)'
    BY <1>6, <2>1, <2>2 DEF Insert, Proceed
  <2> QED
    BY <2>3, <2>4
<1>7. ASSUME NEW r \in Requests, Check(r) PROVE CompleteInv'
  BY <1>7, SMTT(30) DEF Check, Proceed, rows
<1>8. ASSUME NEW r \in Requests, Resegment(r) PROVE CompleteInv'
  <2>1. \A q \in Requests : pc[q] # "idle" => ver[q] = ver[r]
    BY <1>8, SameVersion DEF Resegment, Proceed
  <2> QED
    BY <1>8, <2>1 DEF Resegment, Proceed
<1>9. ASSUME NEW r \in Requests, Put(r) PROVE CompleteInv'
  <2>1. \A q \in Requests : pc[q] # "idle" => ver[q] = ver[r]
    BY <1>9, SameVersion DEF Put, Proceed
  <2>2. text = ver[r] /\ doc # None /\ doc.ver = ver[r] /\ result'.ver = ver[r]
    BY <1>9 DEF Put, Proceed
  <2>3. CompleteResult'
    BY <1>9, <2>2 DEF Put
  <2>4. ASSUME NEW q \in Requests PROVE Ingests(q)'
    BY <1>9, <2>1, <2>2 DEF Put, Proceed, Reply
  <2> QED
    BY <2>3, <2>4
<1>10. ASSUME NEW r \in Requests, Fail(r) PROVE CompleteInv'
  BY <1>10 DEF Fail, Reply, rows
<1>11. ASSUME NEW r \in Requests, Expire(r) PROVE CompleteInv'
  BY <1>11 DEF Expire, Reply, rows
<1>12. ASSUME NEW r \in Requests, NEW s \in Servers, NEW m \in MediaTypes,
              NEW refresh \in BOOLEAN, Begin(r, s, m, refresh)
       PROVE  CompleteInv'
  BY <1>12 DEF Begin, rows, OneVersionPerBuild
<1>13. ASSUME NEW s \in Servers, Stop(s) PROVE CompleteInv'
  BY <1>13 DEF Stop, rows
<1>14. ASSUME NEW s \in Servers, NEW b \in Builds, Start(s, b)
       PROVE  CompleteInv'
  BY <1>14 DEF Start, SweepNothing, SweepResult, SweepDocument, rows, OneServer, Served
<1>15. CASE UNCHANGED vars
  BY <1>15 DEF vars, rows
<1> HIDE DEF Typed, CompleteInv
<1> QED
  BY <1>1, <1>2, <1>3, <1>4, <1>5, <1>6, <1>7, <1>8, <1>9, <1>10, <1>11,
     <1>12, <1>13, <1>14, <1>15 DEF Next, Step

LEMMA CompleteInvIsInvariant ==
  ASSUME OneServer, OneVersionPerBuild
  PROVE  Spec => []CompleteInv
<1>1. Init => CompleteInv
  BY DEF Init, CompleteInv, CompleteResult, Ingests
<1>2. Typed /\ CompleteInv /\ [Next]_vars => CompleteInv'
  BY CompleteInvStep
<1> QED
  BY <1>1, <1>2, TypedIsInvariant, PTL DEF Spec

\* With one server per state directory, and a version the build alone decides,
\* no stored answer outlives the rows it names: not through a refresh, a
\* deadline that leaves a write running, a failed call, a crash or the sweep of
\* the next start, whichever build that start runs.
THEOREM OneServerCompleteResult ==
  ASSUME OneServer, OneVersionPerBuild
  PROVE  Spec => []CompleteResult
<1>1. CompleteInv => CompleteResult
  BY DEF CompleteInv
<1> QED
  BY <1>1, CompleteInvIsInvariant, PTL

\* Under the same hypotheses the comment on save_shared holds: the section text
\* is left out of a documents row only when the text tables hold that version.
THEOREM OneServerTextLeftOut ==
  ASSUME OneServer, OneVersionPerBuild
  PROVE  Spec => TextLeftOutOnlyIfStored
<1>1. CompleteInv /\ [Next]_vars =>
        [doc' # doc /\ doc' # None /\ doc'.stored => text = doc'.ver]_vars
  <2> SUFFICES ASSUME CompleteInv, Next, doc' # doc, doc' # None
               PROVE  text = doc'.ver
    BY DEF vars, rows
  <2>1. PICK r \in Requests : Insert(r)
    BY DEF Next, Step, Lookup, Parse, Remove, Segment, Decide, Check, Resegment,
           Put, Fail, Expire, Begin, Stop, Start, SweepNothing, SweepResult,
           SweepDocument, rows
  <2>2. text = ver[r]
    BY <2>1 DEF Insert, Proceed, CompleteInv, Ingests, TextWritten
  <2> QED
    BY <2>1, <2>2 DEF Insert
<1> QED
  BY <1>1, CompleteInvIsInvariant, PTL DEF Spec, TextLeftOutOnlyIfStored

\* What a complete state publishes is what its open result names.
LEMMA PublishedIsResult ==
  ASSUME CompleteResult
  PROVE  published = IF result = None THEN None ELSE result.ver
BY DEF CompleteResult, published

LEMMA StepRefines ==
  ASSUME Typed, CompleteResult, CompleteResult', [Next]_vars
  PROVE  [Abstract!Next]_(Abstract!vars)
<1> DEFINE Shown == IF result = None THEN None ELSE result.ver
<1>1. published = Shown /\ published' = Shown'
  BY PublishedIsResult DEF CompleteResult, RowsOf, published
<1> HIDE DEF Shown
<1> USE DEF Abstract!Next, Abstract!vars
<1>2. ASSUME NEW r \in Requests, Lookup(r) PROVE [Abstract!Next]_(Abstract!vars)
  <2>1. published' = published
    BY <1>1, <1>2 DEF Lookup, rows, Shown
  <2>2. CASE answer' = answer
    BY <2>1, <2>2
  <2>3. CASE answer' # answer
    <3>1. Hit(r) /\ answer' = [answer EXCEPT ![r] = result.ver]
      BY <1>2, <2>3 DEF Lookup, Reply, Typed, TypeOK
    <3>2. published = result.ver /\ published # None
      BY <1>1, <3>1, OpenAssumption DEF Shown, Hit, Typed, TypeOK, Results
    <3> QED
      BY <2>1, <3>1, <3>2 DEF Abstract!AnswerPublished
  <2> QED
    BY <2>2, <2>3
<1>3. ASSUME NEW r \in Requests, Remove(r) PROVE [Abstract!Next]_(Abstract!vars)
  <2>1. published' = None /\ answer' = answer
    BY <1>1, <1>3 DEF Remove, Shown
  <2> QED
    BY <2>1 DEF Abstract!Withdraw
<1>4. ASSUME NEW r \in Requests,
             Parse(r) \/ Segment(r) \/ Decide(r) \/ Insert(r) \/ Check(r) \/ Resegment(r)
      PROVE  [Abstract!Next]_(Abstract!vars)
  <2>1. result' = result /\ answer' = answer
    BY <1>4 DEF Parse, Segment, Decide, Insert, Check, Resegment, rows
  <2> QED
    BY <1>1, <2>1 DEF Shown
<1>5. ASSUME NEW r \in Requests, Put(r) PROVE [Abstract!Next]_(Abstract!vars)
  <2>1. result'.ver = ver[r] /\ result' # None /\ ver[r] \in Versions
    BY <1>5, OpenAssumption DEF Put, Proceed, Typed, TypeOK, Served, Results
  <2>2. published' = ver[r]
    BY <1>1, <2>1 DEF Shown
  <2>3. answer' \in {answer, [answer EXCEPT ![r] = ver[r]]}
    BY <1>5 DEF Put, Reply, Typed, TypeOK
  <2> QED
    BY <2>1, <2>2, <2>3 DEF Abstract!Publish
<1>6. ASSUME NEW r \in Requests, Fail(r) \/ Expire(r)
      PROVE  [Abstract!Next]_(Abstract!vars)
  <2>1. published' = published
    BY <1>1, <1>6 DEF Fail, Expire, rows, Shown
  <2>2. answer' = [q \in Requests |-> IF q \in {x \in {r} : waiting[x]}
                                      THEN Failed ELSE answer[q]]
    BY <1>6 DEF Fail, Expire, Reply, Typed, TypeOK
  <2> QED
    BY <2>1, <2>2 DEF Abstract!FailOpens
<1>7. ASSUME NEW r \in Requests, NEW s \in Servers, NEW m \in MediaTypes,
             NEW refresh \in BOOLEAN, Begin(r, s, m, refresh)
      PROVE  [Abstract!Next]_(Abstract!vars)
  <2>1. published' = published
    BY <1>1, <1>7 DEF Begin, rows, Shown
  <2> QED
    BY <1>7, <2>1 DEF Begin, Abstract!Ask
<1>8. ASSUME NEW s \in Servers, Stop(s) PROVE [Abstract!Next]_(Abstract!vars)
  <2> DEFINE ended == {q \in Requests : server[q] = s /\ waiting[q]}
  <2>1. published' = published
    BY <1>1, <1>8 DEF Stop, rows, Shown
  <2>2. answer' = [q \in Requests |-> IF q \in ended THEN Failed ELSE answer[q]]
    BY <1>8 DEF Stop
  <2> QED
    BY <2>1, <2>2 DEF Abstract!FailOpens
<1>9. ASSUME NEW s \in Servers, NEW b \in Builds, Start(s, b)
      PROVE  [Abstract!Next]_(Abstract!vars)
  <2>1. answer' = answer /\ published' \in {published, None}
    BY <1>1, <1>9 DEF Start, SweepNothing, SweepResult, SweepDocument, rows, Shown
  <2> QED
    BY <2>1 DEF Abstract!Withdraw
<1>10. CASE UNCHANGED vars
  BY <1>1, <1>10 DEF vars, rows, Shown
<1> QED
  BY <1>2, <1>3, <1>4, <1>5, <1>6, <1>7, <1>8, <1>9, <1>10 DEF Next, Step

\* With one server and one version per build, the pipeline with its four stores
\* and nine store calls implements the abstract document: it is published whole
\* or not at all, and every answer names what is published as it is given.
THEOREM OneServerImplementsPublishedDocument ==
  ASSUME OneServer, OneVersionPerBuild
  PROVE  Spec => ImplementsPublishedDocument
<1>1. Init => Abstract!Init
  BY DEF Init, Abstract!Init, published
<1>2. CompleteInv => CompleteResult
  BY DEF CompleteInv
<1>3. Typed /\ CompleteResult /\ CompleteResult' /\ [Next]_vars =>
        [Abstract!Next]_(Abstract!vars)
  BY StepRefines
<1> QED
  BY <1>1, <1>2, <1>3, TypedIsInvariant, CompleteInvIsInvariant, PTL
     DEF Spec, ImplementsPublishedDocument, Abstract!Spec

-----------------------------------------------------------------------------
(* The clients of HandleReads.                                             *)

\* What is published, and so the version a call finds, is the version of some parse.
VersionsParsed ==
  /\ up \in [Servers -> Builds \cup {None}]
  /\ ver \in [Requests -> Versions]
  /\ result # None => result.ver \in Versions

ClientsTyped ==
  /\ DOMAIN cpc = Clients /\ DOMAIN handle = Clients /\ DOMAIN seen = Clients
  /\ DOMAIN outcome = Clients /\ DOMAIN steady = Clients

\* The rows a call has read of the version that stays published are that version's: its handle was
\* compared, what it saw is published still, and a search never turns to the index.
CallKeepsTo(c, p) ==
  /\ published = p
  /\ cpc[c] = "items" => handle[c] = p
  /\ cpc[c] \in {"meta", "text", "order", "scan", "hits"} => seen[c] = p
  /\ cpc[c] \notin {"index", "rewrite", "rescan"}

SteadyCall(c) ==
  /\ cpc[c] # "idle" => outcome[c] = None
  /\ steady[c] # None => CallKeepsTo(c, steady[c])

HandleInv == VersionsParsed /\ ClientsTyped /\ \A c \in Clients : SteadyCall(c)

LEMMA PipelineVersions ==
  ASSUME VersionsParsed, [Next]_vars
  PROVE  VersionsParsed'
<1> USE OpenAssumption DEF VersionsParsed, rows
<1>1. ASSUME NEW r \in Requests, Step(r) PROVE VersionsParsed'
  <2>1. CASE Put(r)
    BY <2>1 DEF Put, Proceed
  <2>2. CASE Remove(r)
    BY <2>2 DEF Remove
  <2> QED
    BY <1>1, <2>1, <2>2 DEF Step, Lookup, Parse, Segment, Decide, Insert, Check, Resegment
<1>2. ASSUME NEW r \in Requests, Fail(r) \/ Expire(r) PROVE VersionsParsed'
  BY <1>2 DEF Fail, Expire
<1>3. ASSUME NEW r \in Requests, NEW s \in Servers, NEW m \in MediaTypes,
             NEW refresh \in BOOLEAN, Begin(r, s, m, refresh)
      PROVE  VersionsParsed'
  BY <1>3 DEF Begin
<1>4. ASSUME NEW s \in Servers, Stop(s) PROVE VersionsParsed'
  BY <1>4 DEF Stop
<1>5. ASSUME NEW s \in Servers, NEW b \in Builds, Start(s, b) PROVE VersionsParsed'
  BY <1>5 DEF Start, SweepNothing, SweepResult, SweepDocument
<1>6. CASE UNCHANGED vars
  BY <1>6 DEF vars
<1> QED
  BY <1>1, <1>2, <1>3, <1>4, <1>5, <1>6 DEF Next

-----------------------------------------------------------------------------
(* The steps of a call.                                                    *)

LEMMA PublishedRows ==
  ASSUME VersionsParsed, published # None
  PROVE  /\ published \in Versions /\ text = published
         /\ doc # None /\ doc.ver = published
BY DEF VersionsParsed, published, RowsOf

\* The step is one of client c alone: the store is as it was, and so are the other clients.
ClientMove(c) ==
  /\ UNCHANGED vars
  /\ \A d \in Clients \ {c} :
       /\ cpc'[d] = cpc[d] /\ handle'[d] = handle[d] /\ seen'[d] = seen[d]
       /\ outcome'[d] = outcome[d] /\ steady'[d] = steady[d]

LEMMA OthersKept ==
  ASSUME HandleInv, NEW c \in Clients, ClientMove(c), SteadyCall(c)'
  PROVE  \A d \in Clients : SteadyCall(d)'
<1>1. published' = published
  BY DEF ClientMove, vars, rows, published, RowsOf
<1>2. ASSUME NEW d \in Clients \ {c} PROVE SteadyCall(d)'
  BY <1>1 DEF HandleInv, SteadyCall, CallKeepsTo, ClientMove
<1> QED
  BY <1>2

Calls(c) ==
  \/ OpenKey(c) \/ OpenHeader(c) \/ ReadKey(c) \/ ReadHeader(c) \/ ReadItems(c)
  \/ PlaceDocument(c) \/ PlaceText(c) \/ SectionText(c) \/ LoadTree(c) \/ LoadOrder(c)
  \/ FindDocument(c) \/ ScanText(c) \/ LocateHits(c) \/ CheckUnits(c) \/ RewriteFails(c)
  \/ RescanText(c)

\* A store call that only reads leads to the next one or to the end of the client's call.
LEMMA CallsMove ==
  ASSUME ClientsTyped, NEW c \in Clients, Calls(c)
  PROVE  /\ ClientMove(c)
         /\ \/ cpc'[c] = "idle" /\ steady'[c] = None
            \/ outcome'[c] = outcome[c] /\ steady'[c] = steady[c] /\ cpc[c] # "idle"
<1> USE DEF ClientsTyped, ClientMove, Continue, Finish
<1>1. CASE OpenKey(c) \/ OpenHeader(c)
  BY <1>1 DEF OpenKey, OpenHeader
<1>2. CASE ReadKey(c) \/ ReadHeader(c) \/ ReadItems(c)
  BY <1>2 DEF ReadKey, ReadHeader, ReadItems
<1>3. CASE PlaceDocument(c) \/ PlaceText(c) \/ SectionText(c)
  BY <1>3 DEF PlaceDocument, PlaceText, SectionText
<1>4. CASE LoadTree(c) \/ LoadOrder(c)
  BY <1>4 DEF LoadTree, LoadOrder
<1>5. CASE FindDocument(c) \/ ScanText(c) \/ LocateHits(c)
  BY <1>5 DEF FindDocument, ScanText, LocateHits
<1>6. CASE CheckUnits(c) \/ RewriteFails(c) \/ RescanText(c)
  BY <1>6 DEF CheckUnits, RewriteFails, RescanText
<1> QED
  BY <1>1, <1>2, <1>3, <1>4, <1>5, <1>6 DEF Calls

LEMMA CallsTyped ==
  ASSUME ClientsTyped, NEW c \in Clients, Calls(c)
  PROVE  ClientsTyped'
<1> USE DEF ClientsTyped, Continue, Finish
<1>1. CASE OpenKey(c) \/ OpenHeader(c)
  BY <1>1 DEF OpenKey, OpenHeader
<1>2. CASE ReadKey(c) \/ ReadHeader(c) \/ ReadItems(c)
  BY <1>2 DEF ReadKey, ReadHeader, ReadItems
<1>3. CASE PlaceDocument(c) \/ PlaceText(c) \/ SectionText(c)
  BY <1>3 DEF PlaceDocument, PlaceText, SectionText
<1>4. CASE LoadTree(c) \/ LoadOrder(c)
  BY <1>4 DEF LoadTree, LoadOrder
<1>5. CASE FindDocument(c) \/ ScanText(c) \/ LocateHits(c)
  BY <1>5 DEF FindDocument, ScanText, LocateHits
<1>6. CASE CheckUnits(c) \/ RewriteFails(c) \/ RescanText(c)
  BY <1>6 DEF CheckUnits, RewriteFails, RescanText
<1> QED
  BY <1>1, <1>2, <1>3, <1>4, <1>5, <1>6 DEF Calls

\* While p stays published the next store call is one that keeps to p.
LEMMA CallsKeep ==
  ASSUME HandleInv, NEW c \in Clients, Calls(c), steady[c] # None, steady'[c] # None
  PROVE  CallKeepsTo(c, steady[c])'
<1>1. CallKeepsTo(c, steady[c]) /\ steady'[c] = steady[c] /\ ClientsTyped
  BY CallsMove DEF HandleInv, SteadyCall
<1>2. PICK p \in Versions : p = steady[c] /\ text = p /\ doc # None /\ doc.ver = p /\ published = p
  BY <1>1, PublishedRows DEF HandleInv, CallKeepsTo
<1>3. published' = p
  BY <1>2, CallsMove DEF HandleInv, ClientMove, vars, rows, published, RowsOf
<1>4. p # None
  BY <1>2
<1> USE <1>1, <1>2, <1>3, <1>4 DEF CallKeepsTo, ClientsTyped, Continue, Finish
<1>5. CASE OpenKey(c) \/ OpenHeader(c)
  BY <1>5 DEF OpenKey, OpenHeader
<1>6. CASE ReadKey(c) \/ ReadHeader(c) \/ ReadItems(c)
  BY <1>6 DEF ReadKey, ReadHeader, ReadItems
<1>7. CASE PlaceDocument(c) \/ PlaceText(c) \/ SectionText(c)
  BY <1>7 DEF PlaceDocument, PlaceText, SectionText
<1>8. CASE LoadTree(c) \/ LoadOrder(c)
  BY <1>8 DEF LoadTree, LoadOrder
<1>9. CASE FindDocument(c) \/ ScanText(c) \/ LocateHits(c)
  BY <1>9 DEF FindDocument, ScanText, LocateHits
<1>10. CASE CheckUnits(c) \/ RewriteFails(c) \/ RescanText(c)
  BY <1>10 DEF CheckUnits, RewriteFails, RescanText
<1> QED
  BY <1>5, <1>6, <1>7, <1>8, <1>9, <1>10 DEF Calls

LEMMA CallsSteady ==
  ASSUME HandleInv, NEW c \in Clients, Calls(c)
  PROVE  \A d \in Clients : SteadyCall(d)'
<1>1. SteadyCall(c)'
  BY CallsMove, CallsKeep DEF HandleInv, SteadyCall
<1> QED
  BY <1>1, CallsMove, OthersKept DEF HandleInv

LEMMA BeginsSteady ==
  ASSUME HandleInv, NEW c \in Clients, NEW s \in Servers,
         BeginRead(c, s) \/ BeginSectionText(c, s) \/ BeginStructure(c, s) \/ BeginSearch(c, s)
  PROVE  \A d \in Clients : SteadyCall(d)'
<1>1. ClientMove(c) /\ outcome'[c] = None /\ steady'[c] = published
      /\ cpc'[c] \in {"key", "place", "tree", "find"}
  BY DEF HandleInv, ClientsTyped, ClientMove, BeginRead, BeginSectionText, BeginStructure, BeginSearch,
         Enter
<1>2. published' = published
  BY <1>1 DEF ClientMove, vars, rows, published, RowsOf
<1>3. SteadyCall(c)'
  BY <1>1, <1>2 DEF SteadyCall, CallKeepsTo
<1> QED
  BY <1>1, <1>3, OthersKept

\* A step that may change what is published leaves no claim on another version.
LEMMA StillSteadyKeeps ==
  ASSUME HandleInv, NEW d \in Clients, steady'[d] = StillSteady[d],
         cpc'[d] = "idle" \/ cpc'[d] = cpc[d],
         handle'[d] = handle[d], seen'[d] = seen[d], outcome'[d] \in {outcome[d], None}
  PROVE  SteadyCall(d)'
<1>1. steady'[d] # None => steady'[d] = steady[d] /\ published' = steady[d]
  BY DEF StillSteady
<1> QED
  BY <1>1 DEF HandleInv, SteadyCall, CallKeepsTo

LEMMA HandleInvStep ==
  ASSUME HandleInv, [HandleNext]_allVars
  PROVE  HandleInv'
<1>1. CASE PipelineStep
  <2>1. VersionsParsed'
    BY <1>1, PipelineVersions DEF PipelineStep, HandleInv
  <2>2. ClientsTyped'
    BY <1>1 DEF PipelineStep, StillSteady, HandleInv, ClientsTyped
  <2>3. ASSUME NEW d \in Clients PROVE SteadyCall(d)'
    <3>1. /\ steady'[d] = StillSteady[d] /\ outcome'[d] = None
          /\ cpc'[d] = "idle" \/ cpc'[d] = cpc[d]
          /\ handle' = handle /\ seen' = seen
      BY <1>1 DEF PipelineStep
    <3> QED
      BY <3>1, StillSteadyKeeps
  <2> QED
    BY <2>1, <2>2, <2>3 DEF HandleInv
<1>2. ASSUME NEW c \in Clients, NEW r \in Requests, TakeAnswer(c, r) PROVE HandleInv'
  <2>1. VersionsParsed'
    BY <1>2, PipelineVersions DEF TakeAnswer, Next, HandleInv
  <2>2. ClientsTyped'
    BY <1>2 DEF TakeAnswer, StillSteady, HandleInv, ClientsTyped
  <2>3. SteadyCall(c)'
    BY <1>2 DEF TakeAnswer, StillSteady, HandleInv, ClientsTyped, SteadyCall, CallKeepsTo
  <2>4. ASSUME NEW d \in Clients \ {c} PROVE SteadyCall(d)'
    <3>1. /\ steady'[d] = StillSteady[d] /\ outcome'[d] = outcome[d] /\ cpc'[d] = cpc[d]
          /\ handle'[d] = handle[d] /\ seen'[d] = seen[d]
      BY <1>2 DEF TakeAnswer, StillSteady, HandleInv, ClientsTyped
    <3> QED
      BY <3>1, StillSteadyKeeps
  <2> QED
    BY <2>1, <2>2, <2>3, <2>4 DEF HandleInv
<1>3. ASSUME NEW c \in Clients, NEW s \in Servers,
             BeginRead(c, s) \/ BeginSectionText(c, s) \/ BeginStructure(c, s) \/ BeginSearch(c, s)
      PROVE  HandleInv'
  <2>1. UNCHANGED vars /\ ClientsTyped'
    BY <1>3 DEF BeginRead, BeginSectionText, BeginStructure, BeginSearch, Enter, HandleInv, ClientsTyped
  <2>2. VersionsParsed'
    BY <2>1, PipelineVersions DEF HandleInv
  <2> QED
    BY <1>3, <2>1, <2>2, BeginsSteady DEF HandleInv
<1>4. ASSUME NEW c \in Clients, Calls(c) PROVE HandleInv'
  <2>1. UNCHANGED vars
    BY <1>4, CallsMove DEF HandleInv, ClientMove
  <2>2. VersionsParsed'
    BY <2>1, PipelineVersions DEF HandleInv
  <2>3. ClientsTyped'
    BY <1>4, CallsTyped DEF HandleInv
  <2> QED
    BY <1>4, <2>2, <2>3, CallsSteady DEF HandleInv
<1>5. ASSUME NEW c \in Clients, RewriteUnits(c) PROVE HandleInv'
  <2>1. VersionsParsed'
    BY <1>5 DEF RewriteUnits, HandleInv, VersionsParsed
  <2>2. ClientsTyped'
    BY <1>5 DEF RewriteUnits, StillSteady, HandleInv, ClientsTyped
  <2>3. steady[c] = None
    BY <1>5 DEF RewriteUnits, HandleInv, SteadyCall, CallKeepsTo
  <2>4. SteadyCall(c)'
    BY <1>5, <2>3 DEF RewriteUnits, StillSteady, HandleInv, ClientsTyped, SteadyCall
  <2>5. ASSUME NEW d \in Clients \ {c} PROVE SteadyCall(d)'
    <3>1. /\ steady'[d] = StillSteady[d] /\ outcome'[d] = outcome[d] /\ cpc'[d] = cpc[d]
          /\ handle'[d] = handle[d] /\ seen'[d] = seen[d]
      BY <1>5 DEF RewriteUnits, StillSteady, HandleInv, ClientsTyped
    <3> QED
      BY <3>1, StillSteadyKeeps
  <2> QED
    BY <2>1, <2>2, <2>4, <2>5 DEF HandleInv
<1>6. CASE UNCHANGED allVars
  <2>1. UNCHANGED <<vars, cpc, handle, seen, outcome, steady>> /\ published' = published
    BY <1>6 DEF allVars, clientVars, vars, rows, published, RowsOf
  <2>2. VersionsParsed'
    BY <2>1, PipelineVersions DEF HandleInv
  <2> QED
    BY <2>1, <2>2 DEF HandleInv, ClientsTyped, SteadyCall, CallKeepsTo
<1> QED
  BY <1>1, <1>2, <1>3, <1>4, <1>5, <1>6 DEF HandleNext, ClientStep, SearchStep, Calls

-----------------------------------------------------------------------------
(* The theorem.                                                            *)

\* A call during which one version stays published returns that version's text or tree, or says that
\* the handle or cursor is another version's; no published document is reported missing. It holds
\* for any number of servers and builds, with half-finished ingests and indexings by searches.
THEOREM SteadyCallsExact == HandleSpec => SteadyCallsAreExact
<1> DEFINE Exact(c) ==
      LET p == steady[c] IN
      p # None =>
        /\ OpenKey(c) \/ OpenHeader(c) => outcome'[c] \in {None, handle[c]}
        /\ ReadKey(c) \/ ReadHeader(c) \/ ReadItems(c) =>
             outcome'[c] \in {None, IF handle[c] = p THEN p ELSE "stale_handle"}
        /\ PlaceDocument(c) \/ PlaceText(c) \/ SectionText(c) => outcome'[c] \in {None, p}
        /\ SearchStep(c) => outcome'[c] \in {None, p}
        /\ LoadTree(c) \/ LoadOrder(c) =>
             outcome'[c] \in {None, p} \cup
               (IF handle[c] \in {None, p} THEN {} ELSE {"stale_cursor"})
<1>1. HandleInit => HandleInv
  BY DEF HandleInit, Init, HandleInv, VersionsParsed, ClientsTyped, SteadyCall
<1>2. HandleInv /\ [HandleNext]_allVars => HandleInv'
  BY HandleInvStep
<1>3. ASSUME HandleInv, NEW c \in Clients PROVE Exact(c)
  <2> SUFFICES ASSUME steady[c] # None PROVE Exact(c)
    OBVIOUS
  <2>1. CallKeepsTo(c, steady[c]) /\ ClientsTyped /\ (cpc[c] # "idle" => outcome[c] = None)
    BY <1>3 DEF HandleInv, SteadyCall
  <2>2. PICK p \in Versions : p = steady[c] /\ text = p /\ doc # None /\ doc.ver = p /\ p # None
    BY <1>3, <2>1, PublishedRows DEF HandleInv, CallKeepsTo
  <2> USE <2>1, <2>2 DEF CallKeepsTo, ClientsTyped, Continue, Finish
  <2>3. OpenKey(c) \/ OpenHeader(c) => outcome'[c] \in {None, handle[c]}
    BY DEF OpenKey, OpenHeader
  <2>4. ReadKey(c) \/ ReadHeader(c) \/ ReadItems(c) =>
          outcome'[c] \in {None, IF handle[c] = p THEN p ELSE "stale_handle"}
    BY DEF ReadKey, ReadHeader, ReadItems
  <2>5. PlaceDocument(c) \/ PlaceText(c) \/ SectionText(c) => outcome'[c] \in {None, p}
    BY DEF PlaceDocument, PlaceText, SectionText
  <2>6. SearchStep(c) => outcome'[c] \in {None, p}
    BY DEF SearchStep, FindDocument, ScanText, LocateHits, CheckUnits, RewriteUnits, RewriteFails,
           RescanText
  <2>7. LoadTree(c) \/ LoadOrder(c) =>
          outcome'[c] \in {None, p} \cup
            (IF handle[c] \in {None, p} THEN {} ELSE {"stale_cursor"})
    <3>1. ~(SectionCount[p] > SectionCount[p]) /\ ~(SectionCount[p] < SectionCount[p])
      BY SectionCountAssumption
    <3> QED
      BY <3>1 DEF LoadTree, LoadOrder, OrderedBy
  <2> QED
    BY <2>3, <2>4, <2>5, <2>6, <2>7
<1>4. HandleInv => [\A c \in Clients : Exact(c)]_allVars
  BY <1>3
<1> HIDE DEF Exact
<1>5. HandleInv /\ [HandleNext]_allVars => [\A c \in Clients : Exact(c)]_allVars
  BY <1>4
<1> QED
  BY <1>1, <1>2, <1>4, PTL DEF HandleSpec, SteadyCallsAreExact, Exact
=============================================================================
