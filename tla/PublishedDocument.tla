------------------------- MODULE PublishedDocument -------------------------
(***************************************************************************)
(* What `open` promises about one document, with no stores and no steps: a *)
(* document is either published whole, at one version, or not at all, and  *)
(* an open that succeeds names a version that is published at the moment   *)
(* it is named.                                                            *)
(***************************************************************************)
CONSTANTS Requests, Versions, None, Failed

VARIABLES
  published,  \* the version every row of the document belongs to, or None
  answer      \* what each request was told last

vars == <<published, answer>>

TypeOK ==
  /\ published \in Versions \cup {None}
  /\ answer \in [Requests -> Versions \cup {None, Failed}]

Init ==
  /\ published = None
  /\ answer = [r \in Requests |-> None]

Ask(r) ==
  /\ answer' = [answer EXCEPT ![r] = None]
  /\ UNCHANGED published

\* A refresh, a sweep or a new build takes the document away.
Withdraw ==
  /\ published' = None
  /\ UNCHANGED answer

\* An ingest publishes a version and tells its caller, if it still waits.
Publish(r, v) ==
  /\ published' = v
  /\ answer' \in {answer, [answer EXCEPT ![r] = v]}

AnswerPublished(r) ==
  /\ published # None
  /\ answer' = [answer EXCEPT ![r] = published]
  /\ UNCHANGED published

\* Any opens may fail together, as those of a server that stops do.
FailOpens(failed) ==
  /\ answer' = [r \in Requests |-> IF r \in failed THEN Failed ELSE answer[r]]
  /\ UNCHANGED published

Next ==
  \/ Withdraw
  \/ \E failed \in SUBSET Requests : FailOpens(failed)
  \/ \E r \in Requests :
        Ask(r) \/ AnswerPublished(r) \/ \E v \in Versions : Publish(r, v)

Spec == Init /\ [][Next]_vars

=============================================================================
