--------------------------- MODULE MCOpenPipeline ---------------------------
(* Values for the constants of OpenPipeline: two builds that parse the same *)
(* bytes to different versions and share a store version unless the run    *)
(* says otherwise.                                                         *)
EXTENDS OpenPipeline, TLC, FiniteSets

CONSTANTS b1, b2, m1, m2, v1, v2

\* An upgrade changes what the bytes parse to.
ParsedPerBuild ==
  [x \in {b1, b2} \X {m1} |-> IF x[1] = b1 THEN v1 ELSE v2]

\* The media type decides too: plain text and markdown have other sections.
ParsedPerMediaType ==
  [x \in {b1, b2} \X {m1, m2} |-> IF x = <<b1, m1>> THEN v1 ELSE v2]

NewStoreVersion == [b \in {b1, b2} |-> IF b = b1 THEN 1 ELSE 2]
SameStoreVersion == [b \in {b1, b2} |-> 1]

\* One server at a time on the directory, whichever process it is.
OneServer == Cardinality({s \in Servers : up[s] # None}) <= 1
OneServerSpec == Init /\ [][Next /\ OneServer']_vars /\ Fairness

Symmetry == Permutations(Requests)

=============================================================================
