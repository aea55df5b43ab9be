----------------------------- MODULE MCTreeWalks -----------------------------
(***************************************************************************)
(* Every document of at most four sections; structure maps that reorder    *)
(* the sections of a document in every way, and for documents of at most   *)
(* two sections every map of as many facts or fewer, the broken ones too.  *)
(***************************************************************************)
EXTENDS TreeWalks

RECURSIVE ForestsOf(_)
ForestsOf(n) ==
  IF n = 0 THEN {<<>>}
  ELSE UNION {{<<root>> \o rest : root \in ForestsOf(k), rest \in ForestsOf(n - 1 - k)} :
              k \in 0..n - 1}

MCDocuments == UNION {ForestsOf(n) : n \in 0..4}

Reordered(ids) ==
  {[i \in 1..Cardinality(ids) |-> [id |-> SetToSeq(ids)[i], order |-> perm[i] - 1]] :
     perm \in Permutations(1..Cardinality(ids))}

Maps(ids) ==
  UNION {[1..n -> [id : ids, order : 0..Cardinality(ids)]] : n \in 0..Cardinality(ids)}

MCBodyOrders(ids) ==
  {[epub |-> FALSE, facts |-> <<>>]} \cup
  [epub : {TRUE}, facts : Reordered(ids) \cup (IF Cardinality(ids) <= 2 THEN Maps(ids) ELSE {})]
==============================================================================
