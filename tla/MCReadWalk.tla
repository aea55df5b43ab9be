------------------------------ MODULE MCReadWalk ------------------------------
(***************************************************************************)
(* Every book of at most three sections, each empty, of one paragraph with *)
(* more sentences than a page has rows, or of a prose paragraph and a      *)
(* coarse one: no section, none readable, empty ones anywhere.             *)
(***************************************************************************)
EXTENDS ReadWalk

MCBooks == UNION {[1..n -> {<<>>, <<3>>, <<2, 0>>}] : n \in 0..3}

\* A coarse paragraph of the first kind is larger than any batch.
MCCharCount(section, unit) ==
  IF unit.sent # 0 THEN 1 + (unit.sent % 2)
  ELSE IF section[unit.para] = 0 THEN 4 ELSE 2 * section[unit.para] - 1
==============================================================================
