--------------------------- MODULE MCSectionChunks ---------------------------
(***************************************************************************)
(* Sections of coarse paragraphs, short ones, and ones long enough for two *)
(* mid chunks after the chunk that holds their record, in any order for    *)
(* two paragraphs; and some of three, so that chunks of several paragraphs *)
(* stand before and after a long one.                                      *)
(***************************************************************************)
EXTENDS SectionChunks

MCSections ==
  UNION {[1..n -> {0, 1, 7}] : n \in 0..2} \cup [1..3 -> {0, 2}] \cup
  {<<0, 1, 7>>, <<1, 7, 0>>, <<7, 0, 1>>}
==============================================================================
