-------------------------- MODULE MCSegmentation --------------------------
(* Every text of up to four characters, longer ones for the rules that need them, and every map of
   up to two blocks over one of them. *)
EXTENDS Segmentation

MCChars == {"a", "A", ".", "stop", " ", "nl"}

SpecialTexts ==
  {\* A list's end, a title, initials, a number, a path, an ellipsis, closers.
   <<"etc", ".", " ", "A", " ", "mr", ".", " ", "A", ".", " ", "a">>,
   <<"e", ".", "g", ".", " ", "a", "!", ")", "quote", " ", "1", ".", "1", ".", " ", "a", "!", "a">>,
   <<" ", "a", ".", ".", ".", " ", "a", "/", ".", "/", "a", "stop", ")", "stop", "han", " ">>,
   <<"A", ".", " ", "A", " ", "a", "_", ".", ")", " ", "etc", ".", ",", "a", ".">>,
   \* Blank lines, line endings and indents.
   <<"a", "cr", "nl", " ", "nl", "a", "nl", "a", "nl", "cr", "nl", "tab", "a", "cr">>,
   <<" ", " ", " ", " ", "a", ".", "nl", "tab", "a">>,
   <<"backticks", "nl", "a", "nl", "nl", "a", ".", "nl", "backticks">>,
   <<"backticks", "a", "nl", "backticks">>, <<"tildes", "nl", "a", "nl", "backticks">>,
   <<"|", "a", "|", "a", "|", "nl", "|", ":", "---", "|", " ", "---", ":", "|", "nl", "a", ".">>,
   <<"a", "|", "nl", "|", "---", "|">>, <<"a", "|", "nl", "|", " ", "|", "---", "|", ".">>,
   \* Letters in pairs, with a case and without.
   <<"a", "a", "c", "c", "e", "e", ".", " ", "A">>, <<"han", "han", "zi", "zi", "han", "han", "stop", "zi">>,
   <<"a", "a", "c", "c", "e", "e", "g", "g", "a", "c", ".">>,
   \* Fragments without a space between them, and surnames.
   <<"a", ".", "A", ",", "A", ")", "a", "1", "A">>, <<"A", "M", "U", "a", "c", "A", "a", "a", "A">>,
   <<"M", "c", "A", " ", "M", "a", "c", "A", " ", ".", "A", ":", "A">>, <<")", "han", ")", "zi", ")", "han", "stop">>,
   \* A masthead, and the same marks spread out.
   <<"vol", " ", "1", ",", "may", " ", "1999", ".", " ", "doi", "!">>,
   <<"vol", " ", "1", ".", " ", "a", " ", "a", " ", "a", " ", "a", " ", "a", " ", "may", ".", " ", "a", " ",
     "1999", " ", "a", " ", "doi">>}

TextOfForty == [i \in 1..40 |-> IF i % 10 = 0 THEN "stop" ELSE "a"]

Mapped == <<"a", ".", "nl", "A", " ">>

MCParsed ==
  {<<text>> : text \in UNION {[1..n -> MCChars] : n \in 0..4} \cup SpecialTexts \cup {TextOfForty, Mapped}}
  \cup {<<Mapped, <<>>, <<"stop", "nl", "nl", "a">>>>, <<TextOfForty, Mapped>>}

MCRanges == {CharRange(start, end) : start, end \in 0..Len(Mapped) + 1}

Blk(owner, index, order, range, kind) ==
  [owner |-> owner, index |-> index, order |-> order, range |-> range, kind |-> kind]

MCMaps(texts) ==
  IF texts = <<Mapped>>
  THEN {[version |-> "current", blocks |-> <<Blk(1, 1, 0, first, kind), Blk(1, 2, 1, second, "native_paragraph")>>] :
          first, second \in {range \in MCRanges : range.start <= range.end}, kind \in {"native_paragraph", "table"}}
  ELSE IF Len(texts) = 3
  THEN {[version |-> version, blocks |-> <<Blk(owner, 1, 0, CharRange(0, 2), kind),
                                           Blk(1, index, order, CharRange(3, 4), "list_item")>>] :
          version \in {"current", "other"}, owner \in {1, 3, 4}, index \in 1..2, order \in 1..2, kind \in BlockKinds}
  ELSE {}
=============================================================================
