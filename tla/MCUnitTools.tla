----------------------------- MODULE MCUnitTools -----------------------------
(* Two versions of a section: its table becomes prose, and the text after it longer. *)
EXTENDS UnitTools

MCRange(start, end) == [start |-> start, end |-> end]
MCParagraph(start, end, sentences) == [start |-> start, end |-> end, sentences |-> sentences]

MCTexts ==
  {<<MCParagraph(0, 3, <<>>), MCParagraph(4, 5, <<MCRange(4, 5)>>)>>,
   <<MCParagraph(0, 3, <<MCRange(0, 1), MCRange(1, 2), MCRange(2, 3)>>),
     MCParagraph(4, 6, <<MCRange(4, 5), MCRange(5, 6)>>)>>}
==============================================================================
