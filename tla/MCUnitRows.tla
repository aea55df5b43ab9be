------------------------------ MODULE MCUnitRows ------------------------------
(* Two documents of one to three sections; the first is stored as two versions. *)
EXTENDS UnitRows

Run(words) == FlattenSeq([n \in 1..Len(words) |-> words[n]])

Said == <<"a", "stop", " ">>
Line == <<"a", "nl">>
Break == <<"nl", "nl">>

\* A paragraph of seven sentences between two short ones.
LongText == Run(<<<<"a">>, Break, Said, Said, Said, Said, Said, Said, Said, Break, <<"a", "a", "a">>>>)
ManyLines == Run(<<<<"a">>, Break, Said, Said, Break, <<"tab", "a", ".">>, Break, Said, <<"a">>, Break, <<"han", "stop">>>>)

Block(owner, index, order, range, class) ==
  [owner |-> owner, index |-> index, order |-> order, range |-> range, kind |-> class]

Version(doc, hash, ids, texts, map) == [doc |-> doc, hash |-> hash, ids |-> ids, texts |-> texts, map |-> map]

MCIngests ==
  {Version("book", "h1", <<"s1", "s2", "s3">>, <<LongText, <<" ">>, <<>>>>, NoMap),
   Version("book", "h2", <<"s2", "s1">>, <<Said, ManyLines>>,
           [version |-> "current", blocks |-> <<Block(1, 1, 0, CharRange(0, 2), "native_paragraph"),
                                                Block(2, 1, 1, CharRange(0, 1), "table"),
                                                Block(2, 2, 2, CharRange(3, 5), "list_item")>>]),
   Version("paper", "h4", <<"s1", "s4">>, <<ManyLines, LongText>>, NoMap)}
===============================================================================
