--------------------------- MODULE MCDocumentRows ---------------------------
(* Two versions of a document of up to three sections, one with an order of its own and entries of
   every size, and one whose order fails. *)
EXTENDS DocumentRows

Place2(fields, titled) == [fields |-> fields, titled |-> titled]

MCVersions ==
  {[id |-> "first", tree |-> <<<<<<>>>>, <<>>>>,
    places |-> <<Place2({"page", "anchor", "end"}, TRUE), Place2({"chapter", "start"}, FALSE),
                 Place2({}, FALSE)>>,
    epub |-> TRUE,
    facts |-> <<[id |-> <<2>>, order |-> 0], [id |-> <<1, 1>>, order |-> 1], [id |-> <<1>>, order |-> 2]>>,
    meta |-> [map |-> "heavy", parser |-> "light", ocr |-> "absent"]],
   [id |-> "second", tree |-> <<<<>>, <<>>>>,
    places |-> <<Place2({"native"}, TRUE), Place2({"page", "paragraph"}, FALSE)>>,
    epub |-> FALSE, facts |-> <<>>,
    meta |-> [map |-> "light", parser |-> "absent", ocr |-> "heavy"]],
   [id |-> "broken", tree |-> <<<<>>, <<>>>>,
    places |-> <<Place2({}, TRUE), Place2({}, FALSE)>>,
    epub |-> TRUE, facts |-> <<[id |-> <<2>>, order |-> 0]>>,
    meta |-> [map |-> "heavy", parser |-> "heavy", ocr |-> "absent"]]}

MCKeys == {"map", "parser", "ocr"}
==============================================================================
