---------------------------- MODULE MCLexicalScan ----------------------------
(***************************************************************************)
(* Documents of at most three sections and three paragraphs. The query has *)
(* a word and a CJK token: a text may contain the word inside another one. *)
(***************************************************************************)
EXTENDS LexicalScan

CONSTANTS Word, Cjk

Text(has, is, phrase) == [has |-> has, is |-> is, phrase |-> phrase]

Blank == Text({}, {}, FALSE)
Inside == Text({Word}, {}, FALSE)
OneWord == Text({Word}, {Word}, FALSE)
OneCjk == Text({Cjk}, {Cjk}, FALSE)
Apart == Text({Word, Cjk}, {Word, Cjk}, FALSE)
Phrase == Text({Word, Cjk}, {Word, Cjk}, TRUE)

\* A paragraph and its sentences. The phrase may run over two sentences; a
\* query with a sigma may find it in a sentence only.
Paragraphs(fold) ==
  {[text |-> t, sentences |-> <<t>>] : t \in {Blank, Inside, OneWord, Apart, Phrase}}
  \cup {[text |-> t, sentences |-> <<OneWord, OneCjk>>] : t \in {Apart, Phrase}}
  \cup (IF fold THEN {[text |-> Apart, sentences |-> <<Phrase>>]} ELSE {})

Whole(paragraphs) ==
  Text(UNION {p.text.has : p \in ToSet(paragraphs)}, UNION {p.text.is : p \in ToSet(paragraphs)},
       \E p \in ToSet(paragraphs) : p.text.phrase)

Placed(paragraphs) ==
  [i \in 1..Len(paragraphs) |->
     [text |-> paragraphs[i].text, start |-> 10 * i,
      sentences |-> [j \in 1..Len(paragraphs[i].sentences) |->
        [text |-> paragraphs[i].sentences[j], start |-> 10 * i + j - 1, parent |-> 10 * i]]]]

\* The ids of the sections are not in the order of the sections.
Section(i, title, paragraphs) ==
  [id |-> 10 - i, title |-> title, text |-> Whole(paragraphs), paragraphs |-> Placed(paragraphs)]

Shapes == {<<1>>, <<2>>, <<1, 1>>, <<2, 1>>, <<1, 2>>, <<1, 1, 1>>}

MCContents(fold) ==
  UNION {LET bodies(i) == [1..shape[i] -> Paragraphs(fold)] IN
         {[i \in 1..Len(shape) |-> Section(i, IF i = 1 THEN title ELSE Blank, body[i])] :
            title \in {Blank, Apart},
            body \in {b \in [1..Len(shape) -> UNION {bodies(i) : i \in 1..Len(shape)}] :
                        \A i \in 1..Len(shape) : Len(b[i]) = shape[i]}} :
         shape \in Shapes}

MCTerms == {Word, Cjk}
==============================================================================
