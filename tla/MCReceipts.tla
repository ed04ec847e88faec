------------------------------ MODULE MCReceipts ------------------------------
(* Instances of ReceiptText and LlmAnswer for TLC, side by side.           *)
EXTENDS MCReceiptDate, ReceiptText, LlmAnswer

DateToken(m, run) == [kind |-> "date", date |-> m, run |-> run]
Figure(parts) == [kind |-> "figure", parts |-> parts, run |-> parts[1].width]
Label(name, run) == [kind |-> "label", name |-> name, run |-> run]
Bank(name, run) == [kind |-> "bank", name |-> name, run |-> run]
Word(run) == [kind |-> "word", run |-> run]

\* 04-04-2026, 15.03.2026 and 2026.04.08 among other tokens.
Dashed == Printed("numeric", 4, 4, 2026, <<>>, "space", "none")
Dotted == [Printed("numeric", 15, 3, 2026, <<>>, "space", "none") EXCEPT !.delim = "."]
DottedYear == [Printed("yearFirst", 4, 8, 2026, <<>>, "space", "none") EXCEPT !.delim = "."]

\* 1,250.00  1,250  125000.5  1.250,00  12345,678.90  1,25,000.00  12,50
MCFigures == {
  Figure(<<Run(1, 1, "none"), Run(250, 3, "comma"), Run(0, 2, "point")>>),
  Figure(<<Run(1, 1, "none"), Run(250, 3, "comma")>>),
  Figure(<<Run(125000, 6, "none"), Run(5, 1, "point")>>),
  Figure(<<Run(1, 1, "none"), Run(250, 3, "point"), Run(0, 2, "comma")>>),
  Figure(<<Run(12345, 5, "none"), Run(678, 3, "comma"), Run(90, 2, "point")>>),
  Figure(<<Run(1, 1, "none"), Run(25, 2, "comma"), Run(0, 3, "comma"), Run(0, 2, "point")>>),
  Figure(<<Run(12, 2, "none"), Run(50, 2, "comma")>>)}

\* "Transaction Reference", "Transaction successful", a reference, a word.
MCMixed ==
  MCFigures
    \cup {DateToken(Dashed, 10), DateToken(Dotted, 2), DateToken(DottedYear, 4)}
    \cup {Label("tx", 3), Label("transaction", 11), Label("reference", 9), Label("ref", 3)}
    \cup {Bank("CBE", 3), Bank("Dashen", 6), Bank("Telebirr", 8)}
    \cup {Word(10), Word(2)}

MCPrintsAndDots == MCPrints \cup {Dotted, DottedYear, Dashed}

MCTokens == MCMixed \cup {DateToken(m, 2) : m \in MCPrints}

\* Dates only, or up to MaxTokens of the others.
MCText == \/ \A i \in 1..Len(lines) : lines[i].kind = "date"
          \/ \A i \in 1..Len(lines) : lines[i] \in MCMixed

\* {"amount": 1, "bank_name": ...}, with a text of braces, one of fences, one
\* with quotes in it, and an object within the object.
Key == <<"quote", "word", "quote", "colon">>
Object(value) == <<"open">> \o Key \o value \o <<"close">>
String(s) == <<"quote">> \o s \o <<"quote">>

MCAnswers == {
  <<"open", "close">>,
  Object(<<"number", "comma">> \o Key \o String(<<"close", "open", "word">>)),
  Object(String(<<"fence", "word">>)),
  Object(String(<<"backslash", "quote", "close", "backslash", "backslash">>)),
  Object(Object(<<"number">>)),
  Object(Object(String(<<"open">>)) \o <<"comma">> \o Key \o <<"number">>)}

MCInit == TextInit /\ AnswerInit

\* A text is read, or an output.
MCNext ==
  \/ raw = <<>> /\ TextNext /\ MCText' /\ UNCHANGED answerVars
  \/ lines = <<>> /\ AnswerNext /\ UNCHANGED textVars

MCSpec == MCInit /\ [][MCNext]_<<textVars, answerVars>>

=============================================================================
