------------------------------ MODULE LlmAnswer ------------------------------
(***************************************************************************)
(* The output of the LLM, token by token, and what parse_extraction_output *)
(* takes out of it.  The model writes some words, an object, and some more *)
(* words, and is cut off after max_tokens wherever it is.                  *)
(***************************************************************************)
EXTENDS Integers, SequencesExt

CONSTANTS
  Answers,  \* the objects that the model may write
  MaxWords  \* bound: tokens before and after the object

\* The characters that the parser looks at, "open" and "close" being braces;
\* "number" and "word" are runs of others, and "fence" is ``` or ```json.
Symbols == {"open", "close", "quote", "backslash", "colon", "comma", "number", "word", "fence"}

VARIABLES
  raw,     \* the output so far
  answer,  \* the object of this output
  begun,   \* tokens of raw before the object
  written  \* tokens of it in raw

answerVars == <<raw, answer, begun, written>>

Nothing == <<>>

-----------------------------------------------------------------------------
(* json.loads: objects with keys, whose values are numbers, strings or     *)
(* objects.                                                                *)

Reader(expects, depth) == [expects |-> expects, depth |-> depth]

Failed == Reader("failure", 0)

\* What may follow a value, and the end of an object.
Closed(depth) == IF depth = 1 THEN Reader("end", 0) ELSE Reader("comma", depth - 1)

Read(r, c) ==
  CASE r.expects = "object" /\ c = "open"         -> Reader("firstKey", 1)
    [] r.expects = "firstKey" /\ c = "close"      -> Closed(r.depth)
    [] r.expects \in {"firstKey", "key"} /\ c = "quote" -> Reader("restOfKey", r.depth)
    [] r.expects = "restOfKey" /\ c = "quote"     -> Reader("colon", r.depth)
    [] r.expects = "restOfKey" /\ c = "backslash" -> Reader("escapedInKey", r.depth)
    [] r.expects = "escapedInKey" /\ c \in {"quote", "backslash"} -> Reader("restOfKey", r.depth)
    [] r.expects = "colon" /\ c = "colon"         -> Reader("value", r.depth)
    [] r.expects = "value" /\ c = "number"        -> Reader("comma", r.depth)
    [] r.expects = "value" /\ c = "quote"         -> Reader("restOfText", r.depth)
    [] r.expects = "value" /\ c = "open"          -> Reader("firstKey", r.depth + 1)
    [] r.expects = "restOfText" /\ c = "quote"    -> Reader("comma", r.depth)
    [] r.expects = "restOfText" /\ c = "backslash" -> Reader("escapedInText", r.depth)
    [] r.expects = "escapedInText" /\ c \in {"quote", "backslash"} -> Reader("restOfText", r.depth)
    [] r.expects \in {"restOfKey", "restOfText"} /\ c \notin {"quote", "backslash"} -> r
    [] r.expects = "comma" /\ c = "comma"         -> Reader("key", r.depth)
    [] r.expects = "comma" /\ c = "close"         -> Closed(r.depth)
    [] OTHER                                      -> Failed

IsObject(s) == FoldLeft(Read, Reader("object", 0), s).expects = "end"

ASSUME AnswersAssumption ==
  /\ \A a \in Answers : a \in Seq(Symbols) /\ IsObject(a)
  /\ MaxWords \in Nat

-----------------------------------------------------------------------------
(* _find_balanced_json_object.                                             *)

DropFence(t, c) == IF c = "fence" THEN t ELSE Append(t, c)
WithoutFences(s) == FoldLeft(DropFence, <<>>, s)

\* Braces count in strings as well.
Scan_StringsToo(p, c) ==
  CASE c = "open"  -> [p EXCEPT !.depth = @ + 1]
    [] c = "close" -> [p EXCEPT !.depth = @ - 1]
    [] OTHER       -> p

Scan(p, c) ==
  CASE p.escaped                                      -> [p EXCEPT !.escaped = FALSE]
    [] ~p.escaped /\ p.inString /\ c = "backslash" -> [p EXCEPT !.escaped = TRUE]
    [] ~p.escaped /\ c = "quote"                   -> [p EXCEPT !.inString = ~@]
    [] ~p.escaped /\ ~p.inString /\ c = "open"     -> [p EXCEPT !.depth = @ + 1]
    [] ~p.escaped /\ ~p.inString /\ c = "close"    -> [p EXCEPT !.depth = @ - 1]
    [] OTHER                                         -> p

Scanned(s) == FoldLeft(Scan, [depth |-> 0, inString |-> FALSE, escaped |-> FALSE], s)

Opens(s) == {i \in 1..Len(s) : s[i] = "open"}

\* Where the depth returns to zero after the first brace.
Balances(s) ==
  {k \in Min(Opens(s))..Len(s) :
     /\ s[k] = "close"
     /\ LET before == Scanned(SubSeq(s, Min(Opens(s)), k - 1))
        IN  ~before.inString /\ ~before.escaped
     /\ Scanned(SubSeq(s, Min(Opens(s)), k)).depth = 0}

FindBalanced(s) ==
  IF Opens(s) = {} \/ Balances(s) = {} THEN Nothing
  ELSE SubSeq(s, Min(Opens(s)), Min(Balances(s)))

\* _extract_json_dict; what raises an error ends as the fallback payload.
Extract(s) ==
  CASE IsObject(s)                 -> s
    [] IsObject(WithoutFences(s)) /\ ~IsObject(s) -> WithoutFences(s)
    [] OTHER -> IF IsObject(FindBalanced(s)) THEN FindBalanced(s) ELSE Nothing

-----------------------------------------------------------------------------

AnswerInit ==
  /\ raw = <<>>
  /\ answer = Nothing
  /\ begun = 0
  /\ written = 0

Whole == answer # Nothing /\ written = Len(answer)

\* A word of the model's own, before the object or after it.
Say(c) ==
  /\ \/ answer = Nothing /\ Len(raw) < MaxWords /\ UNCHANGED begun
     \/ Whole /\ Len(raw) < begun + written + MaxWords /\ UNCHANGED begun
  /\ raw' = Append(raw, c)
  /\ UNCHANGED <<answer, written>>

Decide(a) ==
  /\ answer = Nothing
  /\ answer' = a
  /\ begun' = Len(raw)
  /\ raw' = Append(raw, a[1])
  /\ written' = 1

Continue ==
  /\ answer # Nothing
  /\ written < Len(answer)
  /\ raw' = Append(raw, answer[written + 1])
  /\ written' = written + 1
  /\ UNCHANGED <<answer, begun>>

AnswerNext ==
  \/ \E c \in Symbols : Say(c)
  \/ \E a \in Answers : Decide(a)
  \/ Continue

AnswerSpec == AnswerInit /\ [][AnswerNext]_answerVars

-----------------------------------------------------------------------------
(* Properties.                                                             *)

\* Unless the model writes a brace before its object: of a whole object all is
\* taken and nothing around it, fences in its texts apart, and of one that is
\* cut off nothing is taken, no object within it either.
AnswerTakenWhole ==
  answer # Nothing /\ "open" \notin ToSet(SubSeq(raw, 1, begun))
    => WithoutFences(Extract(raw)) = IF Whole THEN WithoutFences(answer) ELSE Nothing

=============================================================================
