\* Texts of up to three dates or four other tokens, and outputs of the LLM with
\* two tokens of its own before and after an object.
CONSTANTS
  Prints <- MCPrintsAndDots
  MaxMentions = 3
  Tokens <- MCTokens
  MaxTokens = 4
  Answers <- MCAnswers
  MaxWords = 2
SPECIFICATION MCSpec
INVARIANTS
  ReadsWhatIsPrinted
  PathsNeverContradict
  AmountIsPrinted
  AmountsAgree
  AnswerTakenWhole
PROPERTIES
  EarlierTextDecides
  LaterTextChangesLittle
CHECK_DEADLOCK FALSE
