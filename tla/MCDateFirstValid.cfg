\* Does the first valid date win?
CONSTANTS
  Prints <- Receipts
  MaxMentions = 2
SPECIFICATION DateSpec
INVARIANT FirstValidDateWins
CHECK_DEADLOCK FALSE
