SPECIFICATION RSpec
CONSTANTS
  MaxCalls = 3
  TooLong = {2}
INVARIANTS RTypeOK AnswerMatches ErrorHasCause
PROPERTIES CallReturns ImplementsCommand
