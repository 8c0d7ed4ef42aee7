CONSTANTS
  Environment <- MCEnvironment
  Questions <- MCQuestions
  PutOff <- MCPutOff
  Casts <- MCCasts
  First <- MCFirst
  DeferFrom = 2
  MaxAsked = 2
  MaxOperand = 3
SPECIFICATION Spec
INVARIANTS
  AnswersRight
  ArithmeticRight
  NegativesAreFinal
  ForceAgrees
CHECK_DEADLOCK FALSE
