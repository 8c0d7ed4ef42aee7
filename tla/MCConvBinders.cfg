CONSTANTS
  Environment <- MCEnvironment
  Questions <- BinderQuestions
  PutOff = {}
  Casts = {}
  First <- BinderQuestions
  DeferFrom = 2
  MaxAsked = 1
  MaxOperand = 0
SPECIFICATION Spec
INVARIANT AnswersRight
CHECK_DEADLOCK FALSE
