SPECIFICATION Spec
INVARIANT TypeOK
INVARIANT AnswerIsFinal
INVARIANT ByeOwed
INVARIANT NothingLeft
PROPERTY CallConcludes
CHECK_DEADLOCK FALSE
