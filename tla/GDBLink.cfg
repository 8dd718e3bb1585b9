SPECIFICATION FairSpec
CONSTANTS
  Request <- MCRequest
  Continue <- MCContinue
  Kill <- MCKill
  AnswerOf <- MCAnswerOf
  Stopped <- MCStopped
  Wrong <- MCWrong
  Faults = 1
  Retries = 1
INVARIANTS
  TypeOK
  RepliesFramed
  EndsAgree
PROPERTIES
  ImplementsContract
  RequestAnswered
  BreakAnswered
