SPECIFICATION FairSpec
CONSTANTS
  a = a
  b = b
  Up <- MCUp
  Candidates <- MCCandidates
  Stern <- MCStern
  Far <- MCFar
  Deadline = 2
  MaxTime = 2
INVARIANTS SentHopsCount AnswerFits OnlyPassingRetried
PROPERTY Ends
CHECK_DEADLOCK FALSE
