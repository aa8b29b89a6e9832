SPECIFICATION FairSpec
CONSTANTS
  MaxSent = 3
  MaxBody = 2
CHECK_DEADLOCK FALSE
INVARIANTS
  InOrder
  EndIsComplete
  AnswersAreWhole

  
