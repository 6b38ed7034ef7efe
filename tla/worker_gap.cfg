CONSTANTS
  Messages <- MCMessages
  Target <- MCTarget
  Remote = TRUE
  MaxFaults = 0
  MaxVersion = 5
SPECIFICATION FairSpec
PROPERTIES ReconciledAgain
CHECK_DEADLOCK FALSE
