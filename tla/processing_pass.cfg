\* A pass with two requests per operation, in every setup of MCSetups.
SPECIFICATION Spec
CONSTANTS
  Setups <- MCSetups
  MaxRetries = 2
CHECK_DEADLOCK FALSE
INVARIANTS
  TypeOK
  EveryOperationAttempted
  SuccessIsTrue
  RequestsBounded
  RowsTellTheChain
PROPERTIES
  FinalAnswersStand
  PassShrinks
  PassEnds
  ImplementsHandOff
