\* A notification that is redirected, and reported as delivered.
SPECIFICATION Spec
CONSTANTS
  Setups <- MCSetups
  MaxRetries = 2
CHECK_DEADLOCK FALSE
INVARIANT DeliveryFailureWarned
