\* An event whose supplied id contains a slash.
SPECIFICATION Spec
CONSTANTS
  q1 = q1
  q2 = q2
  q3 = q3
  Words <- MCWords
  Slashed <- MCSlashed
  CustomKeys <- MCKeys
  HttpRequests = {q1, q2, q3}
  Calls <- MCReach
  AskedIds <- MCAsked
  MaxBytes = 2
CHECK_DEADLOCK FALSE
PROPERTY StoredIsReachable
