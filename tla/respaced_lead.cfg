\* A lead whose message is sent with other whitespace the second time.
SPECIFICATION Spec
CONSTANTS
  q1 = q1
  q2 = q2
  q3 = q3
  Words <- MCWords
  Slashed <- MCSlashed
  CustomKeys <- MCKeys
  HttpRequests = {q1, q2, q3}
  Calls <- MCRespaced
  AskedIds <- MCAsked
  MaxBytes = 2
CHECK_DEADLOCK FALSE
INVARIANT StoredOnceHoweverSpaced
