\* Two calls with any payload and one of any other kind, a limit of two bytes.
SPECIFICATION Spec
CONSTANTS
  q1 = q1
  q2 = q2
  q3 = q3
  Words <- MCWords
  Slashed <- MCSlashed
  CustomKeys <- MCKeys
  HttpRequests = {q1, q2, q3}
  Calls <- MCCalls
  AskedIds <- MCAsked
  MaxBytes = 2
SYMMETRY MCSymmetry
CHECK_DEADLOCK FALSE
INVARIANTS
  TypeOK
  HandledIsAdmitted
  RefusedForOwnSize
  LookupUnique
  NamedNewsKept
  StoredOncePerLead
PROPERTY ImplementsLifecycle
