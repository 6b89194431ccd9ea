\* Webhook calls and replays of one event overlap freely.
SPECIFICATION Spec
CONSTANTS
  e1 = e1
  e2 = e2
  p1 = p1
  p2 = p2
  p3 = p3
  d1 = d1
  d2 = d2
  r1 = r1
  r2 = r2
  r3 = r3
  EventIds = {e1}
  Payloads = {p1, p2}
  IdOf <- MCIdOf
  Overlong = {}
  BadContact = {}
  Deliveries = {d1, d2}
  Replays = {r1, r2}
  MaxAttempts = 2
  Exclusive = FALSE
SYMMETRY MCBodySymmetry
CHECK_DEADLOCK FALSE
INVARIANTS
  TypeOK
  AcceptedOnce
  AckImpliesStored
  CompletedWasHandedOff
  DeadLetterRecorded
  DeadLetterExhausted
  AttemptsBounded
  TroubleNamed
  WorkBounded
PROPERTY DeadLetterKept
