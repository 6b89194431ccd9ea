\* Nobody replays an event that is being worked on; a second event runs beside it.
SPECIFICATION Spec
CONSTANTS
  e1 = e1
  e2 = e2
  p1 = p1
  p2 = p2
  p3 = p3
  d1 = d1
  d2 = d2
  r1 = r1
  r2 = r2
  r3 = r3
  EventIds = {e1, e2}
  Payloads = {p1, p3}
  IdOf <- MCIdOf
  Overlong = {p1}
  BadContact = {p3}
  Deliveries = {d1, d2}
  Replays = {r1, r2, r3}
  MaxAttempts = 2
  Exclusive = TRUE
SYMMETRY MCSymmetry
CHECK_DEADLOCK FALSE
INVARIANTS
  CapRespected
  PassesCounted
  DetailAgrees
PROPERTY ImplementsLedger
