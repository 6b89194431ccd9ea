\* Two bodies of one event, delivered until acknowledged and replayed until settled
\* by an operator who waits for the requests at work.
SPECIFICATION RecoverySpec
CONSTANTS
  e1 = e1
  p1 = p1
  p2 = p2
  d1 = d1
  d2 = d2
  r1 = r1
  EventIds = {e1}
  Payloads = {p1, p2}
  IdOf <- MCIdOf
  Carries <- MCCarries
  Overlong = {p1}
  BadContact = {}
  Deliveries = {d1, d2}
  Replays = {r1}
  MaxAttempts = 2
  Exclusive = TRUE
  MaxFaults = 3
CHECK_DEADLOCK FALSE
INVARIANTS
  WorkedOnce
  AckImpliesStored
  CompletedWasHandedOff
PROPERTIES
  ImplementsLedger
  LeadStored
  EventuallySettled
