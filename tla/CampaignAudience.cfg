CONSTANTS
  c1 = c1
  c2 = c2
  a1 = a1
  a2 = a2
  Contacts = {c1, c2}
  Addresses = {a1, a2}
  Handlers = {h1, h2}
  None = none
  Populations <- MCPopulations
  Reported <- MCReported
  MaxEvents = 2
  MaxEdits = 2
SPECIFICATION Spec
INVARIANTS
  SuppressedIsOptedOut
  AudienceLeavesOut
PROPERTIES
  OptOutIsMonotonic
  UnsubscribedIsOptedOut
  BusDrains
CHECK_DEADLOCK FALSE
