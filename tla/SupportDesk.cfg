CONSTANTS
  Tickets = {t1}
  Threads = {h1, h2}
  Attachments = {a1, a2}
  Sessions = {s1, s2}
  None = None
SYMMETRY DeskSymmetry
SPECIFICATION Spec
INVARIANTS
  InternalStaysInside
  DeskIsAccountedFor
CHECK_DEADLOCK FALSE
