CONSTANTS
  Tickets = {t1, t2, t3}
  Tenants = {n1}
  Partners = {}
  Platform = hub
  None = none
  Sessions = {s1, s2}
  Filers = {n1, hub}
  Choices = {"closed"}
  Operations = {"update", "resolve", "withdraw"}
  MaxOverwritten = 1
SPECIFICATION RaceSpec
SYMMETRY TicketAndSessionSymmetry
INVARIANTS
  WaitingMatchesEscalation
  MergedStaysMerged
PROPERTIES
  WaitingEndsWithEscalation
  ClosedStaysClosed
  StopReachesEveryWaiter
CHECK_DEADLOCK FALSE
