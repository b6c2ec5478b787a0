CONSTANTS
  Tickets = {t1, t2, t3, t4}
  Tenants = {n1}
  Partners = {p1}
  Platform = hub
  None = none
  Sessions = {s1, s2}
  Filers = {n1}
  Choices = {"closed"}
  Operations = {"return", "withdraw", "resolve", "update"}
SPECIFICATION Spec
CONSTRAINT UpdatesComeFirst
SYMMETRY TicketAndSessionSymmetry
INVARIANTS
  TypeOK
  EscalationAscends
  PlanHasOneUpstream
  EscalationFollowsMerges
PROPERTIES
  OutcomeIsFinal
  ImplementsLedger
CHECK_DEADLOCK FALSE
