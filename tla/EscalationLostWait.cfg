CONSTANTS
  Tickets = {t1, t2}
  Tenants = {n1}
  Partners = {}
  Platform = hub
  None = none
  Sessions = {s1, s2}
  Filers = {n1}
  Choices = {"in_progress"}
  Operations = {"update"}
SPECIFICATION Spec
PROPERTY WaitingOutlastsEscalation
CHECK_DEADLOCK FALSE
