CONSTANTS
  n1 = n1
  p1 = p1
  t1 = t1
  t2 = t2
  admin = admin
  agent = agent
  partner = partner
  operator = operator
  Tenants = {n1}
  Partners = {p1}
  Platform = hub
  None = none
  Users = {agent, partner, operator}
  TenantOf <- MCTenantOf
  PartnerOf <- MCPartnerOf
  Operators = {operator}
  TenantAdmins = {agent}
  Agents = {agent}
  Tickets = {t1, t2}
  TicketOwner <- MCTicketOwner
  Grants = {g1}
  Sessions = {s1, s2}
  MaxHours = 2
  MaxTime = 1
  MaxEvents = 1
SPECIFICATION Spec
SYMMETRY GrantAndSessionSymmetry
INVARIANTS
  ReadsAreAllowed
PROPERTY
  DecisionIsFinal
CHECK_DEADLOCK FALSE
