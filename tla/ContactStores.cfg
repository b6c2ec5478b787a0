CONSTANTS
  c1 = c1
  c2 = c2
  co = co
  d = d
  t = t
  n = n
  g1 = g1
  g2 = g2
  g3 = g3
  other = other
  Companies = {co}
  Deals = {d}
  Tasks = {t}
  Notes = {n}
  Stages = {g1, g2, g3}
  PositionOf <- MCPositionOf
  Defaults = {0, 1}
  Elsewhere = {other}
  Given <- MCGiven
  Ids = {c1, c2}
  PhoneChannels = {"sms", "whatsapp"}
  Phones = {"p1"}
  Emails = {"e1"}
  Tags = {"t1", "t2"}
  Fields = {"f1"}
  Additions = {{"t2"}, {"f1"}}
  Sessions = {s1, s2}
  None = None
  Roles <- MCRoles
  MaxEdits <- MCMaxEdits
  TenantRows <- MCTenantRows
SYMMETRY StoreSymmetry
SPECIFICATION Spec
INVARIANTS
  SenderIsRecognized
  LinksHold
PROPERTY EntriesAreKept
CHECK_DEADLOCK FALSE
