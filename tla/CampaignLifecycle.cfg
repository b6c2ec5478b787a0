CONSTANTS
  c1 = c1
  c2 = c2
  Audiences <- MCAudiences
  NoSession = none
  Sessions = {s1, s2}
  Called <- MCOperations
  MaxSends = 2
SPECIFICATION Spec
SYMMETRY SessionSymmetry
INVARIANTS
  AudienceIsOneRequest
  SentOnce
  AnnouncedIsSetUp
PROPERTIES
  DeletedAudienceIsKept
  StatusFollowsTable
CHECK_DEADLOCK FALSE
