CONSTANTS
  None = None
  a = a
  b = b
  c1 = c1
  c2 = c2
  q1 = q1
  q2 = q2
  email = email
  sms = sms
  f1 = f1
  f2 = f2
  m1 = m1
  m2 = m2
  everyone = everyone
  some = some
  Slots = {1, 2}
  Targets = {a, b}
  Contacts = {c1, c2}
  Members = {c1, c2}
  Lists = {a, b}
  Queries = {q1, q2}
  ListQueries = {q1, q2}
  SuppressionQueries = {q1, q2}
  PageQueries = {q1, q2}
  Statuses = {"draft", "paused"}
  Files = {f1, f2}
  Mappings = {m1, m2}
  Unmapped = m1
  Rows <- MCRows
  ContactOf <- MCContactOf
  ChannelOf <- MCChannelOf
  OpNames <- MCOpNames
  Starts <- MCStarts
  Audiences = {everyone, some}
  AllContacts = everyone
  Mounted <- AllScreens
  Grants <- MCGrants
SPECIFICATION Spec
INVARIANTS
  AnswersStayInContext
  WritesAreAsAsked
  LocksCoverWrites
  SelectedAreListed
  SubmittedOnce
SYMMETRY ScreenSymmetry
CHECK_DEADLOCK FALSE
