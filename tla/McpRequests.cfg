SPECIFICATION Spec
CONSTANTS
  Thread <- TwoThreads
  Principal <- OnePrincipal
  Upstream <- OneUpstream
  Local <- OneLocal
  Remote <- TwoRemote
  Name <- OneName
  Named <- NamedIsOne
  Home <- HomeIsOne
  Grants <- SomeGrants
  Window = 1
  Kept = 1
  MaxHandle = 2
  MaxToken = 2
  MaxSecret = 2
  None = None
  Limit = 1
  r1 = r1
  r2 = r2
  p1 = p1
  u1 = u1
  l1 = l1
  n1 = n1
  t1 = t1
  t2 = t2
SYMMETRY Alike
CONSTRAINT Meetings
INVARIANTS
  TypeOK
  DispatchesAreAudited
  ContinuationsAreSpentOnce
  SchemasStayInContext
  AuthorityIsCurrent
CHECK_DEADLOCK FALSE
