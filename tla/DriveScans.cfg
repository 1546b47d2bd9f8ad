SPECIFICATION FairSpec
CONSTANTS
  Secret <- TwoSecrets
  Stored <- OneSecret
  Root <- OneRoot
  Fingerprint <- TwoPrints
  Owners <- OneOwner
  Worker = worker
  None = None
  Limit = 1
  s1 = s1
  s2 = s2
  r1 = r1
  p1 = p1
  p2 = p2
  api = api
INVARIANTS
  
  PrintIsPublished
PROPERTIES
  RebindIsExplicit  
CHECK_DEADLOCK FALSE
