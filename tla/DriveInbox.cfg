SPECIFICATION FairSpec
CONSTANTS
  Caller <- TwoCallers
  Card <- TwoCards
  Folder <- OneFolder
  Attachment <- TwoAttachments
  Allowed <- OneAllowed
  MaxRevision = 2
  MaxVersion = 2
  None = None
  Limit = 1
  c1 = c1
  c2 = c2
  k1 = k1
  k2 = k2
  f1 = f1
  a1 = a1
  a2 = a2
INVARIANTS
  TypeOK
  OneCardPerRequest
  ImportsAreWhole
  
PROPERTIES
  ReplicaSpec 
CHECK_DEADLOCK FALSE
