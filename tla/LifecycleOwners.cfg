SPECIFICATION Spec
CONSTANTS
  Release <- TwoReleases
  MaxId = 2
  MaxArchive = 1
  None = None
  Limit = 1
  r1 = r1
  r2 = r2
SYMMETRY Alike
CONSTRAINT Followed
INVARIANT
  OwnershipIsNormalized
