SPECIFICATION Spec
CONSTANTS
  Secret <- TwoSecrets
  Name <- TwoNames
  Material <- TwoMaterials
  Callers <- TwoCallers
  MaxRev = 2
  NoFile = NoFile
  Limit <- OfEach
  c1 = c1
  c2 = c2
  m1 = m1
  m2 = m2
  s1 = s1
  s2 = s2
  n1 = n1
  n2 = n2
SYMMETRY Symmetric
INVARIANTS
  UndisturbedHasMaterial
  HistoryIsChain
PROPERTIES
  ReadsWhatTheRowNamed
CHECK_DEADLOCK FALSE
