SPECIFICATION Spec
CONSTANTS
  Secret <- OneSecret
  Name <- TwoNames
  Material <- TwoMaterials
  Callers <- TwoCallers
  MaxRev = 2
  NoFile = NoFile
  Limit <- Undisturbed
  c1 = c1
  c2 = c2
  m1 = m1
  m2 = m2
  s1 = s1
  s2 = s2
  n1 = n1
  n2 = n2
INVARIANTS
  ActiveHasMaterial
CHECK_DEADLOCK FALSE
