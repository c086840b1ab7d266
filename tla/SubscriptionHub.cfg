SPECIFICATION Spec
CONSTANTS
  c1 = c1
  c2 = c2
  k1 = k1
  k2 = k2
  m1 = m1
  m2 = m2
  Clients = {c1, c2}
  Keys = {k1, k2}
  Multis = {m1, m2}
  Matches <- MCMatches
  MaxDirect = 2
  MaxIndirect = 2
  MaxSubtopics = 2
  Environments = {"any", "windowless"}
  Lossy = TRUE
  MaxWrites = 2
  MaxRequests = 4
SYMMETRY Symmetry
CHECK_DEADLOCK FALSE
INVARIANTS
  TypeOK
  SidesAgree
  CountsAreExact
  DetachedWithMultitopic
  WindowlessIsCurrent
