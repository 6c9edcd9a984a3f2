SPECIFICATION Spec
CONSTANTS
  s1 = s1
  s2 = s2
  x1 = x1
  x2 = x2
  x3 = x3
  Servers = {s1, s2}
  Xs = {x1, x2, x3}
  Nobody = Nobody
  Attempts = 3
INVARIANTS TypeOK DisplayLedger NoServerLeft
SYMMETRY MCSymmetry
CHECK_DEADLOCK FALSE
