SPECIFICATION Spec
CONSTANTS
  f1 = f1
  f2 = f2
  s1 = s1
  s2 = s2
  FileObjs = {f1, f2}
  SockObjs = {s1, s2}
  Closable = {0}
  MaxFd = 4
  MaxLen = 2
INVARIANTS TypeOK Accounted OnlyAsks
SYMMETRY MCSymmetry
