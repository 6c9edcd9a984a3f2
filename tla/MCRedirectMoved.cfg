SPECIFICATION Spec
CONSTANTS
  o1 = o1
  o2 = o2
  c1 = c1
  c2 = c2
  Objs = {o1, o2}
  Children = {c1, c2}
  None = None
  MaxFd = 11
  Closable = {0}
  Redirs <- MCRedirs
SYMMETRY MCSymmetry
INVARIANTS StreamsFollowMove
