SPECIFICATION Spec
CONSTANTS
  o1 = o1
  o2 = o2
  o3 = o3
  h1 = h1
  h2 = h2
  h3 = h3
  Objs = {o1, o2, o3}
  Handles = {h1, h2, h3}
  Null = Null
  MaxClose = 1
SYMMETRY MCSymmetry
INVARIANTS TypeOK OwnedOnceAndOpen InterfaceAccount
